------------------------------- MODULE MCMonitor -------------------------------
(* Two scraped instances that carry the same host name; readings on both sides  *)
(* of each limit and of a rounding; a warning limit above the critical one.     *)
EXTENDS Monitor, TLC

CONSTANT one

MCNameOf == [a |-> "nas", b |-> "nas"]

At(cpu, disk) == [cpu |-> cpu, ram |-> None, disk |-> disk]
Limit(warn, crit) == [warn |-> warn, crit |-> crit]
Limits(warn, crit) == [cpu |-> Limit(warn, crit), ram |-> Limit(800, 900), disk |-> Limit(800, 900)]

MCSettings ==
    {[limits |-> Limits(900, 950), least |-> "warning"],
     [limits |-> Limits(960, 950), least |-> "critical"]}

MCHosts ==
    {<< >>, [a |-> At(910, None)], [a |-> At(950, None), b |-> At(954, None)]}
MCLocal == {At(946, 500)}

Listed(name, status, health) == [name |-> name, status |-> status, health |-> health]
MCListings ==
    {{Listed("web", "running", ""), Listed("db", "running", "")},
     {Listed("web", "exited", ""), Listed("db", "running", "starting")}}

MCUsage ==
    {[web |-> [cpu |-> 960, used |-> None, limit |-> None], db |-> [cpu |-> None, used |-> 95, limit |-> 100]]}

Pool(health) == {[name |-> "tank", health |-> health]}
MCPools ==
    {[zpool |-> Pool("ONLINE"), info |-> Pool("DEGRADED"), state |-> {}],
     [zpool |-> {}, info |-> {}, state |-> Pool("DEGRADED")]}

MCTriage ==
    {[service |-> "", top |-> << >>], [service |-> "web", top |-> <<"db">>], [service |-> "a b", top |-> <<"a b", "db">>]}
MCIntent == {[listed |-> FALSE, containers |-> {}],
     [listed |-> TRUE, containers |-> {"db", "a b"}]}

MCAnswers ==
    {[cause |-> x[1], action |-> x[2], intent |-> x[3], container |-> x[4], confidence |-> x[5], human |-> x[6],
      actionConfidence |-> 90] :
        x \in {<<"single_container", "restart_after_confirm", "logs", "web", 60, FALSE>>,
               <<"single_container", "restart_after_confirm", "logs", "db", 59, FALSE>>,
               <<"disk", "check_disk", "status", "none", 90, TRUE>>,
               <<"aliens", "watch", "logs", "gone", 90, FALSE>>}}
=============================================================================
