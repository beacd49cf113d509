-------------------------------- MODULE Snapshot --------------------------------
(***************************************************************************)
(* What the sources tell, as hosts, containers and pools with a status, the *)
(* summary of them (app/services/collector.py) and the alarms they call    *)
(* for (app/services/alerter.py).  Readings are in tenths of a percent, as *)
(* the sources round them.                                                 *)
(***************************************************************************)
EXTENDS Integers

CONSTANTS Instance,     \* the name of this RackWatch
          NameOf,       \* by scraped instance, the host's name: what stands before the port
          None          \* a reading that is missing or cannot be parsed

Resources == {"cpu", "ram", "disk"}
Statuses  == {"ok", "unknown", "warning", "error"}

-----------------------------------------------------------------------------
\* status.py; whatever the settings are, the critical limit is looked at first.
Level(v, limit) ==
    IF v = None THEN "unknown"
    ELSE IF v >= limit.crit THEN "error"
    ELSE IF v >= limit.warn THEN "warning" ELSE "ok"

ContainerSeverity(status, health) ==
    IF status \in {"exited", "dead", "removing"} \/ health = "unhealthy" THEN "error"
    ELSE IF status \in {"restarting", "created", "paused"} \/ health = "starting" THEN "warning"
    ELSE IF status = "running" THEN "ok" ELSE "unknown"

PoolStatus(health) ==
    IF health = "ONLINE" THEN "ok"
    ELSE IF health \in {"DEGRADED", "OFFLINE"} THEN "warning"
    ELSE IF health \in {"FAULTED", "UNAVAIL", "REMOVED"} THEN "error" ELSE "unknown"

\* A mutant of Rank: what is not known hides a warning.
RankUnknownFirst == [ok |-> 0, warning |-> 1, unknown |-> 2, error |-> 3]

Rank == [ok |-> 0, unknown |-> 1, warning |-> 2, error |-> 3]

Worst(levels) == CHOOSE l \in levels : \A m \in levels : Rank[m] <= Rank[l]

HostStatus(at, limits) == Worst({Level(at[r], limits[r]) : r \in Resources})

-----------------------------------------------------------------------------
\* The host a Prometheus answers of: an instance that occurs in any row.  Its
\* readings are those of the last rows.
PrometheusHosts(rows, limits) ==
    {[name |-> NameOf[i], at |-> rows[i], status |-> HostStatus(rows[i], limits)] : i \in DOMAIN rows}

\* Without any, this machine.
LocalHost(at, limits) == [name |-> Instance, at |-> at, status |-> HostStatus(at, limits)]

\* What cAdvisor says of a container: memory as a share of its limit, if it has one.
\* The code rounds it to hundredths (prometheus.py, 164 and 186); cut to the tenths
\* counted here, it reaches a limit when the code's does, but for the last five
\* thousandths below the limit.
Usage(rows) ==
    [n \in DOMAIN rows |->
        [cpu |-> rows[n].cpu,
         ram |-> IF rows[n].used = None \/ rows[n].limit = None \/ rows[n].limit <= 0 THEN None
                 ELSE (rows[n].used * 1000) \div rows[n].limit]]

Containers(listed, usage) ==
    {[name |-> c.name, status |-> c.status, severity |-> ContainerSeverity(c.status, c.health),
      cpu |-> IF c.name \in DOMAIN usage THEN usage[c.name].cpu ELSE None,
      ram |-> IF c.name \in DOMAIN usage THEN usage[c.name].ram ELSE None] : c \in listed}

\* The pools of zpool or else of Prometheus's first metric that has any.
Pools(zpool, info, state) ==
    LET found == IF zpool # {} THEN zpool ELSE IF info # {} THEN info ELSE state
    IN  {[name |-> p.name, health |-> p.health, status |-> PoolStatus(p.health)] : p \in found}

Down(containers) == {c \in containers : c.severity = "error"}

\* _summarize
Overall(hosts, containers, pools) ==
    IF \/ Down(containers) # {}
       \/ \E p \in pools : p.status \in {"warning", "error"}
       \/ \E h \in hosts : h.status = "error"
    THEN "error"
    ELSE IF \/ \E c \in containers : c.severity = "warning"
            \/ \E h \in hosts : h.status = "warning"
    THEN "warning"
    ELSE "ok"

-----------------------------------------------------------------------------
\* f"{value:.0f}": a half goes to the even neighbour.
Whole(v) ==
    IF v % 10 < 5 \/ (v % 10 = 5 /\ (v \div 10) % 2 = 0) THEN v \div 10 ELSE (v \div 10) + 1

Alarm(severity, source, host, service, text, reading) ==
    [severity |-> severity, source |-> source, host |-> host, service |-> service,
     title |-> << text, Whole(reading) >>, reading |-> reading]

HostAlarms(hosts, limits) ==
    {Alarm(IF x[1].at[x[2]] >= limits[x[2]].crit THEN "critical" ELSE "warning",
           x[2], x[1].name, x[2], "at", x[1].at[x[2]]) :
     x \in {y \in hosts \X Resources :
              y[1].at[y[2]] # None /\ (\/ y[1].at[y[2]] >= limits[y[2]].crit
                                       \/ y[1].at[y[2]] >= limits[y[2]].warn)}}

\* Running well, but over the critical limit: the CPU first, else the memory.
Busy(c, limits) == c.severity \notin {"error", "warning"} /\ c.cpu # None /\ c.cpu >= limits["cpu"].crit
Full(c, limits) ==
    /\ c.severity \notin {"error", "warning"} /\ ~Busy(c, limits)
    /\ c.ram # None /\ c.ram >= limits["ram"].crit

StateAlarms(containers) ==
    {Alarm("critical", "container", Instance, c.name, "down", 0) : c \in Down(containers)} \cup
    {Alarm("warning", "container", Instance, c.name, c.status, 0) :
        c \in {d \in containers : d.severity = "warning"}}

LoadAlarms(containers, limits) ==
    {Alarm("critical", "container_cpu", Instance, c.name, "at", c.cpu) : c \in {d \in containers : Busy(d, limits)}} \cup
    {Alarm("critical", "container_ram", Instance, c.name, "at", c.ram) : c \in {d \in containers : Full(d, limits)}}

PoolAlarms(pools) ==
    {Alarm(IF p.status = "error" THEN "critical" ELSE "warning", "zfs", Instance, p.name, p.health, 0) :
        p \in {q \in pools : q.status \in {"warning", "error"}}}

PrometheusAlarms(ok) ==
    IF ok THEN {} ELSE {Alarm("warning", "prometheus", Instance, "prometheus", "unreachable", 0)}

\* The alarms behind the light of the dashboard, and all of them.
ShownAlarms(hosts, containers, pools, limits) ==
    HostAlarms(hosts, limits) \cup StateAlarms(containers) \cup PoolAlarms(pools)

Alarms(hosts, containers, pools, ok, limits) ==
    ShownAlarms(hosts, containers, pools, limits) \cup LoadAlarms(containers, limits) \cup PrometheusAlarms(ok)

\* A mutant of Fingerprint: without the title.
FingerprintUntitled(a) == << a.source, a.host, a.service >>

\* The severity is no part of it.
Fingerprint(a) == << a.source, a.host, a.service, a.title >>
=============================================================================
