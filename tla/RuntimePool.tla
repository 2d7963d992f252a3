----------------------------- MODULE RuntimePool -----------------------------
(***************************************************************************)
(* The settings an administrator changes while the gateway runs            *)
(* (app/core/runtime_settings.py), the file they survive a restart in, and *)
(* the shared HTTP clients they switch on and off (app/core/http_pool.py). *)
(*                                                                         *)
(* Of the nine settings three stand for the kinds there are: "half", the   *)
(* half-life, mirrored from the configuration file and never cleared (so   *)
(* is the baseline); "eps", the exploration rate in tenths, mirrored and   *)
(* clearable; "pool", unset unless the administrator sets it, like the     *)
(* five of the refresh loop.  One upstream base_url is modelled; a pooled  *)
(* client is used by many requests at once and is not counted.             *)
(***************************************************************************)
EXTENDS Integers, FiniteSets

CONSTANTS
    Admins,     \* concurrent PUT /admin/runtime/scheduling requests
    Requests,   \* concurrent forwards, each acquires a client once
    Clients,    \* numbers for the httpx.Client objects that exist at a time
    Patches,    \* the payloads of the administrator
    Files,      \* the configuration files the process may be started with
    DiskFails,  \* the write of runtime_settings.json may fail
    MaxPuts,    \* bound on the number of payloads
    MaxStarts,  \* bound on the number of restarts
    NULL, CLEAR

Fields == {"half", "eps", "pool"}

\* RuntimeScheduling; NULL is a field that follows the configuration file.
Memory == [half : Int, eps : Int \cup {NULL}, pool : BOOLEAN \cup {NULL}]

\* SchedulingConfig puts no bounds on the numbers of the configuration file.
ASSUME RuntimeAssumption ==
    /\ Patches \subseteq [half : Int \cup {NULL}, eps : Int \cup {NULL, CLEAR},
                          pool : BOOLEAN \cup {NULL, CLEAR}]
    /\ Files \subseteq [half : Int, eps : Int, pool : BOOLEAN]
    /\ Clients \subseteq Nat /\ DiskFails \in BOOLEAN
    /\ MaxPuts \in Nat /\ MaxStarts \in Nat
    /\ NULL \notin Int \cup BOOLEAN \cup Memory
    /\ CLEAR \notin Int \cup BOOLEAN \cup {NULL}

VARIABLES
    file,     \* the configuration file of this process
    mem,      \* RuntimeSettings._scheduling
    disk,     \* runtime_settings.json, NULL if there is none
    enabled,  \* UpstreamHttpPool._enabled
    slot,     \* UpstreamHttpPool._clients, the client of the base_url
    client,   \* the life of each client object
    put,      \* the locals of each PUT
    loc,      \* the locals of each forward
    puts, starts,
    saved,    \* auxiliary: the last write of the file succeeded
    overlap   \* auxiliary: the last PUT began while another was in progress

vars == <<file, mem, disk, enabled, slot, client, put, loc, puts, starts, saved, overlap>>

settings == <<file, mem, disk, saved>>

(***************************************************************************)
(* The settings.                                                           *)
(***************************************************************************)
Smaller(a, b) == IF a < b THEN a ELSE b
Larger(a, b) == IF a > b THEN a ELSE b

ClampNothing(f, v) == v  \* mutant: the payload is taken as it is
Clamp(f, v) == CASE f = "half" -> Larger(v, 1)
                 [] f = "eps" -> Smaller(Larger(v, 0), 10)
                 [] OTHER -> v

\* RuntimeSettings.__init__: the file's numbers as they are, except that an
\* exploration rate of 0 counts as absent and becomes the default of one tenth.
Mirror(cfg) == [half |-> cfg.half, eps |-> IF cfg.eps = 0 THEN 1 ELSE cfg.eps, pool |-> NULL]

Patched(m, p) ==
    [f \in Fields |-> IF p[f] = CLEAR THEN NULL
                      ELSE IF p[f] = NULL THEN m[f]
                      ELSE Clamp(f, p[f])]

OverridesTruthy(m) ==  \* mutant: `if val` instead of `if val is not None`
    [m EXCEPT !.eps = IF @ = 0 THEN NULL ELSE @, !.pool = IF @ = FALSE THEN NULL ELSE @]
\* _overrides_dict_unlocked: what is written; an unset field is left out.
Overrides(m) == m

\* _load_from_disk over the freshly mirrored values.
Loaded(m, d) ==
    IF d = NULL THEN m
    ELSE [f \in Fields |-> IF d[f] = NULL THEN m[f] ELSE Clamp(f, d[f])]

\* effective_*(fallback): the setting, or the file's value; the rate is clamped
\* again when it is read, the half-life is not.
Effective(f) ==
    LET v == IF mem[f] = NULL THEN file[f] ELSE mem[f] IN
    IF f = "half" THEN v ELSE Clamp(f, v)

WantPool(cfg, m) == IF m.pool = NULL THEN cfg.pool ELSE m.pool

IdlePut == [pc |-> "idle", want |-> FALSE, closing |-> NULL]
IdleRequest == [pc |-> "idle", own |-> FALSE, client |-> NULL, hit |-> FALSE, broken |-> FALSE]

\* create_app: settings from the file, then from the disk; the pool starts
\* empty and as the settings want it.
Start(cfg) ==
    /\ file' = cfg
    /\ mem' = Loaded(Mirror(cfg), disk)
    /\ enabled' = WantPool(cfg, mem')
    /\ slot' = NULL
    /\ client' = [c \in Clients |-> "new"]
    /\ put' = [a \in Admins |-> IdlePut]
    /\ loc' = [r \in Requests |-> IdleRequest]
    /\ overlap' = FALSE

Init ==
    /\ file \in Files
    /\ disk = NULL /\ mem = Mirror(file)
    /\ enabled = WantPool(file, mem)
    /\ slot = NULL
    /\ client = [c \in Clients |-> "new"]
    /\ put = [a \in Admins |-> IdlePut]
    /\ loc = [r \in Requests |-> IdleRequest]
    /\ puts = 0 /\ starts = 0 /\ saved = TRUE /\ overlap = FALSE

(***************************************************************************)
(* The process ends, by shutdown (UpstreamHttpPool.close) or by a crash,   *)
(* and starts again, perhaps with another configuration file.              *)
(***************************************************************************)
Restart ==
    /\ starts < MaxStarts
    /\ starts' = starts + 1
    /\ \E cfg \in Files : Start(cfg)
    /\ UNCHANGED <<disk, puts, saved>>

(***************************************************************************)
(* put_runtime_scheduling.  patch_scheduling changes the memory and        *)
(* replaces the file under one lock, which the readers take as well; a     *)
(* failed write is logged only.                                            *)
(***************************************************************************)
Patch(a) ==
    /\ put[a].pc = "idle" /\ puts < MaxPuts
    /\ puts' = puts + 1
    /\ \E p \in Patches : mem' = Patched(mem, p)
    /\ \/ disk' = Overrides(mem') /\ saved' = TRUE
       \/ DiskFails /\ disk' = disk /\ saved' = FALSE
    /\ put' = [put EXCEPT ![a].pc = "patched"]
    /\ overlap' = \E b \in Admins : put[b].pc # "idle"
    /\ UNCHANGED <<file, enabled, slot, client, loc, starts>>

\* The effective value is read under the lock of the settings ...
ReadWant(a) ==
    /\ put[a].pc = "patched"
    /\ put' = [put EXCEPT ![a].pc = "want", ![a].want = WantPool(file, mem)]
    /\ UNCHANGED <<settings, enabled, slot, client, loc, puts, starts, overlap>>

SlotKept(want) == slot  \* mutant: the dictionary is not cleared
SlotAfter(want) == NULL

SetEnabledOnly(a) ==  \* mutant: the switch is never turned off
    /\ put[a].pc = "want"
    /\ enabled' = (enabled \/ put[a].want)
    /\ put' = [put EXCEPT ![a] = IdlePut]
    /\ UNCHANGED <<settings, slot, client, loc, puts, starts, overlap>>
\* ... and applied under the lock of the pool.  The clients are closed after
\* that lock is given up.
SetEnabled(a) ==
    LET want == put[a].want
        off == enabled /\ ~want IN
    /\ put[a].pc = "want"
    /\ enabled' = want
    /\ slot' = IF off THEN SlotAfter(want) ELSE slot
    /\ put' = [put EXCEPT ![a] = IF off /\ slot # NULL
                                 THEN [pc |-> "closing", want |-> want, closing |-> slot]
                                 ELSE IdlePut]
    /\ loc' = [r \in Requests |->
                 IF off /\ loc[r].pc = "using" /\ ~loc[r].own
                 THEN [loc[r] EXCEPT !.hit = TRUE] ELSE loc[r]]
    /\ UNCHANGED <<settings, client, puts, starts, overlap>>

CloseClient(a) ==
    /\ put[a].pc = "closing"
    /\ client' = [client EXCEPT ![put[a].closing] = "closed"]
    /\ put' = [put EXCEPT ![a] = IdlePut]
    /\ UNCHANGED <<settings, enabled, slot, loc, puts, starts, overlap>>

(***************************************************************************)
(* acquire: the switch is read without the lock.                           *)
(***************************************************************************)
\* A number nothing refers to any more.
Unused(c) ==
    /\ client[c] # "open" /\ slot # c
    /\ \A r \in Requests : loc[r].client # c
    /\ \A a \in Admins : put[a].closing # c

Make(c) ==
    /\ Unused(c) /\ \A d \in Clients : Unused(d) => c <= d
    /\ client' = [client EXCEPT ![c] = "open"]

Acquire(r) ==
    /\ loc[r].pc = "idle"
    /\ \/ /\ enabled
          /\ loc' = [loc EXCEPT ![r].pc = "lookup"]
          /\ UNCHANGED client
       \/ /\ ~enabled
          /\ \E c \in Clients :
               /\ Make(c)
               /\ loc' = [loc EXCEPT ![r].pc = "using", ![r].own = TRUE, ![r].client = c]
    /\ UNCHANGED <<settings, enabled, slot, put, puts, starts, overlap>>

ReusableNever == FALSE  \* mutant: a client is created for every request
Reusable == slot # NULL /\ client[slot] # "closed"

\* _get_pooled, under the lock of the pool.
GetPooled(r) ==
    /\ loc[r].pc = "lookup"
    /\ \/ /\ Reusable
          /\ loc' = [loc EXCEPT ![r].pc = "using", ![r].client = slot]
          /\ UNCHANGED <<slot, client>>
       \/ /\ ~Reusable
          /\ \E c \in Clients :
               /\ Make(c)
               /\ slot' = c
               /\ loc' = [loc EXCEPT ![r].pc = "using", ![r].client = c]
    /\ UNCHANGED <<settings, enabled, put, puts, starts, overlap>>

\* An attempt of forward with the client it got: httpx refuses a closed one.
Send(r) ==
    /\ loc[r].pc = "using" /\ ~loc[r].broken
    /\ client[loc[r].client] = "closed"
    /\ loc' = [loc EXCEPT ![r].broken = TRUE]
    /\ UNCHANGED <<settings, enabled, slot, client, put, puts, starts, overlap>>

\* The end of the with block.
Leave(r) ==
    /\ loc[r].pc = "using"
    /\ client' = IF loc[r].own THEN [client EXCEPT ![loc[r].client] = "closed"] ELSE client
    /\ loc' = [loc EXCEPT ![r] = IdleRequest]
    /\ UNCHANGED <<settings, enabled, slot, put, puts, starts, overlap>>

Next ==
    \/ Restart
    \/ \E a \in Admins : Patch(a) \/ ReadWant(a) \/ SetEnabled(a) \/ CloseClient(a)
    \/ \E r \in Requests : Acquire(r) \/ GetPooled(r) \/ Send(r) \/ Leave(r)

Spec == Init /\ [][Next]_vars

-----------------------------------------------------------------------------
\* Types; a number in memory is within the range that patch_scheduling and
\* _load_from_disk allow, or is the one of this process's configuration file:
\* an unusable number of an earlier file does not come back from the disk.
TypeOK ==
    /\ file \in Files
    /\ mem \in Memory /\ disk \in Memory \cup {NULL}
    /\ mem.half >= 1 \/ mem.half = file.half
    /\ mem.eps \in 0..10 \cup {NULL, file.eps}
    /\ enabled \in BOOLEAN /\ saved \in BOOLEAN /\ overlap \in BOOLEAN
    /\ slot \in Clients \cup {NULL}
    /\ client \in [Clients -> {"new", "open", "closed"}]
    /\ put \in [Admins -> [pc : {"idle", "patched", "want", "closing"}, want : BOOLEAN,
                           closing : Clients \cup {NULL}]]
    /\ loc \in [Requests -> [pc : {"idle", "lookup", "using"}, own : BOOLEAN,
                             client : Clients \cup {NULL}, hit : BOOLEAN, broken : BOOLEAN]]
    /\ puts \in Nat /\ starts \in Nat

\* Safety: no connection pool is lost.  An open client is the one in the pool,
\* is about to be closed by the PUT that took it out, or belongs to one request
\* that will close it (set_enabled, _get_pooled, acquire).
NoLostClient ==
    \A c \in Clients : client[c] = "open" =>
        \/ slot = c
        \/ \E a \in Admins : put[a].closing = c
        \/ \E r \in Requests : loc[r].own /\ loc[r].client = c

\* Safety: a request finds its client closed only when the pool was switched
\* off after the request had got the client, never because it got one that was
\* already taken out of the pool (_get_pooled against set_enabled).
BrokenOnlyByDisable == \A r \in Requests : loc[r].broken => loc[r].hit

\* Safety: when PUTs did not overlap and none is in progress, the pool is in
\* the state the settings ask for (put_runtime_scheduling).
PoolFollowsSettings ==
    ~overlap /\ (\A a \in Admins : put[a].pc \in {"idle", "closing"})
        => enabled = Effective("pool")

\* The settings a restart changes although they were saved: a cleared rate when
\* the file says 0 (__init__ then mirrors one tenth), and a half-life below 1 of
\* the file once it was written to runtime_settings.json (_load_from_disk clamps).
Drifts(f) ==
    \/ f = "eps" /\ mem.eps = NULL /\ file.eps = 0
    \/ f = "half" /\ mem.half < 1 /\ disk # NULL

\* Action property: a restart with the same configuration file, whatever its
\* numbers, changes no effective setting if the last write of
\* runtime_settings.json succeeded, apart from the two of Drifts
\* (_save_to_disk_unlocked, _load_from_disk, __init__).
SettingsSurviveRestart ==
    [][starts' # starts /\ file' = file /\ saved
         => \A f \in Fields : Effective(f)' = Effective(f) \/ Drifts(f)]_vars

=============================================================================
