------------------------- MODULE RuntimePoolProofs -------------------------
(***************************************************************************)
(* Safety of the shared HTTP clients for any number of administrators,     *)
(* requests and clients, and of the settings for any payloads and files.   *)
(***************************************************************************)
EXTENDS RuntimePool, TLAPS

\* The ranges TypeOK gives the numbers in memory.
Usable(cfg, m) ==
    /\ m.half >= 1 \/ m.half = cfg.half
    /\ m.eps \in 0..10 \cup {NULL, cfg.eps}

LEMMA ClampType ==
    /\ \A v \in Int : Clamp("half", v) \in Nat \ {0} /\ Clamp("eps", v) \in 0..10
    /\ \A v \in BOOLEAN : Clamp("pool", v) \in BOOLEAN
  BY DEF Clamp, Larger, Smaller

LEMMA FileType ==
    ASSUME NEW cfg \in Files
    PROVE  cfg.half \in Int /\ cfg.eps \in Int /\ cfg.pool \in BOOLEAN
  BY RuntimeAssumption

\* The settings after a payload.
LEMMA PatchedType ==
    ASSUME NEW cfg \in Files, NEW m \in Memory, Usable(cfg, m), NEW p \in Patches
    PROVE  Patched(m, p) \in Memory /\ Usable(cfg, Patched(m, p))
  <1>1. /\ p.half \in Int \cup {NULL} /\ p.eps \in Int \cup {NULL, CLEAR}
        /\ p.pool \in BOOLEAN \cup {NULL, CLEAR}
        /\ m.half \in Int /\ m.eps \in Int \cup {NULL} /\ m.pool \in BOOLEAN \cup {NULL}
    BY RuntimeAssumption DEF Memory
  <1>2. Patched(m, p) = [half |-> Patched(m, p).half, eps |-> Patched(m, p).eps, pool |-> Patched(m, p).pool]
    BY DEF Patched, Fields
  <1>3. \A f \in Fields : Patched(m, p)[f] = IF p[f] = CLEAR THEN NULL
                                             ELSE IF p[f] = NULL THEN m[f] ELSE Clamp(f, p[f])
    BY DEF Patched
  <1>4. Patched(m, p).half = m.half \/ Patched(m, p).half \in Nat \ {0}
    BY <1>1, <1>3, ClampType, RuntimeAssumption DEF Fields
  <1>5. Patched(m, p).eps = m.eps \/ Patched(m, p).eps \in 0..10 \cup {NULL}
    BY <1>1, <1>3, ClampType, RuntimeAssumption DEF Fields
  <1>6. Patched(m, p).pool \in BOOLEAN \cup {NULL}
    BY <1>1, <1>3, ClampType, RuntimeAssumption DEF Fields
  <1>7. Usable(cfg, Patched(m, p))
    BY <1>1, <1>4, <1>5 DEF Usable
  <1> QED BY <1>1, <1>2, <1>4, <1>5, <1>6, <1>7 DEF Memory

\* The settings of a process that has just started.
LEMMA MirrorType ==
    ASSUME NEW cfg \in Files
    PROVE  Mirror(cfg) \in Memory /\ Usable(cfg, Mirror(cfg))
  BY FileType, RuntimeAssumption DEF Mirror, Memory, Usable

LEMMA LoadedType ==
    ASSUME NEW cfg \in Files, NEW d \in Memory \cup {NULL}
    PROVE  Loaded(Mirror(cfg), d) \in Memory /\ Usable(cfg, Loaded(Mirror(cfg), d))
  <1> DEFINE m == Mirror(cfg)
  <1>1. m \in Memory /\ Usable(cfg, m)
    BY MirrorType
  <1> HIDE DEF m
  <1>2. CASE d = NULL
    BY <1>1, <1>2 DEF Loaded, m
  <1>3. CASE d # NULL
    <2>1. /\ d.half \in Int /\ d.eps \in Int \cup {NULL} /\ d.pool \in BOOLEAN \cup {NULL}
          /\ m.half \in Int /\ m.eps \in Int \cup {NULL} /\ m.pool \in BOOLEAN \cup {NULL}
      BY <1>1, <1>3 DEF Memory
    <2>2. Loaded(m, d) = [f \in Fields |-> IF d[f] = NULL THEN m[f] ELSE Clamp(f, d[f])]
      BY <1>3 DEF Loaded
    <2>3. Loaded(m, d) = [half |-> Loaded(m, d).half, eps |-> Loaded(m, d).eps, pool |-> Loaded(m, d).pool]
      BY <2>2 DEF Fields
    <2>4. \A f \in Fields : Loaded(m, d)[f] = IF d[f] = NULL THEN m[f] ELSE Clamp(f, d[f])
      BY <2>2
    <2>5. Loaded(m, d).half = m.half \/ Loaded(m, d).half \in Nat \ {0}
      BY <2>1, <2>4, ClampType, RuntimeAssumption DEF Fields
    <2>6. Loaded(m, d).eps = m.eps \/ Loaded(m, d).eps \in 0..10
      BY <2>1, <2>4, ClampType, RuntimeAssumption DEF Fields
    <2>7. Loaded(m, d).pool \in BOOLEAN \cup {NULL}
      BY <2>1, <2>4, ClampType, RuntimeAssumption DEF Fields
    <2>8. Usable(cfg, Loaded(m, d))
      BY <1>1, <2>1, <2>5, <2>6 DEF Usable
    <2>9. Loaded(m, d) \in Memory
      BY <2>1, <2>3, <2>5, <2>6, <2>7 DEF Memory
    <2> QED BY <2>8, <2>9 DEF m
  <1> QED BY <1>2, <1>3

-----------------------------------------------------------------------------
Puts == [pc : {"idle", "patched", "want", "closing"}, want : BOOLEAN, closing : Clients \cup {NULL}]
Locals == [pc : {"idle", "lookup", "using"}, own : BOOLEAN, client : Clients \cup {NULL},
           hit : BOOLEAN, broken : BOOLEAN]

LEMMA IdleTypes ==
    /\ IdlePut \in Puts /\ IdleRequest \in Locals
    /\ IdlePut.closing = NULL /\ IdlePut.pc = "idle"
    /\ IdleRequest.pc = "idle" /\ IdleRequest.own = FALSE /\ IdleRequest.client = NULL
    /\ IdleRequest.broken = FALSE
  BY DEF IdlePut, IdleRequest, Puts, Locals

\* The types of what a new process sets.
LEMMA StartType ==
    ASSUME TypeOK, NEW cfg \in Files, Start(cfg)
    PROVE  /\ file' \in Files /\ mem' \in Memory /\ Usable(file', mem') /\ enabled' \in BOOLEAN
           /\ slot' = NULL /\ client' \in [Clients -> {"new"}]
           /\ put' \in [Admins -> {IdlePut}] /\ loc' \in [Requests -> {IdleRequest}]
           /\ overlap' \in BOOLEAN
  <1>1. mem' \in Memory /\ Usable(file', mem')
    BY LoadedType DEF Start, TypeOK
  <1>2. enabled' \in BOOLEAN
    BY <1>1, FileType DEF Start, WantPool, Memory
  <1> QED BY <1>1, <1>2 DEF Start

LEMMA TypeInit == Init => TypeOK
  <1> SUFFICES ASSUME Init PROVE TypeOK
    OBVIOUS
  <1>1. file \in Files /\ mem \in Memory /\ Usable(file, mem)
    BY MirrorType DEF Init
  <1>2. enabled \in BOOLEAN
    BY <1>1, FileType DEF Init, WantPool, Memory
  <1>3. put \in [Admins -> Puts] /\ loc \in [Requests -> Locals]
    BY IdleTypes DEF Init
  <1> QED BY <1>1, <1>2, <1>3 DEF Init, TypeOK, Usable, Puts, Locals

LEMMA TypeNext == TypeOK /\ [Next]_vars => TypeOK'
  <1> SUFFICES ASSUME TypeOK, [Next]_vars PROVE TypeOK'
    OBVIOUS
  <1>1. CASE Restart
    <2>1. PICK cfg \in Files : Start(cfg)
      BY <1>1 DEF Restart
    <2>2. put' \in [Admins -> Puts] /\ loc' \in [Requests -> Locals]
      BY <2>1, StartType, IdleTypes
    <2>3. starts' \in Nat /\ UNCHANGED <<disk, puts, saved>>
      BY <1>1 DEF Restart, TypeOK
    <2>4. /\ file' \in Files /\ mem' \in Memory /\ Usable(file', mem') /\ enabled' \in BOOLEAN
          /\ slot' = NULL /\ client' \in [Clients -> {"new"}] /\ overlap' \in BOOLEAN
      BY <2>1, StartType
    <2> QED BY <2>2, <2>3, <2>4 DEF TypeOK, Usable, Puts, Locals
  <1>2. ASSUME NEW a \in Admins, Patch(a) PROVE TypeOK'
    <2>1. mem' \in Memory /\ Usable(file, mem') /\ file' = file
      <3>1. PICK p \in Patches : mem' = Patched(mem, p)
        BY <1>2 DEF Patch
      <3>2. file \in Files /\ mem \in Memory /\ Usable(file, mem) /\ file' = file
        BY <1>2 DEF Patch, TypeOK, Usable
      <3> QED BY <3>1, <3>2, PatchedType
    <2>2. disk' \in Memory \cup {NULL} /\ saved' \in BOOLEAN
      BY <1>2, <2>1 DEF Patch, TypeOK, Overrides
    <2>3. put' \in [Admins -> Puts]
      BY <1>2 DEF Patch, TypeOK, Puts
    <2> QED BY <1>2, <2>1, <2>2, <2>3 DEF Patch, TypeOK, Usable, Puts
  <1>3. ASSUME NEW a \in Admins, ReadWant(a) PROVE TypeOK'
    <2>1. WantPool(file, mem) \in BOOLEAN
      BY FileType DEF TypeOK, WantPool, Memory
    <2> DEFINE v == WantPool(file, mem)
    <2>2. put' \in [Admins -> Puts]
      <3> HIDE DEF v
      <3>1. put \in [Admins -> Puts] /\ put' = [put EXCEPT ![a].pc = "want", ![a].want = v]
        BY <1>3 DEF ReadWant, TypeOK, Puts, v
      <3>2. [put[a] EXCEPT !.pc = "want", !.want = v] \in Puts
        BY <2>1, <3>1 DEF Puts, v
      <3>3. put' = [put EXCEPT ![a] = [put[a] EXCEPT !.pc = "want", !.want = v]]
        BY <3>1 DEF Puts
      <3> QED BY <3>1, <3>2, <3>3
    <2> QED BY <1>3, <2>2 DEF ReadWant, TypeOK, Puts, settings
  <1>4. ASSUME NEW a \in Admins, SetEnabled(a) PROVE TypeOK'
    <2>1. /\ enabled' \in BOOLEAN /\ slot' \in Clients \cup {NULL}
      BY <1>4 DEF SetEnabled, SlotAfter, TypeOK
    <2>2. put' \in [Admins -> Puts]
      <3>1. \A x \in Puts : [put EXCEPT ![a] = x] \in [Admins -> Puts]
        BY DEF TypeOK, Puts
      <3>2. slot # NULL => [pc |-> "closing", want |-> put[a].want, closing |-> slot] \in Puts
        BY DEF TypeOK, Puts
      <3> QED BY <1>4, <3>1, <3>2, IdleTypes DEF SetEnabled
    <2>3. loc' \in [Requests -> Locals]
      <3>1. \A r \in Requests : loc[r] \in Locals /\ [loc[r] EXCEPT !.hit = TRUE] \in Locals
        BY DEF TypeOK, Locals
      <3> QED BY <1>4, <3>1 DEF SetEnabled
    <2> QED BY <1>4, <2>1, <2>2, <2>3 DEF SetEnabled, TypeOK, Puts, Locals, settings
  <1>5. ASSUME NEW a \in Admins, CloseClient(a) PROVE TypeOK'
    <2>1. put' \in [Admins -> Puts]
      BY <1>5, IdleTypes DEF CloseClient, TypeOK, Puts
    <2>2. client' \in [Clients -> {"new", "open", "closed"}]
      BY <1>5 DEF CloseClient, TypeOK
    <2> QED BY <1>5, <2>1, <2>2 DEF CloseClient, TypeOK, Puts, settings
  <1>6. ASSUME NEW r \in Requests, Acquire(r) PROVE TypeOK'
    <2>1. client' \in [Clients -> {"new", "open", "closed"}]
      BY <1>6 DEF Acquire, Make, TypeOK
    <2>2. loc' \in [Requests -> Locals]
      <3>1. loc \in [Requests -> Locals]
        BY DEF TypeOK, Locals
      <3>2. CASE loc' = [loc EXCEPT ![r].pc = "lookup"]
        BY <3>1, <3>2 DEF Locals
      <3>3. ASSUME NEW c \in Clients,
                   loc' = [loc EXCEPT ![r].pc = "using", ![r].own = TRUE, ![r].client = c]
            PROVE  loc' \in [Requests -> Locals]
        BY <3>1, <3>3 DEF Locals
      <3> QED BY <1>6, <3>2, <3>3 DEF Acquire
    <2> QED BY <1>6, <2>1, <2>2 DEF Acquire, TypeOK, Locals, settings
  <1>7. ASSUME NEW r \in Requests, GetPooled(r) PROVE TypeOK'
    <2>1. client' \in [Clients -> {"new", "open", "closed"}] /\ slot' \in Clients \cup {NULL}
      BY <1>7 DEF GetPooled, Make, TypeOK
    <2>2. loc' \in [Requests -> Locals]
      BY <1>7 DEF GetPooled, TypeOK, Locals
    <2> QED BY <1>7, <2>1, <2>2 DEF GetPooled, TypeOK, Locals, settings
  <1>8. ASSUME NEW r \in Requests, Send(r) PROVE TypeOK'
    <2>1. loc' \in [Requests -> Locals]
      BY <1>8 DEF Send, TypeOK, Locals
    <2> QED BY <1>8, <2>1 DEF Send, TypeOK, Locals, settings
  <1>9. ASSUME NEW r \in Requests, Leave(r) PROVE TypeOK'
    <2>1. client' \in [Clients -> {"new", "open", "closed"}]
      BY <1>9 DEF Leave, TypeOK
    <2>2. loc' \in [Requests -> Locals]
      BY <1>9, IdleTypes DEF Leave, TypeOK, Locals
    <2> QED BY <1>9, <2>1, <2>2 DEF Leave, TypeOK, Locals, settings
  <1>10. CASE UNCHANGED vars
    BY <1>10 DEF vars, TypeOK
  <1> QED BY <1>1, <1>2, <1>3, <1>4, <1>5, <1>6, <1>7, <1>8, <1>9, <1>10 DEF Next

\* Types: whatever an administrator sends and whatever the files hold, a number
\* in memory is in range or that of this process's configuration file
\* (patch_scheduling, _load_from_disk, __init__).
THEOREM TypeCorrect == Spec => []TypeOK
  BY TypeInit, TypeNext, PTL DEF Spec

-----------------------------------------------------------------------------
(***************************************************************************)
(* The inductive invariant of the pool: every client has one keeper.       *)
(***************************************************************************)
\* The client in the pool is open, nobody closes it and nobody owns it.
SlotKeeps ==
    slot # NULL =>
        /\ client[slot] = "open"
        /\ \A a \in Admins : put[a].closing # slot
        /\ \A r \in Requests : loc[r].own => loc[r].client # slot

\* A client of a request's own is open, and nobody else refers to it.
OwnKeeps ==
    \A r \in Requests : loc[r].own =>
        /\ loc[r].pc = "using" /\ loc[r].client # NULL
        /\ client[loc[r].client] = "open"
        /\ \A a \in Admins : put[a].closing # loc[r].client
        /\ \A q \in Requests : q # r => loc[q].client # loc[r].client

\* A request that shares a client shares that of the pool, or the pool was
\* switched off since.
SharedKeeps ==
    \A r \in Requests : loc[r].pc = "using" /\ ~loc[r].own =>
        loc[r].client # NULL /\ (loc[r].client = slot \/ loc[r].hit)

\* Who holds no client has none, and only a PUT that closes one refers to it.
IdleKeeps ==
    /\ \A r \in Requests : loc[r].pc # "using" => loc[r].client = NULL /\ ~loc[r].own
    /\ \A a \in Admins : put[a].closing # NULL => put[a].pc = "closing"
    /\ \A r \in Requests : loc[r].pc # "using" => ~loc[r].broken

PoolInv ==
    TypeOK /\ SlotKeeps /\ OwnKeeps /\ SharedKeeps /\ IdleKeeps /\ NoLostClient /\ BrokenOnlyByDisable

LEMMA PoolInit == Init => PoolInv
  <1> SUFFICES ASSUME Init PROVE PoolInv
    OBVIOUS
  <1>1. /\ \A r \in Requests : /\ loc[r].pc = "idle" /\ loc[r].own = FALSE
                               /\ loc[r].client = NULL /\ loc[r].broken = FALSE
        /\ \A a \in Admins : put[a].closing = NULL
        /\ \A c \in Clients : client[c] = "new"
        /\ slot = NULL
    BY IdleTypes DEF Init
  <1> QED BY <1>1, TypeInit DEF PoolInv, SlotKeeps, OwnKeeps, SharedKeeps, IdleKeeps, NoLostClient,
                                BrokenOnlyByDisable

\* What a step changes of one element of the functions.
LEMMA Changes ==
    ASSUME PoolInv
    PROVE  /\ \A a \in Admins : put[a] \in Puts
           /\ \A r \in Requests : loc[r] \in Locals
           /\ put \in [Admins -> Puts] /\ loc \in [Requests -> Locals]
           /\ client \in [Clients -> {"new", "open", "closed"}]
           /\ slot \in Clients \cup {NULL} /\ NULL \notin Clients
  <1>1. \A n \in Nat : n \in Int
    OBVIOUS
  <1>2. NULL \notin Clients
    BY <1>1, RuntimeAssumption, Zenon
  <1> QED BY <1>2 DEF PoolInv, TypeOK, Puts, Locals

LEMMA RestartKeeps == ASSUME PoolInv, Restart PROVE PoolInv'
  <1>1. PICK cfg \in Files : Start(cfg)
    BY DEF Restart
  <1>2. /\ slot' = NULL /\ client' \in [Clients -> {"new"}]
        /\ put' \in [Admins -> {IdlePut}] /\ loc' \in [Requests -> {IdleRequest}]
    BY <1>1, StartType DEF PoolInv
  <1>3. /\ \A r \in Requests : /\ loc'[r].pc = "idle" /\ loc'[r].own = FALSE
                               /\ loc'[r].client = NULL /\ loc'[r].broken = FALSE
        /\ \A a \in Admins : put'[a].closing = NULL
        /\ \A c \in Clients : client'[c] = "new"
    BY <1>2, IdleTypes
  <1>4. TypeOK'
    BY TypeNext DEF PoolInv, Next
  <1> QED BY <1>2, <1>3, <1>4 DEF PoolInv, SlotKeeps, OwnKeeps, SharedKeeps, IdleKeeps, NoLostClient,
                                  BrokenOnlyByDisable

\* A PUT that does not change which clients are closed by whom.
LEMMA PutKeeps ==
    ASSUME PoolInv, NEW a \in Admins, Patch(a) \/ ReadWant(a)
    PROVE  PoolInv'
  <1>1. TypeOK'
    BY TypeNext DEF PoolInv, Next
  <1>2. UNCHANGED <<slot, client, loc>>
    BY DEF Patch, ReadWant
  <1>3. \A b \in Admins : put'[b].closing = put[b].closing /\ put[a].closing = NULL
    <2>1. put[a].pc # "closing"
      BY DEF Patch, ReadWant
    <2>2. put[a].closing = NULL
      BY <2>1 DEF PoolInv, IdleKeeps
    <2>3. CASE Patch(a)
      BY <2>2, <2>3, Changes DEF Patch, Puts
    <2>4. CASE ReadWant(a)
      BY <2>2, <2>4, Changes DEF ReadWant, Puts
    <2> QED BY <2>3, <2>4
  <1>4. \A b \in Admins : put'[b].closing # NULL => put'[b].pc = put[b].pc
    <2>1. CASE Patch(a)
      BY <1>3, <2>1, Changes DEF Patch, Puts
    <2>2. CASE ReadWant(a)
      BY <1>3, <2>2, Changes DEF ReadWant, Puts
    <2> QED BY <2>1, <2>2
  <1>5. SlotKeeps' /\ OwnKeeps' /\ SharedKeeps' /\ BrokenOnlyByDisable'
    BY <1>2, <1>3 DEF PoolInv, SlotKeeps, OwnKeeps, SharedKeeps, BrokenOnlyByDisable
  <1>6. IdleKeeps' /\ NoLostClient'
    BY <1>2, <1>3, <1>4 DEF PoolInv, IdleKeeps, NoLostClient
  <1> QED BY <1>1, <1>5, <1>6 DEF PoolInv

LEMMA SetEnabledKeeps ==
    ASSUME PoolInv, NEW a \in Admins, SetEnabled(a)
    PROVE  PoolInv'
  <1> DEFINE off == enabled /\ ~put[a].want
             New == IF off /\ slot # NULL
                    THEN [pc |-> "closing", want |-> put[a].want, closing |-> slot]
                    ELSE IdlePut
  <1>1. TypeOK'
    BY TypeNext DEF PoolInv, Next
  <1>2. /\ client' = client /\ put[a].pc = "want" /\ put[a].closing = NULL
        /\ slot' = (IF off THEN NULL ELSE slot)
        /\ put' = [put EXCEPT ![a] = New]
        /\ loc' = [r \in Requests |-> IF off /\ loc[r].pc = "using" /\ ~loc[r].own
                                      THEN [loc[r] EXCEPT !.hit = TRUE] ELSE loc[r]]
    BY DEF SetEnabled, SlotAfter, PoolInv, IdleKeeps
  <1>3. /\ \A b \in Admins : b # a => put'[b] = put[b]
        /\ put'[a] = New
    BY <1>2, Changes
  <1>4. /\ off /\ slot # NULL => put'[a].closing = slot /\ put'[a].pc = "closing"
        /\ ~(off /\ slot # NULL) => put'[a].closing = NULL
    BY <1>3, IdleTypes
  <1>5. \A r \in Requests :
          /\ loc'[r].pc = loc[r].pc /\ loc'[r].own = loc[r].own /\ loc'[r].client = loc[r].client
          /\ loc'[r].broken = loc[r].broken /\ (loc[r].hit => loc'[r].hit)
          /\ off /\ loc[r].pc = "using" /\ ~loc[r].own => loc'[r].hit
    BY <1>2, Changes DEF Locals
  <1> HIDE DEF off, New
  <1>6. SlotKeeps'
    BY <1>2, <1>3, <1>4, <1>5 DEF PoolInv, SlotKeeps
  <1>7. OwnKeeps'
    BY <1>2, <1>3, <1>4, <1>5, Changes DEF PoolInv, OwnKeeps, SlotKeeps
  <1>8. SharedKeeps'
    BY <1>2, <1>5 DEF PoolInv, SharedKeeps
  <1>9. IdleKeeps'
    BY <1>2, <1>3, <1>4, <1>5 DEF PoolInv, IdleKeeps
  <1>10. NoLostClient'
    BY <1>2, <1>3, <1>4, <1>5 DEF PoolInv, NoLostClient
  <1>11. BrokenOnlyByDisable'
    BY <1>5 DEF PoolInv, BrokenOnlyByDisable
  <1> QED BY <1>1, <1>6, <1>7, <1>8, <1>9, <1>10, <1>11 DEF PoolInv

LEMMA CloseKeeps ==
    ASSUME PoolInv, NEW a \in Admins, CloseClient(a)
    PROVE  PoolInv'
  <1>1. TypeOK'
    BY TypeNext DEF PoolInv, Next
  <1>2. /\ UNCHANGED <<slot, loc>>
        /\ client' = [client EXCEPT ![put[a].closing] = "closed"]
        /\ \A b \in Admins : b # a => put'[b] = put[b]
        /\ put'[a].closing = NULL
    BY Changes, IdleTypes DEF CloseClient
  <1>3. /\ \A c \in Clients : c # put[a].closing => client'[c] = client[c]
        /\ put[a].closing \in Clients => client'[put[a].closing] = "closed"
    BY <1>2, Changes
  <1>4. SlotKeeps' /\ IdleKeeps' /\ SharedKeeps' /\ BrokenOnlyByDisable'
    BY <1>2, <1>3, Changes DEF PoolInv, SlotKeeps, IdleKeeps, SharedKeeps, BrokenOnlyByDisable
  <1>5. OwnKeeps'
    BY <1>2, <1>3, Changes DEF PoolInv, OwnKeeps, Locals
  <1>6. NoLostClient'
    BY <1>2, <1>3 DEF PoolInv, NoLostClient
  <1> QED BY <1>1, <1>4, <1>5, <1>6 DEF PoolInv

\* A client just made is referred to by nobody.
LEMMA Made ==
    ASSUME PoolInv, NEW c \in Clients, Make(c)
    PROVE  /\ client[c] # "open" /\ slot # c
           /\ \A r \in Requests : loc[r].client # c
           /\ \A a \in Admins : put[a].closing # c
           /\ client'[c] = "open" /\ \A d \in Clients : d # c => client'[d] = client[d]
  BY Changes DEF Make, Unused

LEMMA AcquireKeeps ==
    ASSUME PoolInv, NEW r \in Requests, Acquire(r)
    PROVE  PoolInv'
  <1>1. TypeOK'
    BY TypeNext DEF PoolInv, Next
  <1>2. UNCHANGED <<slot, put>> /\ loc[r].pc = "idle" /\ loc[r].client = NULL /\ ~loc[r].own
    BY DEF Acquire, PoolInv, IdleKeeps
  <1>3. CASE enabled
    <2>1. client' = client /\ loc' = [loc EXCEPT ![r].pc = "lookup"]
      BY <1>3 DEF Acquire
    <2>2. \A q \in Requests :
            /\ loc'[q].own = loc[q].own /\ loc'[q].client = loc[q].client
            /\ loc'[q].hit = loc[q].hit /\ loc'[q].broken = loc[q].broken
            /\ (loc'[q].pc = "using" <=> loc[q].pc = "using")
      BY <1>2, <2>1, Changes DEF Locals
    <2>3. SlotKeeps' /\ OwnKeeps' /\ SharedKeeps'
      BY <1>2, <2>1, <2>2 DEF PoolInv, SlotKeeps, OwnKeeps, SharedKeeps
    <2>4. IdleKeeps' /\ NoLostClient' /\ BrokenOnlyByDisable'
      BY <1>2, <2>1, <2>2 DEF PoolInv, IdleKeeps, NoLostClient, BrokenOnlyByDisable
    <2> QED BY <1>1, <2>3, <2>4 DEF PoolInv
  <1>4. CASE ~enabled
    <2>1. PICK c \in Clients :
            /\ Make(c)
            /\ loc' = [loc EXCEPT ![r].pc = "using", ![r].own = TRUE, ![r].client = c]
      BY <1>4 DEF Acquire
    <2>2. /\ \A q \in Requests : q # r => loc'[q] = loc[q]
          /\ loc'[r].pc = "using" /\ loc'[r].own /\ loc'[r].client = c
          /\ loc'[r].broken = loc[r].broken /\ loc'[r].hit = loc[r].hit
      BY <2>1, Changes DEF Locals
    <2>3. SlotKeeps'
      BY <1>2, <2>1, <2>2, Made, Changes DEF PoolInv, SlotKeeps
    <2>4. OwnKeeps'
      BY <1>2, <2>1, <2>2, Made, Changes DEF PoolInv, OwnKeeps, Locals
    <2>5. SharedKeeps' /\ IdleKeeps' /\ BrokenOnlyByDisable'
      BY <1>2, <2>2 DEF PoolInv, SharedKeeps, IdleKeeps, BrokenOnlyByDisable
    <2>6. ASSUME NEW d \in Clients, client'[d] = "open"
          PROVE  \/ slot' = d
                 \/ \E a \in Admins : put'[a].closing = d
                 \/ \E q \in Requests : loc'[q].own /\ loc'[q].client = d
      <3>1. CASE d = c
        BY <2>2, <3>1
      <3>2. CASE d # c
        <4>1. client[d] = "open"
          BY <2>1, <2>6, <3>2, Made
        <4> QED BY <1>2, <2>2, <4>1 DEF PoolInv, NoLostClient
      <3> QED BY <3>1, <3>2
    <2> QED BY <1>1, <2>3, <2>4, <2>5, <2>6 DEF PoolInv, NoLostClient
  <1> QED BY <1>3, <1>4

LEMMA GetPooledKeeps ==
    ASSUME PoolInv, NEW r \in Requests, GetPooled(r)
    PROVE  PoolInv'
  <1>1. TypeOK'
    BY TypeNext DEF PoolInv, Next
  <1>2. UNCHANGED put /\ loc[r].pc = "lookup" /\ loc[r].client = NULL /\ ~loc[r].own
    BY DEF GetPooled, PoolInv, IdleKeeps
  <1>3. Reusable <=> slot # NULL
    BY DEF Reusable, PoolInv, SlotKeeps
  <1>4. CASE Reusable
    <2>1. client' = client /\ slot' = slot
          /\ loc' = [loc EXCEPT ![r].pc = "using", ![r].client = slot]
      BY <1>4 DEF GetPooled
    <2>2. /\ \A q \in Requests : q # r => loc'[q] = loc[q]
          /\ loc'[r].pc = "using" /\ ~loc'[r].own /\ loc'[r].client = slot
          /\ loc'[r].broken = loc[r].broken /\ loc'[r].hit = loc[r].hit
      BY <1>2, <2>1, Changes DEF Locals
    <2>3. SlotKeeps' /\ SharedKeeps'
      BY <1>2, <1>3, <1>4, <2>1, <2>2 DEF PoolInv, SlotKeeps, SharedKeeps
    <2>4. ASSUME NEW q \in Requests, loc'[q].own
          PROVE  /\ loc'[q].pc = "using" /\ loc'[q].client # NULL
                 /\ client'[loc'[q].client] = "open"
                 /\ \A a \in Admins : put'[a].closing # loc'[q].client
                 /\ \A p \in Requests : p # q => loc'[p].client # loc'[q].client
      <3>1. q # r /\ loc'[q] = loc[q] /\ loc[q].own
        BY <2>2, <2>4
      <3>2. loc[q].client # slot
        BY <1>3, <1>4, <3>1 DEF PoolInv, SlotKeeps
      <3>3. \A p \in Requests : p # q => loc'[p].client # loc[q].client
        BY <2>2, <3>1, <3>2 DEF PoolInv, OwnKeeps
      <3> QED BY <1>2, <2>1, <3>1, <3>3 DEF PoolInv, OwnKeeps
    <2>5. IdleKeeps'
      BY <1>2, <2>2 DEF PoolInv, IdleKeeps
    <2>6. \A q \in Requests : loc[q].own => loc'[q] = loc[q]
      BY <1>2, <2>2
    <2>7. NoLostClient'
      <3>1. \A d \in Clients : (\E q \in Requests : loc[q].own /\ loc[q].client = d)
                              => \E q \in Requests : loc'[q].own /\ loc'[q].client = d
        BY <2>6
      <3> QED BY <1>2, <2>1, <3>1 DEF PoolInv, NoLostClient
    <2>8. BrokenOnlyByDisable'
      BY <2>2 DEF PoolInv, BrokenOnlyByDisable
    <2> QED BY <1>1, <2>3, <2>4, <2>5, <2>7, <2>8 DEF PoolInv, OwnKeeps
  <1>5. CASE ~Reusable
    <2>1. PICK c \in Clients :
            /\ Make(c) /\ slot' = c
            /\ loc' = [loc EXCEPT ![r].pc = "using", ![r].client = c]
      BY <1>5 DEF GetPooled
    <2>2. /\ \A q \in Requests : q # r => loc'[q] = loc[q]
          /\ loc'[r].pc = "using" /\ ~loc'[r].own /\ loc'[r].client = c
          /\ loc'[r].broken = loc[r].broken /\ loc'[r].hit = loc[r].hit
      BY <1>2, <2>1, Changes DEF Locals
    <2>3. slot = NULL
      BY <1>3, <1>5
    <2>4. SlotKeeps'
      <3>1. client'[c] = "open" /\ \A a \in Admins : put'[a].closing # c
        BY <1>2, <2>1, Made
      <3>2. ASSUME NEW q \in Requests, loc'[q].own PROVE loc'[q].client # c
        <4>1. q # r
          BY <2>2, <3>2
        <4> QED BY <2>1, <2>2, <4>1, Made
      <3> QED BY <2>1, <3>1, <3>2 DEF SlotKeeps
    <2>5. OwnKeeps'
      BY <1>2, <2>1, <2>2, Made, Changes DEF PoolInv, OwnKeeps, Locals
    <2>6. SharedKeeps'
      BY <2>1, <2>2, <2>3, Changes DEF PoolInv, SharedKeeps
    <2>7. IdleKeeps' /\ BrokenOnlyByDisable'
      BY <1>2, <2>2 DEF PoolInv, IdleKeeps, BrokenOnlyByDisable
    <2>8. NoLostClient'
      BY <1>2, <2>1, <2>2, <2>3, Made, Changes DEF PoolInv, NoLostClient
    <2> QED BY <1>1, <2>4, <2>5, <2>6, <2>7, <2>8 DEF PoolInv
  <1> QED BY <1>4, <1>5

\* The closed client that Send meets is neither its own nor that of the pool.
LEMMA SendKeeps ==
    ASSUME PoolInv, NEW r \in Requests, Send(r)
    PROVE  PoolInv'
  <1>1. TypeOK'
    BY TypeNext DEF PoolInv, Next
  <1>2. /\ UNCHANGED <<slot, client, put>> /\ loc[r].pc = "using"
        /\ client[loc[r].client] = "closed" /\ loc' = [loc EXCEPT ![r].broken = TRUE]
    BY DEF Send
  <1>3. ~loc[r].own
    BY <1>2 DEF PoolInv, OwnKeeps
  <1>4. loc[r].hit
    BY <1>2, <1>3 DEF PoolInv, SharedKeeps, SlotKeeps
  <1>5. /\ \A q \in Requests : q # r => loc'[q] = loc[q]
        /\ loc'[r].pc = loc[r].pc /\ loc'[r].own = loc[r].own
        /\ loc'[r].client = loc[r].client /\ loc'[r].hit = loc[r].hit
    BY <1>2, Changes DEF Locals
  <1>6. SlotKeeps' /\ OwnKeeps' /\ SharedKeeps'
    BY <1>2, <1>5 DEF PoolInv, SlotKeeps, OwnKeeps, SharedKeeps
  <1>7. IdleKeeps' /\ NoLostClient' /\ BrokenOnlyByDisable'
    BY <1>2, <1>4, <1>5 DEF PoolInv, IdleKeeps, NoLostClient, BrokenOnlyByDisable
  <1> QED BY <1>1, <1>6, <1>7 DEF PoolInv

LEMMA LeaveKeeps ==
    ASSUME PoolInv, NEW r \in Requests, Leave(r)
    PROVE  PoolInv'
  <1>1. TypeOK'
    BY TypeNext DEF PoolInv, Next
  <1>2. /\ UNCHANGED <<slot, put>> /\ loc[r].pc = "using"
        /\ client' = IF loc[r].own THEN [client EXCEPT ![loc[r].client] = "closed"] ELSE client
    BY DEF Leave
  <1>3. /\ \A q \in Requests : q # r => loc'[q] = loc[q]
        /\ loc'[r].pc = "idle" /\ loc'[r].own = FALSE /\ loc'[r].client = NULL
        /\ loc'[r].broken = FALSE
    BY Changes, IdleTypes DEF Leave
  <1>4. \A c \in Clients :
          /\ client'[c] = client[c] \/ client'[c] = "closed"
          /\ ~(loc[r].own /\ c = loc[r].client) => client'[c] = client[c]
          /\ loc[r].own /\ c = loc[r].client => client'[c] = "closed"
    BY <1>2, Changes
  <1>5. SlotKeeps'
    BY <1>2, <1>3, <1>4, Changes DEF PoolInv, SlotKeeps
  <1>6. OwnKeeps'
    BY <1>2, <1>3, <1>4, Changes DEF PoolInv, OwnKeeps, Locals
  <1>7. SharedKeeps' /\ IdleKeeps' /\ BrokenOnlyByDisable'
    BY <1>2, <1>3 DEF PoolInv, SharedKeeps, IdleKeeps, BrokenOnlyByDisable
  <1>8. NoLostClient'
    BY <1>2, <1>3, <1>4 DEF PoolInv, NoLostClient
  <1> QED BY <1>1, <1>5, <1>6, <1>7, <1>8 DEF PoolInv

LEMMA PoolNext == PoolInv /\ [Next]_vars => PoolInv'
  <1> SUFFICES ASSUME PoolInv, [Next]_vars PROVE PoolInv'
    OBVIOUS
  <1>1. CASE UNCHANGED vars
    <2>1. TypeOK'
      BY TypeNext DEF PoolInv
    <2> QED BY <1>1, <2>1 DEF vars, PoolInv, SlotKeeps, OwnKeeps, SharedKeeps, IdleKeeps, NoLostClient,
                             BrokenOnlyByDisable
  <1> QED BY <1>1, RestartKeeps, PutKeeps, SetEnabledKeeps, CloseKeeps, AcquireKeeps, GetPooledKeeps,
             SendKeeps, LeaveKeeps DEF Next

LEMMA PoolAlways == Spec => []PoolInv
  BY PoolInit, PoolNext, PTL DEF Spec

\* No connection pool is lost: an open client is the one of the pool, or an
\* administrator or one request is about to close it (set_enabled, _get_pooled,
\* acquire), however many of them there are.
THEOREM NothingLost == Spec => []NoLostClient
  <1>1. PoolInv => NoLostClient
    BY DEF PoolInv
  <1> QED BY <1>1, PoolAlways, PTL

\* A request meets a closed client only when the pool was switched off after
\* the request had got it (_get_pooled against set_enabled).
THEOREM ClosedOnlyByDisable == Spec => []BrokenOnlyByDisable
  <1>1. PoolInv => BrokenOnlyByDisable
    BY DEF PoolInv
  <1> QED BY <1>1, PoolAlways, PTL

-----------------------------------------------------------------------------
(***************************************************************************)
(* The pool follows the settings: unless PUTs overlap, one of them at most *)
(* is in progress, and what it has read is still what the settings want.   *)
(***************************************************************************)
Alone ==
    ~overlap =>
        /\ \A a, b \in Admins : put[a].pc # "idle" /\ put[b].pc # "idle" => a = b
        /\ \A a \in Admins : put[a].pc = "want" => put[a].want = WantPool(file, mem)
        /\ (\A a \in Admins : put[a].pc \in {"idle", "closing"}) => enabled = WantPool(file, mem)

LEMMA WantIsEffective == WantPool(file, mem) = Effective("pool")
  BY DEF WantPool, Effective, Clamp

LEMMA AloneInit == Init => Alone
  BY IdleTypes DEF Init, Alone

LEMMA AloneNext == TypeOK /\ Alone /\ [Next]_vars => Alone'
  <1> SUFFICES ASSUME TypeOK, Alone, [Next]_vars PROVE Alone'
    OBVIOUS
  <1>1. put \in [Admins -> Puts]
    BY DEF TypeOK, Puts
  <1>2. CASE Restart
    <2>1. PICK cfg \in Files : Start(cfg)
      BY <1>2 DEF Restart
    <2>2. \A a \in Admins : put'[a].pc = "idle"
      BY <2>1, IdleTypes DEF Start
    <2>3. enabled' = WantPool(file', mem')
      BY <2>1 DEF Start, WantPool
    <2> QED BY <2>2, <2>3 DEF Alone, WantPool
  <1>3. ASSUME NEW a \in Admins, Patch(a) PROVE Alone'
    <2>1. /\ put'[a].pc = "patched" /\ \A b \in Admins : b # a => put'[b] = put[b]
          /\ ~overlap' => \A b \in Admins : put[b].pc = "idle"
      BY <1>1, <1>3 DEF Patch, Puts
    <2> QED BY <2>1 DEF Alone
  <1>4. ASSUME NEW a \in Admins, ReadWant(a) PROVE Alone'
    <2>1. /\ put[a].pc = "patched" /\ put'[a].pc = "want" /\ put'[a].want = WantPool(file, mem)
          /\ \A b \in Admins : b # a => put'[b] = put[b]
          /\ UNCHANGED <<file, mem, enabled, overlap>>
      BY <1>1, <1>4 DEF ReadWant, Puts, settings
    <2> QED BY <2>1 DEF Alone, WantPool
  <1>5. ASSUME NEW a \in Admins, SetEnabled(a) PROVE Alone'
    <2>1. /\ put[a].pc = "want" /\ enabled' = put[a].want
          /\ put'[a].pc \in {"idle", "closing"}
          /\ \A b \in Admins : b # a => put'[b] = put[b]
          /\ UNCHANGED <<file, mem, overlap>>
      BY <1>1, <1>5, IdleTypes DEF SetEnabled, Puts, settings
    <2> QED BY <2>1 DEF Alone, WantPool
  <1>6. ASSUME NEW a \in Admins, CloseClient(a) PROVE Alone'
    <2>1. /\ put[a].pc = "closing" /\ put'[a].pc = "idle"
          /\ \A b \in Admins : b # a => put'[b] = put[b]
          /\ UNCHANGED <<file, mem, enabled, overlap>>
      BY <1>1, <1>6, IdleTypes DEF CloseClient, settings
    <2> QED BY <2>1 DEF Alone, WantPool
  <1>7. ASSUME NEW r \in Requests, Acquire(r) \/ GetPooled(r) \/ Send(r) \/ Leave(r) PROVE Alone'
    <2>1. UNCHANGED <<file, mem, enabled, put, overlap>>
      BY <1>7 DEF Acquire, GetPooled, Send, Leave, settings
    <2> QED BY <2>1 DEF Alone, WantPool
  <1>8. CASE UNCHANGED vars
    BY <1>8 DEF vars, Alone, WantPool
  <1> QED BY <1>2, <1>3, <1>4, <1>5, <1>6, <1>7, <1>8 DEF Next

\* When the PUTs do not overlap and none is in progress, the pool is in the
\* state the settings ask for (put_runtime_scheduling).
THEOREM PoolFollows == Spec => []PoolFollowsSettings
  <1>1. Alone => PoolFollowsSettings
    BY WantIsEffective DEF Alone, PoolFollowsSettings
  <1> QED BY <1>1, TypeCorrect, AloneInit, AloneNext, PTL DEF Spec

-----------------------------------------------------------------------------
(***************************************************************************)
(* Settings survive a restart: the effective values of the process that    *)
(* would start now with the same configuration file are those of this one, *)
(* except the two that Drifts names.                                       *)
(***************************************************************************)
EffectiveOf(cfg, m, f) ==
    LET v == IF m[f] = NULL THEN cfg[f] ELSE m[f] IN
    IF f = "half" THEN v ELSE Clamp(f, v)

Recoverable ==
    saved => \A f \in Fields :
        \/ EffectiveOf(file, Loaded(Mirror(file), disk), f) = EffectiveOf(file, mem, f)
        \/ Drifts(f)

\* A file just written is read back as it was.
LEMMA ReadBack ==
    ASSUME NEW cfg \in Files, NEW m \in Memory, NEW f \in Fields,
           f = "eps" /\ m.eps = NULL => cfg.eps # 0,
           f = "half" => m.half >= 1
    PROVE  EffectiveOf(cfg, Loaded(Mirror(cfg), m), f) = EffectiveOf(cfg, m, f)
  <1>1. /\ m.half \in Int /\ m.eps \in Int \cup {NULL} /\ m.pool \in BOOLEAN \cup {NULL}
        /\ cfg.half \in Int /\ cfg.eps \in Int /\ cfg.pool \in BOOLEAN /\ m # NULL
    BY FileType, RuntimeAssumption DEF Memory
  <1>2. Loaded(Mirror(cfg), m) = [g \in Fields |-> IF m[g] = NULL THEN Mirror(cfg)[g] ELSE Clamp(g, m[g])]
    BY <1>1 DEF Loaded
  <1>3. /\ Mirror(cfg).half = cfg.half /\ Mirror(cfg).pool = NULL
        /\ cfg.eps # 0 => Mirror(cfg).eps = cfg.eps
    BY <1>1 DEF Mirror
  <1>4. CASE f = "half"
    <2>1. m.half # NULL /\ m.half >= 1 /\ Clamp("half", m.half) = m.half
      BY <1>1, <1>4, RuntimeAssumption DEF Clamp, Larger
    <2>2. Loaded(Mirror(cfg), m).half = m.half
      BY <1>2, <2>1 DEF Fields
    <2> QED BY <1>4, <2>1, <2>2 DEF EffectiveOf
  <1>5. CASE f = "eps"
    <2>1. CASE m.eps = NULL
      <3>1. Loaded(Mirror(cfg), m).eps = cfg.eps /\ cfg.eps # NULL
        BY <1>1, <1>2, <1>3, <1>5, <2>1, RuntimeAssumption DEF Fields
      <3> QED BY <1>5, <2>1, <3>1 DEF EffectiveOf
    <2>2. CASE m.eps # NULL
      <3>1. Loaded(Mirror(cfg), m).eps = Clamp("eps", m.eps)
        BY <1>2, <2>2 DEF Fields
      <3>2. Clamp("eps", m.eps) \in 0..10 /\ Clamp("eps", Clamp("eps", m.eps)) = Clamp("eps", m.eps)
        BY <1>1, <2>2 DEF Clamp, Larger, Smaller
      <3>3. Clamp("eps", m.eps) # NULL
        BY <3>2, RuntimeAssumption
      <3> QED BY <1>5, <2>2, <3>1, <3>2, <3>3 DEF EffectiveOf
    <2> QED BY <2>1, <2>2
  <1>6. CASE f = "pool"
    <2>1. Loaded(Mirror(cfg), m).pool = m.pool
      BY <1>2, <1>3 DEF Fields, Clamp
    <2> QED BY <1>6, <2>1 DEF EffectiveOf
  <1> QED BY <1>4, <1>5, <1>6 DEF Fields

LEMMA RecoverableInit == Init => Recoverable
  BY DEF Init, Recoverable, Loaded

LEMMA RecoverableNext == TypeOK /\ Recoverable /\ [Next]_vars => Recoverable'
  <1> SUFFICES ASSUME TypeOK, Recoverable, [Next]_vars PROVE Recoverable'
    OBVIOUS
  <1>1. CASE Restart
    <2>1. mem' = Loaded(Mirror(file'), disk')
      BY <1>1 DEF Restart, Start
    <2> QED BY <2>1 DEF Recoverable
  <1>2. ASSUME NEW a \in Admins, Patch(a) PROVE Recoverable'
    <2>1. mem' \in Memory /\ file' \in Files
      BY <1>2, TypeNext DEF TypeOK, Next
    <2>2. saved' => disk' = mem' /\ disk' # NULL
      BY <1>2, <2>1, RuntimeAssumption DEF Patch, Overrides
    <2> SUFFICES ASSUME saved', NEW f \in Fields, ~Drifts(f)'
                 PROVE  (EffectiveOf(file, Loaded(Mirror(file), disk), f) = EffectiveOf(file, mem, f))'
      BY DEF Recoverable
    <2>3. f = "eps" /\ mem'.eps = NULL => file'.eps # 0
      BY DEF Drifts
    <2>4. f = "half" => mem'.half >= 1
      BY <2>1, <2>2 DEF Drifts, Memory
    <2> QED BY <2>1, <2>2, <2>3, <2>4, ReadBack
  <1>3. CASE UNCHANGED settings
    BY <1>3 DEF settings, Recoverable, EffectiveOf, Loaded, Drifts
  <1>4. ASSUME NEW a \in Admins, ReadWant(a) \/ SetEnabled(a) \/ CloseClient(a)
        PROVE  UNCHANGED settings
    BY <1>4 DEF ReadWant, SetEnabled, CloseClient
  <1>5. ASSUME NEW r \in Requests, Acquire(r) \/ GetPooled(r) \/ Send(r) \/ Leave(r)
        PROVE  UNCHANGED settings
    BY <1>5 DEF Acquire, GetPooled, Send, Leave
  <1>6. CASE UNCHANGED vars
    BY <1>3, <1>6 DEF vars, settings
  <1> QED BY <1>1, <1>2, <1>3, <1>4, <1>5, <1>6 DEF Next

\* A restart with the same configuration file changes no effective setting if
\* the last write of runtime_settings.json succeeded, apart from a cleared rate
\* under a file that says 0 and a saved half-life below 1 of the file
\* (_save_to_disk_unlocked, _load_from_disk, __init__).
THEOREM SettingsSurvive == Spec => SettingsSurviveRestart
  <1>1. TypeOK /\ Recoverable /\ [Next]_vars =>
          [starts' # starts /\ file' = file /\ saved
             => \A f \in Fields : Effective(f)' = Effective(f) \/ Drifts(f)]_vars
    <2> SUFFICES ASSUME Recoverable, Next, starts' # starts, file' = file, saved, NEW f \in Fields
                 PROVE  Effective(f)' = Effective(f) \/ Drifts(f)
      OBVIOUS
    <2>1. Restart
      BY DEF Next, Patch, ReadWant, SetEnabled, CloseClient, Acquire, GetPooled, Send, Leave
    <2>2. mem' = Loaded(Mirror(file), disk)
      BY <2>1 DEF Restart, Start
    <2> QED BY <2>2 DEF Recoverable, EffectiveOf, Effective
  <1>2. TypeOK /\ Recoverable /\ [Next]_vars => Recoverable'
    BY RecoverableNext
  <1> QED BY <1>1, <1>2, TypeCorrect, RecoverableInit, PTL DEF Spec, SettingsSurviveRestart

=============================================================================
