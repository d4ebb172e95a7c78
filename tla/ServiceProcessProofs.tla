------------------------ MODULE ServiceProcessProofs ------------------------
(***************************************************************************)
(* For any number of connections and conversations, any assignment of the   *)
(* one to the other and any limit: the registry is exact until a shutdown   *)
(* begins, the sweep of close_all misses no session that was there when it  *)
(* started, and a graceful stop releases resources only when they are idle. *)
(***************************************************************************)
EXTENDS ServiceProcess, FiniteSetTheorems, TLAPS

ProcessTypeOK ==
    /\ main \in MainStates /\ abrupt \in BOOLEAN
    /\ server \in {"up", "exiting", "down"} /\ draining \in BOOLEAN
    /\ conn \in [Conns -> ConnStates]
    /\ registry \in [Conversations -> SUBSET Conns] /\ count \in Int
    /\ told \subseteq Conns /\ existing \subseteq Conns
    /\ list \in [Conversations -> SUBSET Conns] /\ shared \subseteq Conversations
    /\ current \in Conversations \cup {NoCid} /\ sockets \subseteq Conns

Starting == main \in {"checking", "serving"}

\* A socket is filed under its own conversation, in the registry and in the
\* snapshot close_all took of it.
FiledByConversation ==
    \A v \in Conversations : \A c \in registry[v] \cup list[v] : CidOf[c] = v

\* Until a shutdown begins exactly the running sessions are filed.
FiledWhileInSession ==
    Starting => \A c \in Conns : c \in registry[CidOf[c]] <=> InSession(c)

\* ... they are finitely many, and counted.
CountIsExact ==
    Starting => IsFiniteSet(Registered) /\ count = Cardinality(Registered)

\* The sessions close_all found are past their registration: none registers again.
ExistingRegistered ==
    /\ Starting => existing = {}
    /\ \A c \in existing : conn[c] \notin {"new", "claiming", "granted"}

\* Of those that still run, each is told, is a socket of the conversation being
\* visited or is on a list that is still to be visited.
SweepMissesNone ==
    main = "closing" =>
        \A c \in existing : InSession(c) => c \in told \cup sockets \cup list[CidOf[c]]

\* A server that is down has no connection task left, unless the stop was abrupt,
\* and a stop that was not waited for the server.
DownIsIdle ==
    /\ server = "down" /\ ~abrupt => \A c \in Conns : conn[c] \in {"new", "gone"}
    /\ main = "releasing" /\ ~abrupt => server = "down"

ProcessInv ==
    /\ ProcessTypeOK /\ FiledByConversation /\ FiledWhileInSession /\ CountIsExact
    /\ ExistingRegistered /\ SweepMissesNone /\ ExistingAreTold /\ DownIsIdle

-----------------------------------------------------------------------------
\* A connection's registration is looked up under its own conversation.
LEMMA RegisteredIsFiled ==
    ASSUME ProcessTypeOK, FiledByConversation
    PROVE  Registered = {c \in Conns : c \in registry[CidOf[c]]}
BY ConnAssumption DEF ProcessTypeOK, FiledByConversation, Registered

\* add files one socket more ...
LEMMA AddFilesOne ==
    ASSUME NEW c \in Conns, ProcessTypeOK, Add(c)
    PROVE  Registered' = Registered \cup {c}
<1>1. CidOf[c] \in Conversations
  BY ConnAssumption
<1>2. \A v \in Conversations : registry'[v] = registry[v] \cup (IF v = CidOf[c] THEN {c} ELSE {})
  BY <1>1 DEF Add, ProcessTypeOK
<1> QED
  BY <1>1, <1>2 DEF Registered

\* ... and remove one less.
LEMMA RemoveDropsOne ==
    ASSUME NEW c \in Conns, ProcessTypeOK, FiledByConversation, Remove(c)
    PROVE  Registered' = Registered \ {c}
<1>1. CidOf[c] \in Conversations
  BY ConnAssumption
<1>2. \A v \in Conversations : registry'[v] = registry[v] \ {c}
  BY <1>1 DEF Remove, ProcessTypeOK, FiledByConversation
<1> QED
  BY <1>1, <1>2 DEF Registered

\* At startup nobody is connected and nothing is filed.
LEMMA ProcessInit == Init => ProcessInv
<1> SUFFICES ASSUME Init PROVE ProcessInv
  OBVIOUS
<1>1. Registered = {}
  BY DEF Init, Registered, Empty
<1>2. CountIsExact
  BY <1>1, FS_EmptySet DEF Init, CountIsExact
<1>3. ProcessTypeOK
  <2>1. Empty \in [Conversations -> SUBSET Conns]
    BY DEF Empty
  <2>2. [c \in Conns |-> "new"] \in [Conns -> ConnStates]
    BY DEF ConnStates
  <2>3. conn \in [Conns -> ConnStates] /\ registry \in [Conversations -> SUBSET Conns]
        /\ list \in [Conversations -> SUBSET Conns]
    BY <2>1, <2>2 DEF Init
  <2>4. abrupt \in BOOLEAN /\ draining \in BOOLEAN
    BY DEF Init
  <2>5. main \in MainStates /\ server \in {"up", "exiting", "down"} /\ count \in Int
    BY DEF Init, MainStates
  <2>6. /\ told \subseteq Conns /\ existing \subseteq Conns /\ sockets \subseteq Conns
        /\ shared \subseteq Conversations /\ current \in Conversations \cup {NoCid}
    BY DEF Init
  <2> QED
    BY <2>3, <2>4, <2>5, <2>6 DEF ProcessTypeOK
<1>4. FiledByConversation
  BY DEF Init, FiledByConversation, Empty
<1>5. FiledWhileInSession
  BY ConnAssumption DEF Init, FiledWhileInSession, InSession, Empty
<1> QED
  BY <1>2, <1>3, <1>4, <1>5 DEF Init, ProcessInv, ExistingRegistered, SweepMissesNone,
     ExistingAreTold, DownIsIdle, Starting

\* A step of a connection that neither adds nor removes a registration, and
\* neither starts nor ends a session, keeps the invariant.
LEMMA QuietMove ==
    ASSUME NEW c \in Conns, NEW from \in ConnStates, NEW to \in ConnStates,
           ProcessInv, Move(c, from, to), UNCHANGED <<registryVars, sweepVars>>,
           from \in {"open", "handling"} <=> to \in {"open", "handling"},
           to \in {"new", "claiming", "granted"} => from \in {"new", "claiming", "granted"},
           from = "gone" => to = "gone",
           from = "new" /\ server = "down" => to \in {"new", "gone"}
    PROVE  ProcessInv'
<1> USE DEF ProcessInv, Move, mainVars, registryVars, sweepVars
<1>1. /\ conn[c] = from /\ conn'[c] = to
      /\ \A d \in Conns : d # c => conn'[d] = conn[d]
      /\ conn' \in [Conns -> ConnStates]
  BY DEF ProcessTypeOK
<1>2. \A d \in Conns : InSession(d)' <=> InSession(d)
  BY <1>1 DEF InSession
<1>3. ProcessTypeOK'
  BY <1>1 DEF ProcessTypeOK
<1>4. FiledByConversation' /\ FiledWhileInSession'
  BY <1>2 DEF FiledByConversation, FiledWhileInSession, Starting
<1>5. CountIsExact'
  BY DEF CountIsExact, Registered, Starting
<1>6. ExistingRegistered'
  BY <1>1 DEF ExistingRegistered, Starting, ProcessTypeOK
<1>7. SweepMissesNone' /\ ExistingAreTold'
  BY <1>2 DEF SweepMissesNone, ExistingAreTold, ProcessTypeOK
<1>8. DownIsIdle'
  BY <1>1 DEF DownIsIdle
<1> QED
  BY <1>3, <1>4, <1>5, <1>6, <1>7, <1>8

\* The endpoint registers a session that was not registered.
LEMMA RegisterStep ==
    ASSUME NEW c \in Conns, ProcessInv, Register(c)
    PROVE  ProcessInv'
<1> USE DEF ProcessInv, Register, Move, mainVars
<1>0. CidOf[c] \in Conversations
  BY ConnAssumption
<1>1. /\ conn[c] = "granted" /\ conn'[c] = "open"
      /\ \A d \in Conns : d # c => conn'[d] = conn[d]
      /\ conn' \in [Conns -> ConnStates]
  BY DEF ProcessTypeOK, ConnStates
<1>2. /\ registry' \in [Conversations -> SUBSET Conns]
      /\ \A v \in Conversations : registry'[v] = registry[v] \cup (IF v = CidOf[c] THEN {c} ELSE {})
  BY <1>0 DEF Add, ProcessTypeOK
<1>3. /\ list' \in [Conversations -> SUBSET Conns]
      /\ \A v \in Conversations :
             list[v] \subseteq list'[v] /\ list'[v] \subseteq list[v] \cup registry'[v]
  <2>1. CASE CidOf[c] \in shared
    BY <2>1, <1>0, <1>2 DEF Add, ProcessTypeOK
  <2>2. CASE CidOf[c] \notin shared
    BY <2>2 DEF Add, ProcessTypeOK
  <2> QED
    BY <2>1, <2>2
<1>4. ProcessTypeOK'
  BY <1>1, <1>2, <1>3 DEF Add, ProcessTypeOK
<1>5. FiledByConversation'
  BY <1>2, <1>3 DEF FiledByConversation
<1>6. FiledWhileInSession'
  <2> SUFFICES ASSUME Starting', NEW d \in Conns
               PROVE  (d \in registry[CidOf[d]])' <=> InSession(d)'
    BY DEF FiledWhileInSession
  <2>1. CidOf[d] \in Conversations
    BY ConnAssumption
  <2>2. d \in registry[CidOf[d]] <=> InSession(d)
    BY DEF FiledWhileInSession, Starting
  <2> QED
    BY <1>1, <1>2, <2>1, <2>2 DEF InSession
<1>7. CountIsExact'
  <2> SUFFICES ASSUME Starting' PROVE (IsFiniteSet(Registered) /\ count = Cardinality(Registered))'
    BY DEF CountIsExact
  <2>1. Starting
    BY DEF Starting
  <2>2. c \notin Registered
    BY <1>1, <2>1, RegisteredIsFiled DEF FiledWhileInSession, InSession
  <2>3. Registered' = Registered \cup {c}
    BY AddFilesOne
  <2>4. IsFiniteSet(Registered) /\ count = Cardinality(Registered)
    BY <2>1 DEF CountIsExact
  <2> QED
    BY <2>2, <2>3, <2>4, FS_AddElement DEF Add
<1>8. ExistingRegistered'
  BY <1>1 DEF ExistingRegistered, Starting, ProcessTypeOK, Add
<1>9. c \notin existing
  BY <1>1 DEF ExistingRegistered
<1>10. SweepMissesNone' /\ ExistingAreTold'
  BY <1>1, <1>3, <1>9, ConnAssumption DEF SweepMissesNone, ExistingAreTold, ProcessTypeOK, Add, InSession
<1>11. DownIsIdle'
  BY <1>1 DEF DownIsIdle
<1> QED
  BY <1>4, <1>5, <1>6, <1>7, <1>8, <1>10, <1>11

\* A session that ends takes its own registration along, and no other.
LEMMA LeaveStep ==
    ASSUME NEW c \in Conns, ProcessInv, Leave(c)
    PROVE  ProcessInv'
<1> USE DEF ProcessInv, Leave, Move, mainVars
<1>0. CidOf[c] \in Conversations
  BY ConnAssumption
<1>1. /\ InSession(c) /\ conn'[c] = "leaving"
      /\ \A d \in Conns : d # c => conn'[d] = conn[d]
      /\ conn' \in [Conns -> ConnStates]
  BY DEF ProcessTypeOK, ConnStates, InSession
<1>2. /\ registry' \in [Conversations -> SUBSET Conns]
      /\ \A v \in Conversations : registry'[v] = IF v = CidOf[c] THEN registry[v] \ {c} ELSE registry[v]
  BY <1>0 DEF Remove, ProcessTypeOK
<1>3. \A d \in Conns : InSession(d)' <=> InSession(d) /\ d # c
  BY <1>1 DEF InSession
<1>4. ProcessTypeOK'
  BY <1>1, <1>2 DEF Remove, ProcessTypeOK
<1>5. FiledByConversation'
  BY <1>2 DEF FiledByConversation, Remove
<1>6. FiledWhileInSession'
  <2> SUFFICES ASSUME Starting', NEW d \in Conns
               PROVE  (d \in registry[CidOf[d]])' <=> InSession(d)'
    BY DEF FiledWhileInSession
  <2>1. CidOf[d] \in Conversations
    BY ConnAssumption
  <2>2. d \in registry[CidOf[d]] <=> InSession(d)
    BY DEF FiledWhileInSession, Starting
  <2> QED
    BY <1>2, <1>3, <2>1, <2>2
<1>7. CountIsExact'
  <2> SUFFICES ASSUME Starting' PROVE (IsFiniteSet(Registered) /\ count = Cardinality(Registered))'
    BY DEF CountIsExact
  <2>1. Starting
    BY DEF Starting
  <2>2. c \in registry[CidOf[c]]
    BY <1>1, <2>1 DEF FiledWhileInSession
  <2>3. c \in Registered /\ Registered' = Registered \ {c}
    BY <2>2, RegisteredIsFiled, RemoveDropsOne
  <2>4. IsFiniteSet(Registered) /\ count = Cardinality(Registered)
    BY <2>1 DEF CountIsExact
  <2>5. count' = count - 1
    BY <2>2 DEF Remove
  <2> QED
    BY <2>3, <2>4, <2>5, FS_RemoveElement
<1>8. ExistingRegistered'
  BY <1>1 DEF ExistingRegistered, Starting, ProcessTypeOK, Remove
<1>9. SweepMissesNone' /\ ExistingAreTold'
  BY <1>3 DEF SweepMissesNone, ExistingAreTold, ProcessTypeOK, Remove
<1>10. DownIsIdle'
  BY <1>1 DEF DownIsIdle, InSession
<1> QED
  BY <1>4, <1>5, <1>6, <1>7, <1>8, <1>9, <1>10

\* Every step of a connection keeps the invariant.
LEMMA ConnectionStep ==
    ASSUME NEW c \in Conns, ProcessInv, Connection(c)
    PROVE  ProcessInv'
<1> USE DEF ConnStates
<1>1. CASE Admit(c)
  <2> DEFINE to == IF draining \/ AtLimit THEN "gone" ELSE "claiming"
  <2>1. server # "down" /\ Move(c, "new", to) /\ UNCHANGED <<registryVars, sweepVars>>
    BY <1>1 DEF Admit
  <2> QED
    BY <2>1, QuietMove
<1>2. CASE ClaimReturns(c)
  <2>1. PICK to \in {"granted", "gone"} : Move(c, "claiming", to)
    BY <1>2 DEF ClaimReturns
  <2> QED
    BY <1>2, <2>1, QuietMove DEF ClaimReturns
<1>3. CASE Register(c)
  BY <1>3, RegisterStep
<1>4. CASE AcceptFails(c)
  <2>1. PICK to \in {"leaving", "gone"} : Move(c, "granted", to)
    BY <1>4 DEF AcceptFails
  <2> QED
    BY <1>4, <2>1, QuietMove DEF AcceptFails
<1>5. CASE Receive(c)
  BY <1>5, QuietMove DEF Receive
<1>6. CASE Respond(c)
  BY <1>6, QuietMove DEF Respond
<1>7. CASE Leave(c)
  BY <1>7, LeaveStep
<1>8. CASE Left(c)
  BY <1>8, QuietMove DEF Left
<1> QED
  BY <1>1, <1>2, <1>3, <1>4, <1>5, <1>6, <1>7, <1>8 DEF Connection

-----------------------------------------------------------------------------
\* A step of run() that touches neither connections nor registry nor sweep keeps
\* the invariant if it does not go back, and leaves a server that is down idle.
LEMMA QuietMain ==
    ASSUME ProcessInv, UNCHANGED <<conn, registryVars, sweepVars>>,
           main' \in MainStates, abrupt' \in BOOLEAN, draining' \in BOOLEAN,
           server' \in {"up", "exiting", "down"},
           Starting' => Starting,
           main' = "closing" => main = "closing",
           main' \in {"flushing", "waiting"} => main \in {"flushing", "waiting"},
           DownIsIdle'
    PROVE  ProcessInv'
<1> USE DEF ProcessInv, registryVars, sweepVars
<1>1. ProcessTypeOK' /\ FiledByConversation'
  BY DEF ProcessTypeOK, FiledByConversation
<1>2. \A c : InSession(c)' <=> InSession(c)
  BY DEF InSession
<1>3. FiledWhileInSession'
  BY <1>2 DEF FiledWhileInSession
<1>4. CountIsExact'
  BY DEF CountIsExact, Registered
<1>5. ExistingRegistered'
  BY DEF ExistingRegistered
<1>6. SweepMissesNone' /\ ExistingAreTold'
  BY <1>2 DEF SweepMissesNone, ExistingAreTold
<1> QED
  BY <1>1, <1>3, <1>4, <1>5, <1>6

\* close_all starts: its snapshot holds every session that runs.
LEMMA StartClosingStep ==
    ASSUME ProcessInv, StartClosing
    PROVE  ProcessInv'
<1> USE DEF ProcessInv
<1>1. /\ main = "serving" /\ main' \in {"closing", "flushing"}
      /\ UNCHANGED <<abrupt, server, draining, conn, registry, told, current, sockets>>
      /\ existing' = Registered
  BY DEF StartClosing
<1>2. Registered = {c \in Conns : InSession(c)}
  BY <1>1, RegisteredIsFiled DEF FiledWhileInSession, Starting
<1>3. list' \in [Conversations -> SUBSET Conns] /\ shared' \subseteq Conversations /\ count' \in Int
  BY DEF StartClosing, ProcessTypeOK
<1>4. ProcessTypeOK'
  BY <1>1, <1>2, <1>3 DEF ProcessTypeOK, MainStates
<1>5. FiledByConversation'
  BY <1>1 DEF StartClosing, FiledByConversation, ProcessTypeOK
<1>6. FiledWhileInSession' /\ CountIsExact'
  BY <1>1 DEF FiledWhileInSession, CountIsExact, Starting
<1>7. ExistingRegistered'
  BY <1>1, <1>2 DEF ExistingRegistered, Starting, InSession
<1>8. SweepMissesNone'
  <2> SUFFICES ASSUME main' = "closing", NEW c \in existing' PROVE c \in (list[CidOf[c]])'
    BY DEF SweepMissesNone
  <2>1. list' = registry
    BY DEF StartClosing
  <2> QED
    BY <1>1, <1>2, <2>1 DEF FiledWhileInSession, Starting
<1>9. ExistingAreTold'
  BY <1>1 DEF ExistingAreTold, StartClosing
<1>10. DownIsIdle'
  BY <1>1 DEF DownIsIdle
<1> QED
  BY <1>4, <1>5, <1>6, <1>7, <1>8, <1>9, <1>10

\* pop empties one conversation of the registry and leaves the others alone.
LEMMA PoppedIsSmaller ==
    ASSUME ProcessTypeOK
    PROVE  /\ Popped \in [Conversations -> SUBSET Conns]
           /\ \A v \in Conversations : Popped[v] \subseteq registry[v]
BY DEF ProcessTypeOK, Popped

\* close_all visits a socket: it is told, or its session has ended, and the rest
\* of its conversation's list waits among the sockets.
LEMMA CloseNextStep ==
    ASSUME NEW c \in Conns, ProcessInv, CloseNext(c)
    PROVE  ProcessInv'
<1> USE DEF ProcessInv
<1>0. CidOf[c] \in Conversations
  BY ConnAssumption
<1>1. main = "closing" /\ UNCHANGED <<mainVars, conn, count, existing>>
  BY DEF CloseNext
<1>2. /\ told \subseteq told' /\ told' \subseteq Conns
      /\ InSession(c) => c \in told'
  BY DEF CloseNext, InSession, ProcessTypeOK
<1>3. /\ registry' \in [Conversations -> SUBSET Conns]
      /\ \A v \in Conversations : registry'[v] \subseteq registry[v]
  BY PoppedIsSmaller DEF CloseNext, ProcessTypeOK
<1>4. /\ list' \in [Conversations -> SUBSET Conns]
      /\ \A v \in Conversations : list'[v] \subseteq list[v]
  BY <1>0 DEF CloseNext, ProcessTypeOK
<1>5. /\ sockets' \subseteq Conns /\ shared' \subseteq Conversations
      /\ current' \in Conversations \cup {NoCid}
  BY <1>0 DEF CloseNext, ProcessTypeOK
<1>6. ProcessTypeOK'
  BY <1>1, <1>2, <1>3, <1>4, <1>5 DEF ProcessTypeOK, mainVars
<1>7. FiledByConversation'
  BY <1>3, <1>4 DEF FiledByConversation
<1>8. FiledWhileInSession' /\ CountIsExact' /\ ExistingAreTold'
  BY <1>1 DEF FiledWhileInSession, CountIsExact, ExistingAreTold, Starting, mainVars
<1>9. ExistingRegistered' /\ DownIsIdle'
  BY <1>1 DEF ExistingRegistered, DownIsIdle, Starting, mainVars
<1>10. SweepMissesNone'
  <2> SUFFICES ASSUME NEW d \in existing, InSession(d)
               PROVE  d \in told' \cup sockets' \cup list'[CidOf[d]]
    BY <1>1 DEF SweepMissesNone, InSession
  <2>1. d \in Conns /\ CidOf[d] \in Conversations
    BY ConnAssumption DEF ProcessTypeOK
  <2>2. d \in told \cup sockets \cup list[CidOf[d]]
    BY <1>1 DEF SweepMissesNone
  <2>3. CASE d = c
    BY <2>3, <1>2
  <2>4. CASE d # c /\ c \in sockets /\ sockets' = sockets \ {c} /\ UNCHANGED list
    BY <2>2, <2>4, <1>2
  <2>5. CASE /\ d # c /\ sockets = {} /\ sockets' = list[CidOf[c]] \ {c}
             /\ list' = [list EXCEPT ![CidOf[c]] = {}]
    BY <2>1, <2>2, <2>5, <1>0, <1>2 DEF ProcessTypeOK
  <2> QED
    BY <2>3, <2>4, <2>5 DEF CloseNext
<1> QED
  BY <1>6, <1>7, <1>8, <1>9, <1>10

\* close_all ends with nothing left to visit: whoever still runs was told.
LEMMA EndClosingStep ==
    ASSUME ProcessInv, EndClosing
    PROVE  ProcessInv'
<1> USE DEF ProcessInv, EndClosing
<1>1. /\ registry' \in [Conversations -> SUBSET Conns]
      /\ \A v \in Conversations : registry'[v] \subseteq registry[v]
  BY PoppedIsSmaller
<1>2. ProcessTypeOK'
  BY <1>1 DEF ProcessTypeOK, MainStates
<1>3. FiledByConversation'
  BY <1>1 DEF FiledByConversation
<1>4. ExistingAreTold'
  <2>1. \A c \in existing : list[CidOf[c]] = {}
    BY ConnAssumption DEF ProcessTypeOK, Empty
  <2> QED
    BY <2>1 DEF ExistingAreTold, SweepMissesNone, InSession
<1>5. FiledWhileInSession' /\ CountIsExact' /\ SweepMissesNone'
  BY DEF FiledWhileInSession, CountIsExact, SweepMissesNone, Starting
<1>6. ExistingRegistered' /\ DownIsIdle'
  BY DEF ExistingRegistered, DownIsIdle, Starting
<1> QED
  BY <1>2, <1>3, <1>4, <1>5, <1>6

\* The process ends: every connection is gone or was never made.
LEMMA ExitStep ==
    ASSUME ProcessInv, Exit
    PROVE  ProcessInv'
<1> USE DEF ProcessInv, Exit, sweepVars
<1>1. /\ conn' \in [Conns -> ConnStates]
      /\ \A c \in Conns : conn'[c] \in {"new", "gone"} /\ (conn'[c] = "new" => conn[c] = "new")
  BY DEF ConnStates
<1>2. Empty \in [Conversations -> SUBSET Conns]
  BY DEF Empty
<1>3. ProcessTypeOK'
  BY <1>1, <1>2 DEF ProcessTypeOK, MainStates
<1>4. FiledByConversation'
  BY DEF FiledByConversation, Empty
<1>5. FiledWhileInSession' /\ CountIsExact' /\ SweepMissesNone' /\ ExistingAreTold'
  BY DEF FiledWhileInSession, CountIsExact, SweepMissesNone, ExistingAreTold, Starting
<1>6. ExistingRegistered' /\ DownIsIdle'
  BY <1>1 DEF ExistingRegistered, DownIsIdle, Starting, ProcessTypeOK
<1> QED
  BY <1>3, <1>4, <1>5, <1>6

\* Every step of run() keeps the invariant.
LEMMA MainStep ==
    ASSUME ProcessInv, Main
    PROVE  ProcessInv'
<1>0. ProcessTypeOK /\ DownIsIdle
  BY DEF ProcessInv
<1>1. CASE StartupChecks
  <2>1. DownIsIdle'
    BY <1>0, <1>1 DEF StartupChecks, DownIsIdle
  <2>2. abrupt' \in BOOLEAN /\ draining' \in BOOLEAN
    BY <1>0, <1>1 DEF StartupChecks, ProcessTypeOK
  <2> QED
    BY <1>0, <1>1, <2>1, <2>2, QuietMain DEF StartupChecks, ProcessTypeOK, MainStates, Starting
<1>2. CASE Signal
  <2>1. server' = "down" <=> server = "down"
    BY <1>2 DEF Signal
  <2>2. DownIsIdle'
    BY <1>0, <1>2, <2>1 DEF Signal, DownIsIdle
  <2> QED
    BY <1>0, <1>2, <2>2, QuietMain DEF Signal, ProcessTypeOK, Starting
<1>3. CASE ServerFails
  BY <1>0, <1>3, QuietMain DEF ServerFails, ProcessTypeOK, DownIsIdle, MainStates, Starting
<1>4. CASE ServerReturns
  <2>1. DownIsIdle'
    BY <1>0, <1>4 DEF ServerReturns, DownIsIdle
  <2> QED
    BY <1>0, <1>4, <2>1, QuietMain DEF ServerReturns, ProcessTypeOK, Starting
<1>5. CASE StartClosing
  BY <1>5, StartClosingStep
<1>6. ASSUME NEW c \in Conns, CloseNext(c) PROVE ProcessInv'
  BY <1>6, CloseNextStep
<1>7. CASE EndClosing
  BY <1>7, EndClosingStep
<1>8. CASE Flush
  <2>1. DownIsIdle'
    BY <1>0, <1>8 DEF Flush, DownIsIdle
  <2>2. abrupt' \in BOOLEAN /\ draining' \in BOOLEAN
    BY <1>0, <1>8 DEF Flush, ProcessTypeOK
  <2> QED
    BY <1>0, <1>8, <2>1, <2>2, QuietMain DEF Flush, ProcessTypeOK, MainStates, Starting
<1>9. CASE Stopped
  <2>1. DownIsIdle'
    BY <1>0, <1>9 DEF Stopped, DownIsIdle
  <2> QED
    BY <1>0, <1>9, <2>1, QuietMain DEF Stopped, ProcessTypeOK, MainStates, Starting
<1>10. CASE StopTimesOut
  BY <1>0, <1>10, QuietMain DEF StopTimesOut, ProcessTypeOK, DownIsIdle, MainStates, Starting
<1>11. CASE Exit
  BY <1>11, ExitStep
<1>12. CASE ForceExit
  <2>1. DownIsIdle'
    BY <1>0, <1>12 DEF ForceExit, DownIsIdle
  <2>2. abrupt' \in BOOLEAN /\ draining' \in BOOLEAN
    BY <1>0, <1>12 DEF ForceExit, ProcessTypeOK
  <2> QED
    BY <1>0, <1>12, <2>1, <2>2, QuietMain DEF ForceExit, ProcessTypeOK, Starting
<1> QED
  BY <1>1, <1>2, <1>3, <1>4, <1>5, <1>6, <1>7, <1>8, <1>9, <1>10, <1>11, <1>12 DEF Main

\* A step that changes nothing keeps the invariant.
LEMMA ProcessStutter == ProcessInv /\ UNCHANGED processVars => ProcessInv'
<1> SUFFICES ASSUME ProcessInv, UNCHANGED processVars PROVE ProcessInv'
  OBVIOUS
<1> USE DEF ProcessInv, processVars, mainVars, registryVars, sweepVars
<1>1. ProcessTypeOK' /\ FiledByConversation'
  BY DEF ProcessTypeOK, FiledByConversation
<1>2. FiledWhileInSession' /\ SweepMissesNone' /\ ExistingAreTold'
  BY DEF FiledWhileInSession, SweepMissesNone, ExistingAreTold, InSession, Starting
<1>3. CountIsExact'
  BY DEF CountIsExact, Registered, Starting
<1>4. ExistingRegistered' /\ DownIsIdle'
  BY DEF ExistingRegistered, DownIsIdle, Starting
<1> QED
  BY <1>1, <1>2, <1>3, <1>4

\* The invariant holds throughout.
LEMMA ProcessInvariance == Spec => []ProcessInv
<1>1. ProcessInv /\ [Next]_processVars => ProcessInv'
  BY ConnectionStep, MainStep, ProcessStutter DEF Next
<1> QED
  BY <1>1, ProcessInit, PTL DEF Spec

-----------------------------------------------------------------------------
\* The state is well typed.
THEOREM ProcessTypeCorrect == Spec => []ProcessTypeOK
BY ProcessInvariance, PTL DEF ProcessInv

\* registry.py: until a shutdown begins, add and remove keep the registry and the
\* count that the limit is checked against in step with the running sessions.
THEOREM RegistryStaysExact == Spec => []RegistryIsExact
<1>1. ProcessInv => RegistryIsExact
  <2> SUFFICES ASSUME ProcessInv, Starting
               PROVE  Registered = {c \in Conns : InSession(c)} /\ count = Cardinality(Registered)
    BY DEF RegistryIsExact, Starting
  <2> QED
    BY RegisteredIsFiled DEF ProcessInv, FiledWhileInSession, CountIsExact
<1> QED
  BY <1>1, ProcessInvariance, PTL

\* close_all: whoever was connected when it started has been sent 1001 or has
\* gone by the time Kafka is flushed, whatever came and went under the sweep.
THEOREM SweepTellsExisting == Spec => []ExistingAreTold
BY ProcessInvariance, PTL DEF ProcessInv

\* _graceful_stop: unless it is cut short, the producer and Redis are closed
\* under no connection that still uses them.
THEOREM ReleaseFindsIdle == Spec => []ReleasedWhenIdle
<1>1. ProcessInv => ReleasedWhenIdle
  BY DEF ProcessInv, DownIsIdle, ReleasedWhenIdle
<1> QED
  BY <1>1, ProcessInvariance, PTL
=============================================================================
