--------------------------- MODULE LocalServeProofs ---------------------------
(***************************************************************************)
(* Proofs that a local server never has two Cmd objects, and never two     *)
(* processes at once, however many events there are.                       *)
(***************************************************************************)
EXTENDS LocalServeProperties, SequenceTheorems, TLAPS

\* The numbers of objects.
LEMMA IdRules ==
  /\ Ids \subseteq Nat \ {0} /\ 0 \notin Ids
  /\ \A n \in Ids, m \in Nat \ {0} : m <= n => m \in Ids
  BY LocalServeAssumption DEF Ids

\* Adding to the work queue.
LEMMA AddedRules ==
  ASSUME NEW q \in Seq(Ids), NEW c \in Ids
  PROVE  Added(q, c) \in Seq(Ids)
  BY DEF Added

\* Taking from a sequence.
LEMMA TakeRules ==
  ASSUME NEW S, NEW q \in Seq(S), q # <<>>
  PROVE  /\ Head(q) \in S /\ Tail(q) \in Seq(S)
         /\ 1 \in DOMAIN q /\ Head(q) = q[1]
         /\ \A i \in DOMAIN Tail(q) : i + 1 \in DOMAIN q /\ Tail(q)[i] = q[i + 1]
  <1>1. Len(q) \in Nat \ {0} /\ DOMAIN q = 1..Len(q)
    BY EmptySeq, LenProperties
  <1>2. /\ Tail(q) \in Seq(S) /\ Len(Tail(q)) = Len(q) - 1
        /\ \A i \in 1..Len(Tail(q)) : Tail(q)[i] = q[i + 1]
    BY HeadTailProperties
  <1>3. DOMAIN Tail(q) = 1..Len(Tail(q))
    BY <1>2, LenProperties
  <1>4. QED
    BY <1>1, <1>2, <1>3, HeadTailProperties

\* Dispatching an action: those that were there stay.
LEMMA DispatchRules ==
  ASSUME actions \in Seq(Action), NEW a \in Action, Dispatch(a)
  PROVE  /\ actions' \in Seq(Action)
         /\ \A i \in DOMAIN actions' :
              \/ actions'[i] = a
              \/ i \in DOMAIN actions /\ actions'[i] = actions[i]
  <1>1. actions' = Append(actions, a)
    BY DEF Dispatch
  <1>2. /\ actions' \in Seq(Action) /\ Len(actions') = Len(actions) + 1
        /\ \A i \in 1..Len(actions) : actions'[i] = actions[i]
        /\ actions'[Len(actions) + 1] = a
    BY <1>1, AppendProperties
  <1>3. Len(actions) \in Nat /\ DOMAIN actions = 1..Len(actions)
        /\ DOMAIN actions' = 1..Len(actions')
    BY <1>2, LenProperties
  <1>4. \A i \in 1..(Len(actions) + 1) :
          i = Len(actions) + 1 \/ i \in 1..Len(actions)
    BY <1>3
  <1>5. DOMAIN actions' = 1..(Len(actions) + 1)
    BY <1>2, <1>3
  <1>6. SUFFICES ASSUME NEW i \in DOMAIN actions'
                 PROVE  \/ actions'[i] = a
                        \/ i \in DOMAIN actions /\ actions'[i] = actions[i]
    BY <1>2
  <1>7. CASE i = Len(actions) + 1
    <2>1. actions'[i] = a
      BY <1>2, <1>7
    <2>2. QED
      BY <2>1
  <1>8. CASE i \in 1..Len(actions)
    BY <1>2, <1>3, <1>8
  <1>9. QED
    BY <1>4, <1>5, <1>7, <1>8

LEMMA InitIInv == Init => IInv
  <1>1. SUFFICES ASSUME Init PROVE IInv
    OBVIOUS
  <1>2. /\ actions = <<>> /\ queue = <<>> /\ count = 0 /\ Ids \subseteq Nat
        /\ \A c \in Ids : ~api[c].exists
    BY <1>1, IdRules DEF Init, Gone
  <1>3. TypeOK
    <2>1. actions \in Seq(Action) /\ queue \in Seq(Ids)
      BY <1>2
    <2>2. server \in Server
      BY <1>1 DEF Init, Idle, Server
    <2>3. DOMAIN cmds = {}
      BY <1>1 DEF Init
    <2>4. manifest \in Resource
      BY <1>1 DEF Init, Resource
    <2>5. /\ api \in Objects
          /\ procs \in Procs
          /\ busy \in Busy
      BY <1>1
      DEF Init, Gone, NoProc, Free, Statuses, Objects, Procs, Busy
    <2>6. /\ cmdName \in 0..count /\ runtime \in Statuses \cup {"unknown"}
          /\ count \in Ids \cup {0} /\ recent \in 0..count /\ created \in Nat
          /\ disabled \in BOOLEAN /\ dirty \in BOOLEAN
          /\ alive \subseteq Ids /\ killed \subseteq Ids
          /\ events \in 0..MaxEvents
      <3>1. /\ cmdName = 0 /\ runtime = "unknown" /\ count = 0 /\ recent = 0
            /\ created = 0 /\ disabled = FALSE /\ dirty = TRUE /\ alive = {}
            /\ killed = {} /\ events = 0
        BY <1>1 DEF Init
      <3>2. 0 \in 0..MaxEvents /\ 0 \in 0..0
        BY LocalServeAssumption
      <3>3. QED
        BY <3>1, <3>2
    <2>7. QED
      BY <2>1, <2>2, <2>3, <2>4, <2>5, <2>6 DEF TypeOK
  <1>4. QED
    BY <1>1, <1>2, <1>3
    DEF Init, IInv, OneCmd, NamesAreOld, EngineKnows, SnapshotCovers, Existing,
        Idle, Free

-----------------------------------------------------------------------------
\* Steps that leave alone what the engine, the server controller and the API
\* server know.
LEMMA OtherSteps ==
  ASSUME IInv, TypeOK', busy'.step # "idle" => busy'.cmd \in Ids,
         UNCHANGED <<actions, cmds, server, recent, count>>,
         manifest'.present => manifest.present,
         \A c \in Ids : api'[c].exists = api[c].exists
  PROVE  IInv'
  <1>1. Existing' = Existing
    BY DEF Existing
  <1>2. \A i \in DOMAIN actions : actions[i].cmd \in Ids
    <2>1. actions \in Seq(Action)
      BY DEF IInv, TypeOK
    <2>2. \A i \in DOMAIN actions : actions[i] \in Action
      BY <2>1
    <2>3. QED
      BY <2>2 DEF Action
  <1>3. NamesAreOld'
    BY <1>1 DEF IInv, NamesAreOld
  <1>4. EngineKnows'
    BY <1>1, <1>2 DEF IInv, EngineKnows
  <1>5. SnapshotCovers'
    BY <1>1 DEF IInv, SnapshotCovers
  <1>6. QED
    BY <1>3, <1>4, <1>5 DEF IInv, OneCmd

LEMMA ReduceKeepsIInv ==
  ASSUME IInv, Reduce
  PROVE  IInv'
  <1> DEFINE a == Head(actions)
  <1>1. /\ actions \in Seq(Action) /\ actions # <<>> /\ actions' = Tail(actions)
        /\ DOMAIN cmds \subseteq 1..count
        /\ \A c \in DOMAIN cmds : cmds[c] \in Statuses
    BY DEF IInv, TypeOK, Reduce
  <1>2. /\ a \in Action /\ actions' \in Seq(Action)
        /\ 1 \in DOMAIN actions /\ a = actions[1]
        /\ \A i \in DOMAIN actions' :
             i + 1 \in DOMAIN actions /\ actions'[i] = actions[i + 1]
    BY <1>1, TakeRules
  <1>3. /\ a.type # "update" => a.cmd \in 1..count
        /\ a.type = "delete" => ~api[a.cmd].exists
    BY <1>2 DEF IInv, NamesAreOld, EngineKnows
  <1>4. UNCHANGED <<manifest, server, recent, count, api, busy, queue, procs,
                    alive, killed, events, disabled, created>>
    BY DEF Reduce, commands
  <1>5. /\ DOMAIN cmds' \subseteq 1..count
        /\ \A c \in DOMAIN cmds' : cmds'[c] \in Statuses
        /\ cmdName' \in 0..count /\ runtime' \in Statuses \cup {"unknown"}
        /\ manifest.present =>
             DOMAIN cmds \cap Existing \subseteq DOMAIN cmds'
    <2>1. CASE a.type = "create" /\ ReduceCreate(a.cmd)
      <3>1. a.cmd \in 1..count
        BY <1>3, <2>1
      <3>2. CASE manifest.present
        <4>1. DOMAIN cmds' = DOMAIN cmds \cup {a.cmd}
          BY <2>1, <3>2 DEF ReduceCreate, With
        <4>2. \A c \in DOMAIN cmds' : cmds'[c] \in Statuses
          BY <1>1, <2>1, <3>2, <4>1 DEF ReduceCreate, With, Statuses
        <4>3. QED
          BY <1>1, <2>1, <3>1, <3>2, <4>1, <4>2
          DEF ReduceCreate, Statuses, IInv, TypeOK
      <3>3. QED
        BY <1>1, <2>1, <3>2 DEF ReduceCreate, IInv, TypeOK
    <2>2. CASE a.type = "update" /\ ReduceUpdate(a.cmd, a.status)
      <3>1. a.status \in Statuses
        BY <1>2 DEF Action
      <3>2. /\ DOMAIN cmds' \subseteq DOMAIN cmds
            /\ manifest.present => DOMAIN cmds' = DOMAIN cmds
            /\ \A c \in DOMAIN cmds' : cmds'[c] \in Statuses
        BY <1>1, <2>2, <3>1 DEF ReduceUpdate, With, Without
      <3>3. cmdName' \in 0..count /\ runtime' \in Statuses \cup {"unknown"}
        BY <2>2, <3>1 DEF ReduceUpdate, IInv, TypeOK
      <3>4. QED
        BY <1>1, <3>2, <3>3
    <2>3. CASE a.type = "delete" /\ ReduceDelete(a.cmd)
      <3>1. /\ DOMAIN cmds' = DOMAIN cmds \ {a.cmd}
            /\ \A c \in DOMAIN cmds' : cmds'[c] = cmds[c]
        BY <2>3 DEF ReduceDelete, Without
      <3>2. a.cmd \notin Existing
        BY <1>3, <2>3 DEF Existing
      <3>3. QED
        BY <1>1, <2>3, <3>1, <3>2 DEF ReduceDelete, IInv, TypeOK
    <2>4. QED
      BY <2>1, <2>2, <2>3 DEF Reduce
  <1>6. TypeOK'
    <2>1. dirty' = TRUE
      BY DEF Reduce
    <2>2. QED
      BY <1>2, <1>4, <1>5, <2>1 DEF IInv, TypeOK
  <1>7. Existing' = Existing
    BY <1>4 DEF Existing
  <1>8. NamesAreOld'
    BY <1>2, <1>4, <1>7 DEF IInv, NamesAreOld
  <1>9. EngineKnows'
    BY <1>2, <1>4, <1>5, <1>7 DEF IInv, EngineKnows
  <1>10. SnapshotCovers'
    BY <1>4, <1>5, <1>7 DEF IInv, SnapshotCovers
  <1>11. QED
    BY <1>4, <1>6, <1>8, <1>9, <1>10 DEF IInv, OneCmd

-----------------------------------------------------------------------------
(* The server controller *)

LEMMA ObserveKeepsIInv ==
  ASSUME IInv, Observe
  PROVE  IInv'
  <1> DEFINE owned == DOMAIN cmds
  <1>1. /\ dirty' = FALSE
        /\ UNCHANGED <<manifest, cmds, cmdName, runtime, disabled, actions,
             recent, created, count, api, queue, busy, procs, alive, killed,
             events>>
    BY DEF Observe, engine, commands
  <1>2. server' = [Idle EXCEPT
          !.step = IF manifest.present THEN "reconcile" ELSE "delete",
          !.version = manifest.version, !.building = manifest.building,
          !.owned = owned,
          !.terminated = \A c \in owned : cmds[c] = "terminated",
          !.todo = IF manifest.present THEN {} ELSE owned]
    BY DEF Observe
  <1>3. owned \subseteq Ids /\ owned \subseteq 1..count /\ manifest.version \in Nat
        /\ manifest.building \in BOOLEAN /\ manifest.present \in BOOLEAN
    BY IdRules, LocalServeAssumption DEF IInv, TypeOK, Ids, Resource
  <1>4. server' = [step |-> IF manifest.present THEN "reconcile" ELSE "delete",
          version |-> manifest.version, building |-> manifest.building,
          owned |-> owned,
          terminated |-> \A c \in owned : cmds[c] = "terminated",
          todo |-> IF manifest.present THEN {} ELSE owned, create |-> FALSE]
    BY <1>2 DEF Idle
  <1>5. server' \in Server
    <2>1. (\A c \in owned : cmds[c] = "terminated") \in BOOLEAN
      OBVIOUS
    <2>2. QED
      BY <1>3, <1>4, <2>1 DEF Server
  <1>6. TypeOK'
    BY <1>1, <1>5 DEF IInv, TypeOK
  <1>7. /\ server'.owned = owned /\ server'.create = FALSE
        /\ server'.step \in {"reconcile", "delete"}
        /\ server'.step = "reconcile" => manifest.present
        /\ server'.todo \subseteq owned
    BY <1>3, <1>4
  <1>8. Existing' = Existing
    BY <1>1 DEF Existing
  <1>9. NamesAreOld'
    BY <1>1, <1>3, <1>7, <1>8 DEF IInv, NamesAreOld
  <1>10. EngineKnows'
    BY <1>1, <1>8 DEF IInv, EngineKnows
  <1>11. SnapshotCovers'
    BY <1>1, <1>7, <1>8 DEF IInv, EngineKnows, SnapshotCovers
  <1>12. QED
    BY <1>1, <1>6, <1>9, <1>10, <1>11 DEF IInv, OneCmd

LEMMA DecideKeepsIInv ==
  ASSUME IInv, Decide
  PROVE  IInv'
  <1>1. /\ server \in Server /\ server.step = "reconcile" /\ ~server.create
        /\ recent \in 0..count
    BY DEF IInv, TypeOK, Decide, Server, SnapshotCovers
  <1>2. UNCHANGED <<manifest, cmds, cmdName, runtime, disabled, actions, dirty,
                    created, count, api, queue, busy, procs, alive, killed,
                    events>>
    BY DEF Decide, engine, commands
  <1>3. server' \in Server
    <2>1. \/ server' = [server EXCEPT !.step = "delete", !.todo = server.owned]
          \/ server' = Idle
          \/ server' = [server EXCEPT !.step = "delete", !.todo = server.owned,
                                      !.create = server.terminated]
      BY DEF Decide
    <2>2. Idle \in Server
      BY DEF Idle, Server
    <2>3. QED
      BY <1>1, <2>1, <2>2 DEF Server
  <1>4. recent' \in 0..count
    <2>1. count \in Nat /\ (recent' = 0 \/ recent' = recent)
      BY IdRules DEF Decide, IInv, TypeOK
    <2>2. QED
      BY <1>1, <2>1
  <1>5. TypeOK'
    BY <1>2, <1>3, <1>4 DEF IInv, TypeOK
  <1>6. Existing' = Existing
    BY <1>2 DEF Existing
  \* The object that was created last is forgotten when it has been read.
  <1>7. recent' = recent \/ (Seen /\ recent' = 0)
    BY DEF Decide, Seen
  <1>8. Seen => Existing \subseteq server.owned
    BY <1>1, IdRules DEF IInv, SnapshotCovers, Seen, Existing
  <1>9. \/ server' = Idle
        \/ /\ server'.step = "delete" /\ server'.todo = server.owned
           /\ server'.owned = server.owned
           /\ server'.create => Seen
    <2>1. CASE disabled
      <3>1. server' = [server EXCEPT !.step = "delete", !.todo = server.owned]
        BY <2>1 DEF Decide
      <3>2. QED
        BY <1>1, <3>1 DEF Server
    <2>2. CASE ~disabled /\ (server.building \/ ~Seen \/ UpToDate)
      BY <2>2 DEF Decide
    <2>3. CASE ~disabled /\ ~(server.building \/ ~Seen \/ UpToDate)
      <3>1. server' = [server EXCEPT !.step = "delete", !.todo = server.owned,
                                     !.create = server.terminated]
        BY <2>3 DEF Decide
      <3>2. QED
        BY <1>1, <2>3, <3>1 DEF Server
    <2>4. QED
      BY <2>1, <2>2, <2>3
  <1>10. /\ Idle.step = "idle" /\ Idle.owned = {} /\ Idle.todo = {}
    BY DEF Idle
  <1>11. NamesAreOld'
    BY <1>2, <1>6, <1>9, <1>10 DEF IInv, NamesAreOld
  <1>12. EngineKnows'
    BY <1>1, <1>2, <1>6, <1>7, <1>8 DEF IInv, EngineKnows, SnapshotCovers
  <1>13. SnapshotCovers'
    BY <1>6, <1>8, <1>9, <1>10 DEF SnapshotCovers
  <1>14. QED
    BY <1>2, <1>5, <1>11, <1>12, <1>13 DEF IInv, OneCmd

LEMMA DeleteKeepsIInv ==
  ASSUME IInv, NEW c \in Ids, Delete(c)
  PROVE  IInv'
  <1>1. /\ server \in Server /\ server.step = "delete" /\ c \in server.todo
        /\ api \in Objects
        /\ queue \in Seq(Ids) /\ count \in Nat /\ recent \in 0..count
        /\ recent' = IF recent = c THEN 0 ELSE recent
    BY IdRules DEF IInv, TypeOK, Delete, Server
  <1>2. UNCHANGED <<manifest, cmds, cmdName, runtime, disabled, actions, dirty,
                    created, count, busy, procs, alive, killed, events>>
    BY DEF Delete, engine
  <1>3. server' = [server EXCEPT !.step = "deleted"] /\ server' \in Server
    BY <1>1 DEF Delete, Server
  <1>4. /\ api' \in Objects
        /\ \A d \in Ids : api'[d].exists = (api[d].exists /\ d # c)
    BY <1>1 DEF Delete, Objects
  <1>5. queue' \in Seq(Ids) /\ recent' \in 0..count
    BY <1>1, AddedRules DEF Delete
  <1>6. TypeOK'
    BY <1>2, <1>3, <1>4, <1>5 DEF IInv, TypeOK
  <1>7. Existing' = Existing \ {c}
    BY <1>4 DEF Existing
  <1>8. /\ server'.step = "deleted" /\ server'.owned = server.owned
        /\ server'.todo = server.todo /\ server'.create = server.create
    BY <1>1, <1>3 DEF Server
  <1>9. NamesAreOld'
    BY <1>2, <1>7, <1>8 DEF IInv, NamesAreOld
  <1>10. EngineKnows'
    <2>1. \A i \in DOMAIN actions : actions[i].cmd \in Ids
      <3>1. actions \in Seq(Action)
        BY DEF IInv, TypeOK
      <3>2. \A i \in DOMAIN actions : actions[i] \in Action
        BY <3>1
      <3>3. QED
        BY <3>2 DEF Action
    <2>2. QED
      BY <1>1, <1>2, <1>4, <1>7, <2>1 DEF IInv, EngineKnows
  <1>11. SnapshotCovers'
    BY <1>1, <1>7, <1>8 DEF IInv, SnapshotCovers
  <1>12. OneCmd'
    BY <1>4 DEF IInv, OneCmd
  <1>13. QED
    BY <1>6, <1>9, <1>10, <1>11, <1>12 DEF IInv

LEMMA DispatchDeleteKeepsIInv ==
  ASSUME IInv, NEW c \in Ids, DispatchDelete(c)
  PROVE  IInv'
  <1> DEFINE a == [type |-> "delete", cmd |-> c, status |-> "none"]
  <1>1. /\ server \in Server /\ server.step = "deleted" /\ c \in server.todo
        /\ ~api[c].exists /\ actions \in Seq(Action) /\ a \in Action
        /\ c \in 1..count
    BY DEF IInv, TypeOK, DispatchDelete, Server, Action, Statuses, NamesAreOld
  <1>2. UNCHANGED <<manifest, cmds, cmdName, runtime, disabled, dirty, recent,
                    created, count, api, queue, busy, procs, alive, killed,
                    events>>
    BY DEF DispatchDelete, engine, commands
  <1>3. /\ actions' \in Seq(Action)
        /\ \A i \in DOMAIN actions' :
             \/ actions'[i] = a
             \/ i \in DOMAIN actions /\ actions'[i] = actions[i]
    BY <1>1, DispatchRules DEF DispatchDelete
  <1>4. /\ server' \in Server /\ server'.step = "delete"
        /\ server'.todo = server.todo \ {c} /\ server'.owned = server.owned
        /\ server'.create = server.create
    BY <1>1 DEF DispatchDelete, Server
  <1>5. TypeOK'
    BY <1>2, <1>3, <1>4 DEF IInv, TypeOK
  <1>6. Existing' = Existing /\ c \notin Existing
    BY <1>1, <1>2 DEF Existing
  <1>7. NamesAreOld'
    BY <1>1, <1>2, <1>3, <1>4, <1>6 DEF IInv, NamesAreOld
  <1>8. EngineKnows'
    BY <1>1, <1>2, <1>3, <1>6 DEF IInv, EngineKnows
  <1>9. SnapshotCovers'
    BY <1>1, <1>4, <1>6 DEF IInv, SnapshotCovers
  <1>10. QED
    BY <1>2, <1>5, <1>7, <1>8, <1>9 DEF IInv, OneCmd

LEMMA DeletedKeepsIInv ==
  ASSUME IInv, Deleted
  PROVE  IInv'
  <1>1. server \in Server /\ server.step = "delete" /\ server.todo = {}
    BY DEF IInv, TypeOK, Deleted, Server
  <1>2. UNCHANGED <<manifest, cmds, cmdName, runtime, disabled, actions, dirty,
                    recent, created, count, api, queue, busy, procs, alive,
                    killed, events>>
    BY DEF Deleted, engine, commands
  <1>3. /\ server' \in Server
        /\ server'.step = "idle" \/ (server.create /\ server'.step = "create")
        /\ server'.owned \subseteq server.owned /\ server'.todo = {}
    <2>1. CASE server.create
      <3>1. server' = [server EXCEPT !.step = "create"]
        BY <2>1 DEF Deleted
      <3>2. QED
        BY <1>1, <2>1, <3>1 DEF Server
    <2>2. CASE ~server.create
      <3>1. server' = Idle
        BY <2>2 DEF Deleted
      <3>2. /\ server'.step = "idle" /\ server'.owned = {}
            /\ server'.todo = {}
        BY <3>1 DEF Idle
      <3>3. server' \in Server
        BY <3>1 DEF Server, Idle
      <3>4. QED
        BY <3>2, <3>3
    <2>3. QED
      BY <2>1, <2>2
  <1>4. TypeOK'
    BY <1>2, <1>3 DEF IInv, TypeOK
  <1>5. Existing' = Existing
    BY <1>2 DEF Existing
  <1>6. NamesAreOld'
    BY <1>2, <1>3, <1>5 DEF IInv, NamesAreOld
  <1>7. EngineKnows'
    BY <1>2, <1>5 DEF IInv, EngineKnows
  <1>8. SnapshotCovers'
    BY <1>1, <1>3, <1>5 DEF IInv, SnapshotCovers
  <1>9. QED
    BY <1>2, <1>4, <1>6, <1>7, <1>8 DEF IInv, OneCmd

LEMMA CreateKeepsIInv ==
  ASSUME IInv, Create
  PROVE  IInv'
  <1> DEFINE new == count + 1
  <1>1. /\ server \in Server /\ server.step = "create" /\ new \in Ids
        /\ api \in Objects
        /\ queue \in Seq(Ids) /\ count \in Nat /\ recent' = new /\ count' = new
        /\ created' = server.version /\ Existing = {} /\ server.version \in Nat
    BY IdRules DEF IInv, TypeOK, Create, Server, SnapshotCovers
  <1>2. UNCHANGED <<manifest, cmds, cmdName, runtime, disabled, actions, dirty,
                    busy, procs, alive, killed, events>>
    BY DEF Create, engine
  <1>3. /\ server' \in Server /\ server'.step = "created"
        /\ server'.todo = server.todo /\ server'.owned = server.owned
    BY <1>1 DEF Create, Server
  <1>4. /\ api' \in Objects
        /\ \A d \in Ids \ {new} : api'[d] = api[d]
        /\ api'[new].exists
    <2>1. api' = [api EXCEPT ![new] =
             [exists |-> TRUE, version |-> server.version, status |-> "none"]]
      BY DEF Create
    <2>2. [exists |-> TRUE, version |-> server.version, status |-> "none"]
            \in [exists : BOOLEAN, version : Nat, status : Statuses]
      BY <1>1 DEF Statuses
    <2>3. QED
      BY <1>1, <2>1, <2>2 DEF Objects
  <1>5. queue' \in Seq(Ids)
    BY <1>1, AddedRules DEF Create
  <1>6. /\ 1..count \subseteq 1..new /\ 0..count \subseteq 0..new
        /\ new \in 1..new /\ new \notin 1..count
    BY <1>1
  <1>7. TypeOK'
    BY <1>1, <1>2, <1>3, <1>4, <1>5, <1>6 DEF IInv, TypeOK
  <1>8. Existing' = {new}
    BY <1>1, <1>4 DEF Existing
  <1>9. NamesAreOld'
    BY <1>1, <1>2, <1>3, <1>6, <1>8 DEF IInv, NamesAreOld
  <1>10. EngineKnows'
    <2>1. \A i \in DOMAIN actions :
            actions[i].type = "delete" => actions[i].cmd \in Ids \ {new}
      <3>1. actions \in Seq(Action)
        BY DEF IInv, TypeOK
      <3>2. \A i \in DOMAIN actions : actions[i] \in Action
        BY <3>1
      <3>3. QED
        BY <1>6, <3>2 DEF Action, IInv, NamesAreOld
    <2>2. QED
      BY <1>1, <1>2, <1>4, <1>8, <2>1 DEF IInv, EngineKnows
  <1>11. SnapshotCovers'
    BY <1>3 DEF SnapshotCovers
  <1>12. OneCmd'
    BY <1>8 DEF OneCmd, Existing
  <1>13. QED
    BY <1>7, <1>9, <1>10, <1>11, <1>12 DEF IInv

LEMMA DispatchCreateKeepsIInv ==
  ASSUME IInv, DispatchCreate
  PROVE  IInv'
  <1> DEFINE a == [type |-> "create", cmd |-> count, status |-> "none"]
  <1>1. /\ actions \in Seq(Action) /\ a \in Action /\ count \in 1..count
        /\ server' = Idle
    <2>1. /\ actions \in Seq(Action) /\ count \in Ids /\ server' = Idle
      BY DEF IInv, TypeOK, DispatchCreate, Action, NamesAreOld
    <2>2. a \in Action
      BY <2>1 DEF Action, Statuses
    <2>3. count \in Nat \ {0}
      BY <2>1, IdRules
    <2>4. QED
      BY <2>1, <2>2, <2>3
  <1>2. UNCHANGED <<manifest, cmds, cmdName, runtime, disabled, dirty, recent,
                    created, count, api, queue, busy, procs, alive, killed,
                    events>>
    BY DEF DispatchCreate, engine, commands
  <1>3. /\ actions' \in Seq(Action)
        /\ \A i \in DOMAIN actions' :
             \/ actions'[i] = a
             \/ i \in DOMAIN actions /\ actions'[i] = actions[i]
    BY <1>1, DispatchRules DEF DispatchCreate
  <1>4. /\ server' \in Server /\ server'.step = "idle"
        /\ server'.todo = {} /\ server'.owned = {}
    BY <1>1 DEF Server, Idle
  <1>5. TypeOK'
    BY <1>2, <1>3, <1>4 DEF IInv, TypeOK
  <1>6. Existing' = Existing
    BY <1>2 DEF Existing
  <1>7. NamesAreOld'
    BY <1>1, <1>2, <1>3, <1>4, <1>6 DEF IInv, NamesAreOld
  <1>8. EngineKnows'
    BY <1>1, <1>2, <1>3, <1>6 DEF IInv, EngineKnows
  <1>9. SnapshotCovers'
    BY <1>4 DEF SnapshotCovers
  <1>10. QED
    BY <1>2, <1>5, <1>7, <1>8, <1>9 DEF IInv, OneCmd

-----------------------------------------------------------------------------
(* The controller of Cmd objects, and the world *)

LEMMA ReconcileKeepsIInv ==
  ASSUME IInv, Reconcile
  PROVE  IInv'
  <1>1. /\ queue \in Seq(Ids) /\ actions \in Seq(Action)
        /\ api \in Objects
        /\ procs \in Procs
        /\ busy.step # "idle" => busy.cmd \in Ids
    BY DEF IInv, TypeOK, NamesAreOld
  <1>2. UNCHANGED <<manifest, cmds, cmdName, runtime, disabled, dirty, server,
                    recent, created, count, alive, killed, events>>
    BY DEF Reconcile, Take, EndStop, UpdateStatus, DispatchStatus, engine,
           controller
  <1>3. Free = [step |-> "idle", cmd |-> 0] /\ Free \in Busy
    BY DEF Free, Busy
  <1>4. CASE Take
    <2> DEFINE c == Head(queue)
    <2>1. c \in Ids /\ Tail(queue) \in Seq(Ids)
      BY <1>1, <1>4, TakeRules DEF Take
    <2>2. UNCHANGED <<api, actions>> /\ queue' \in Seq(Ids)
      BY <1>4, <2>1 DEF Take
    <2>3. /\ busy' \in [step : {"stop", "report"}, cmd : Ids]
          /\ procs' \in Procs
      <3>1. CASE ~api[c].exists
        <4>1. /\ busy' = [step |-> "stop", cmd |-> c]
              /\ procs' = [procs EXCEPT ![c].phase =
                   IF @ \in {"starting", "running"} THEN "canceled" ELSE @]
          BY <1>4, <3>1 DEF Take
        <4>2. procs[c] \in [status : Statuses,
                            phase : {"none", "starting", "running", "canceled",
                                     "closed"}]
          BY <1>1, <2>1 DEF Procs
        <4>3. QED
          BY <1>1, <2>1, <4>1, <4>2 DEF Procs
      <3>2. CASE api[c].exists
        <4>1. [status |-> "waiting", phase |-> "starting"]
                \in [status : Statuses,
                    phase : {"none", "starting", "running", "canceled",
                             "closed"}]
          BY DEF Statuses
        <4>2. /\ busy' = [step |-> "report", cmd |-> c]
              /\ procs' = IF procs[c] = NoProc
                          THEN [procs EXCEPT ![c] = [status |-> "waiting",
                                                     phase |-> "starting"]]
                          ELSE procs
          BY <1>4, <3>2 DEF Take
        <4>3. QED
          BY <1>1, <2>1, <4>1, <4>2 DEF Procs
      <3>3. QED
        BY <3>1, <3>2
    <2>4. busy' \in Busy
      BY <2>3 DEF Busy
    <2>5. TypeOK'
      BY <1>2, <2>2, <2>3, <2>4 DEF IInv, TypeOK
    <2>6. QED
      BY <1>2, <2>2, <2>3, <2>5, OtherSteps
  <1>5. CASE EndStop
    <2>1. UNCHANGED <<api, actions, queue>> /\ busy' = Free
      BY <1>5 DEF EndStop
    <2>2. procs' \in Procs
      BY <1>1, <1>5 DEF EndStop, Statuses, NoProc, Procs
    <2>3. TypeOK'
      BY <1>2, <1>3, <2>1, <2>2 DEF IInv, TypeOK
    <2>4. QED
      BY <1>2, <1>3, <2>1, <2>3, OtherSteps
  <1>6. CASE UpdateStatus
    <2>1. busy.cmd \in Ids /\ UNCHANGED <<actions, procs>>
      BY <1>1, <1>6 DEF UpdateStatus
    <2>2. /\ busy' = Free \/ busy' = [busy EXCEPT !.step = "dispatch"]
          /\ queue' = queue \/ queue' = Added(queue, busy.cmd)
          /\ api' = api
               \/ api' = [api EXCEPT ![busy.cmd].status = procs[busy.cmd].status]
      BY <1>6 DEF UpdateStatus
    <2>3. busy \in Busy
      BY DEF IInv, TypeOK
    <2>4. /\ busy' \in [step : {"idle", "dispatch"}, cmd : Ids \cup {0}]
          /\ busy'.step # "idle" => busy'.cmd \in Ids
      <3>1. CASE busy' = Free
        BY <1>3, <3>1
      <3>2. CASE busy' = [busy EXCEPT !.step = "dispatch"]
        BY <2>1, <2>3, <3>2 DEF Busy
      <3>3. QED
        BY <2>2, <3>1, <3>2
    <2>5. queue' \in Seq(Ids)
      <3>1. Added(queue, busy.cmd) \in Seq(Ids)
        BY <1>1, <2>1, AddedRules
      <3>2. QED
        BY <1>1, <2>2, <3>1
    <2>6. /\ api' \in Objects
          /\ \A d \in Ids : api'[d].exists = api[d].exists
      <3>1. procs[busy.cmd].status \in Statuses
        BY <1>1, <2>1 DEF Procs
      <3>2. CASE api' = api
        BY <1>1, <3>2
      <3>3. CASE api' = [api EXCEPT ![busy.cmd].status = procs[busy.cmd].status]
        BY <1>1, <2>1, <3>1, <3>3 DEF Objects
      <3>4. QED
        BY <2>2, <3>2, <3>3
    <2>7. busy' \in Busy
      BY <2>4 DEF Busy
    <2>8. TypeOK'
      BY <1>2, <2>1, <2>5, <2>6, <2>7 DEF IInv, TypeOK
    <2>9. QED
      BY <1>2, <2>1, <2>4, <2>6, <2>8, OtherSteps
  <1>7. CASE DispatchStatus
    <2> DEFINE a == [type |-> "update", cmd |-> busy.cmd,
                     status |-> api[busy.cmd].status]
    <2>1. busy.cmd \in Ids /\ UNCHANGED <<api, procs, queue>> /\ busy' = Free
      BY <1>1, <1>7 DEF DispatchStatus
    <2>2. a \in Action
      BY <1>1, <2>1 DEF Action, Objects
    <2>3. /\ actions' \in Seq(Action)
          /\ \A i \in DOMAIN actions' :
               \/ actions'[i] = a
               \/ i \in DOMAIN actions /\ actions'[i] = actions[i]
      BY <1>1, <1>7, <2>2, DispatchRules DEF DispatchStatus
    <2>4. TypeOK'
      BY <1>2, <1>3, <2>1, <2>3 DEF IInv, TypeOK
    <2>5. Existing' = Existing
      BY <2>1 DEF Existing
    <2>6. NamesAreOld'
      BY <1>2, <1>3, <2>1, <2>3, <2>5 DEF IInv, NamesAreOld
    <2>7. EngineKnows'
      BY <1>2, <2>1, <2>3, <2>5 DEF IInv, EngineKnows
    <2>8. SnapshotCovers'
      BY <1>2, <2>5 DEF IInv, SnapshotCovers
    <2>9. QED
      BY <2>1, <2>4, <2>6, <2>7, <2>8 DEF IInv, OneCmd
  <1>8. QED
    BY <1>4, <1>5, <1>6, <1>7 DEF Reconcile

LEMMA GoroutineKeepsIInv ==
  ASSUME IInv, NEW c \in Ids, Goroutine(c)
  PROVE  IInv'
  <1>1. /\ queue \in Seq(Ids) /\ alive \subseteq Ids /\ killed \subseteq Ids
        /\ procs \in Procs
    BY DEF IInv, TypeOK
  <1>2. UNCHANGED <<manifest, cmds, cmdName, runtime, disabled, actions, dirty,
                    server, recent, created, count, api, busy, events>>
    BY DEF Goroutine, StartProcess, EndProcess, engine, controller
  <1>3. queue' \in Seq(Ids)
    BY <1>1, AddedRules DEF Goroutine, StartProcess, EndProcess
  <1>4. /\ procs' \in Procs
        /\ alive' \subseteq Ids /\ killed' \subseteq Ids
    <2>1. CASE StartProcess(c)
      BY <1>1, <2>1 DEF StartProcess, Statuses, Procs
    <2>2. CASE EndProcess(c)
      BY <1>1, <2>2 DEF EndProcess, Statuses, Procs
    <2>3. QED
      BY <2>1, <2>2 DEF Goroutine
  <1>5. TypeOK'
    BY <1>2, <1>3, <1>4 DEF IInv, TypeOK
  <1>6. QED
    BY <1>2, <1>5, OtherSteps DEF IInv, NamesAreOld

LEMMA WorldKeepsIInv ==
  ASSUME IInv, World
  PROVE  IInv'
  <1>1. /\ manifest \in Resource
        /\ events \in 0..MaxEvents /\ MaxEvents \in Nat
    BY LocalServeAssumption DEF IInv, TypeOK
  <1>2. UNCHANGED <<cmds, actions, server, recent, created, count, api, queue,
                    busy, procs, killed>>
    BY DEF World, NewVersion, ToggleBuilding, Toggle, RemoveResource, Die,
           engine, controller, commands
  <1>3. events' \in 0..MaxEvents
    BY <1>1
    DEF World, NewVersion, ToggleBuilding, Toggle, RemoveResource, Die, Happens
  <1>4. /\ manifest' \in Resource
        /\ manifest'.present => manifest.present
    <2>1. CASE NewVersion
      BY <1>1, <2>1 DEF NewVersion, Resource
    <2>2. CASE ToggleBuilding
      BY <1>1, <2>2 DEF ToggleBuilding, Resource
    <2>3. CASE RemoveResource
      BY <1>1, <2>3 DEF RemoveResource, Resource
    <2>4. CASE Toggle \/ \E c \in Ids : Die(c)
      BY <1>1, <2>4 DEF Toggle, Die, engine
    <2>5. QED
      BY <2>1, <2>2, <2>3, <2>4 DEF World
  <1>5. /\ cmdName' \in 0..count /\ runtime' \in Statuses \cup {"unknown"}
        /\ dirty' \in BOOLEAN /\ disabled' \in BOOLEAN /\ alive' \subseteq Ids
    <2>1. /\ cmdName \in 0..count /\ runtime \in Statuses \cup {"unknown"}
          /\ dirty \in BOOLEAN /\ disabled \in BOOLEAN /\ alive \subseteq Ids
      BY DEF IInv, TypeOK
    <2>2. count \in Nat
      BY IdRules DEF IInv, TypeOK
    <2>3. CASE NewVersion \/ ToggleBuilding
      BY <2>1, <2>3 DEF NewVersion, ToggleBuilding, commands
    <2>4. CASE RemoveResource
      BY <2>1, <2>2, <2>4 DEF RemoveResource, commands
    <2>5. CASE Toggle
      BY <2>1, <2>5 DEF Toggle, commands, engine
    <2>6. CASE \E c \in Ids : Die(c)
      BY <2>1, <2>6 DEF Die, engine, controller
    <2>7. QED
      BY <2>3, <2>4, <2>5, <2>6 DEF World
  <1>6. TypeOK'
    BY <1>2, <1>3, <1>4, <1>5 DEF IInv, TypeOK
  <1>7. QED
    BY <1>2, <1>4, <1>6, OtherSteps DEF IInv, NamesAreOld

-----------------------------------------------------------------------------
\* Every step of the specification, and every step that changes nothing, keeps
\* the invariant.
LEMMA IInvIsInductive == IInv /\ [Next]_vars => IInv'
  <1>1. SUFFICES ASSUME IInv, [Next]_vars PROVE IInv'
    OBVIOUS
  <1>2. CASE OnChange
    BY <1>1, <1>2, ObserveKeepsIInv, DecideKeepsIInv, DeletedKeepsIInv,
       CreateKeepsIInv, DispatchCreateKeepsIInv, DeleteKeepsIInv,
       DispatchDeleteKeepsIInv DEF OnChange
  <1>3. CASE UNCHANGED vars
    <2>1. UNCHANGED <<manifest, cmds, cmdName, runtime, disabled, actions, dirty,
                      server, recent, created, count, api, queue, busy, procs,
                      alive, killed, events>>
      BY <1>3 DEF vars, engine, controller, commands
    <2>2. TypeOK'
      BY <1>1, <2>1 DEF IInv, TypeOK
    <2>3. QED
      BY <1>1, <2>1, <2>2, OtherSteps DEF IInv, NamesAreOld
  <1>4. QED
    BY <1>1, <1>2, <1>3, ReduceKeepsIInv, ReconcileKeepsIInv, WorldKeepsIInv,
       GoroutineKeepsIInv DEF Next

\* The types of the server controller, the engine and the Cmd controller.
THEOREM LocalServeTypes == Spec => []TypeOK
  <1>1. IInv => TypeOK
    BY DEF IInv
  <1>2. QED
    BY <1>1, InitIInv, IInvIsInductive, PTL DEF Spec

\* However late its own actions come back to it, and whatever happens to the
\* resource meanwhile, the server controller never has two Cmd objects for it.
THEOREM NeverTwoCmds == Spec => []OneCmd
  <1>1. IInv => OneCmd
    BY DEF IInv
  <1>2. QED
    BY <1>1, InitIInv, IInvIsInductive, PTL DEF Spec

-----------------------------------------------------------------------------
-----------------------------------------------------------------------------
(* The order of the work queue *)

\* What is added to the queue comes last, unless it is there already.
LEMMA AddedIsLast ==
  ASSUME NEW q \in Seq(Ids), NEW c \in Ids
  PROVE  /\ \A i \in DOMAIN q : /\ i \in DOMAIN Added(q, c)
                                /\ Added(q, c)[i] = q[i]
         /\ \A j \in DOMAIN Added(q, c) :
              \/ j \in DOMAIN q /\ Added(q, c)[j] = q[j]
              \/ Added(q, c)[j] = c /\ \A i \in DOMAIN q : i < j
         /\ \E j \in DOMAIN Added(q, c) : Added(q, c)[j] = c
  <1>1. CASE c \in ToSet(q)
    <2>1. Added(q, c) = q
      BY <1>1 DEF Added
    <2>2. \E j \in DOMAIN q : q[j] = c
      BY <1>1 DEF ToSet
    <2>3. QED
      BY <2>1, <2>2
  <1>2. CASE c \notin ToSet(q)
    <2>1. Added(q, c) = Append(q, c)
      BY <1>2 DEF Added
    <2>2. /\ Append(q, c) \in Seq(Ids) /\ Len(Append(q, c)) = Len(q) + 1
          /\ \A i \in 1..Len(q) : Append(q, c)[i] = q[i]
          /\ Append(q, c)[Len(q) + 1] = c
      BY AppendProperties
    <2>3. /\ Len(q) \in Nat /\ DOMAIN q = 1..Len(q)
          /\ DOMAIN Append(q, c) = 1..Len(Append(q, c))
      BY <2>2, LenProperties
    <2>4. DOMAIN Append(q, c) = 1..(Len(q) + 1)
      BY <2>2, <2>3
    <2>5. /\ \A j \in 1..(Len(q) + 1) : j \in 1..Len(q) \/ j = Len(q) + 1
          /\ \A i \in 1..Len(q) : i < Len(q) + 1 /\ i \in 1..(Len(q) + 1)
          /\ Len(q) + 1 \in 1..(Len(q) + 1)
      BY <2>3
    <2>6. \A i \in DOMAIN q : /\ i \in DOMAIN Added(q, c)
                              /\ Added(q, c)[i] = q[i]
      BY <2>1, <2>2, <2>3, <2>4, <2>5
    <2>7. ASSUME NEW j \in DOMAIN Added(q, c)
          PROVE  \/ j \in DOMAIN q /\ Added(q, c)[j] = q[j]
                 \/ Added(q, c)[j] = c /\ \A i \in DOMAIN q : i < j
      <3>1. j \in 1..(Len(q) + 1)
        BY <2>1, <2>4, <2>7
      <3>2. CASE j \in 1..Len(q)
        BY <2>1, <2>2, <2>3, <3>2
      <3>3. CASE j = Len(q) + 1
        BY <2>1, <2>2, <2>3, <2>5, <3>3
      <3>4. QED
        BY <2>5, <3>1, <3>2, <3>3
    <2>8. \E j \in DOMAIN Added(q, c) : Added(q, c)[j] = c
      BY <2>1, <2>2, <2>4, <2>5
    <2>9. QED
      BY <2>6, <2>7, <2>8
  <1>3. QED
    BY <1>1, <1>2

\* Steps that bring no process into use and no object about: the queue keeps
\* its order, and an object that goes is added to it.
LEMMA OrderKept ==
  ASSUME IInv, QueueInv, NEW x \in Ids,
         queue' = queue \/ (queue' = Added(queue, x) /\ x \in 1..count),
         InUse' \subseteq InUse, alive' \ killed' \subseteq InUse',
         \A c \in InUse' : Stopping(c) => Stopping(c)',
         count' = count, busy'.step # "idle" => busy'.cmd \in 1..count,
         \A c \in Ids : api'[c].exists => api[c].exists,
         \A c \in InUse' : api[c].exists /\ ~api'[c].exists =>
                             c = x /\ queue' = Added(queue, x)
  PROVE  QueueInv'
  <1>1. /\ queue \in Seq(Ids)
        /\ \A i \in DOMAIN queue : queue[i] \in Ids
    <2>1. queue \in Seq(Ids)
      BY DEF IInv, TypeOK
    <2>2. QED
      BY <2>1
  <1>2. InUse \subseteq Ids
    BY DEF InUse
  <1>3. \A i \in DOMAIN queue : i \in DOMAIN queue' /\ queue'[i] = queue[i]
    BY <1>1, AddedIsLast
  <1>4. ASSUME NEW j \in DOMAIN queue'
        PROVE  \/ j \in DOMAIN queue /\ queue'[j] = queue[j]
               \/ /\ queue'[j] = x /\ x \in 1..count
                  /\ \A i \in DOMAIN queue : i < j
    BY <1>1, <1>4, AddedIsLast
  <1>5. queue' = Added(queue, x) => \E i \in DOMAIN queue' : queue'[i] = x
    BY <1>1, AddedIsLast
  <1>6. OneInUse'
    BY DEF QueueInv, OneInUse
  <1>7. QueueIsOld'
    BY <1>4 DEF QueueInv, QueueIsOld
  <1>8. ASSUME NEW c \in InUse'
        PROVE  \/ api'[c].exists \/ Stopping(c)'
               \/ \E i \in DOMAIN queue' : queue'[i] = c
    <2>1. \/ api[c].exists \/ Stopping(c)
          \/ \E i \in DOMAIN queue : queue[i] = c
      BY <1>8 DEF QueueInv, StopsFirst
    <2>2. QED
      BY <1>3, <1>5, <1>8, <2>1
  <1>9. ASSUME NEW c \in InUse', NEW j \in DOMAIN queue',
               api'[queue'[j]].exists, queue'[j] # c
        PROVE  \/ Stopping(c)'
               \/ \E i \in DOMAIN queue' : i < j /\ queue'[i] = c
    <2>1. CASE j \in DOMAIN queue /\ queue'[j] = queue[j]
      <3>1. api[queue[j]].exists /\ queue[j] # c
        BY <1>1, <1>9, <2>1
      <3>2. \/ Stopping(c)
            \/ \E i \in DOMAIN queue : i < j /\ queue[i] = c
        BY <1>9, <2>1, <3>1 DEF QueueInv, StopsFirst
      <3>3. QED
        BY <1>3, <1>9, <3>2
    <2>2. CASE queue'[j] = x /\ \A i \in DOMAIN queue : i < j
      <3>1. api[x].exists /\ x # c
        BY <1>9, <2>2
      <3>2. ~api[c].exists
        BY <1>2, <1>9, <3>1 DEF IInv, OneCmd
      <3>3. Stopping(c) \/ \E i \in DOMAIN queue : queue[i] = c
        BY <1>9, <3>2 DEF QueueInv, StopsFirst
      <3>4. QED
        BY <1>3, <1>9, <2>2, <3>3
    <2>3. QED
      BY <1>4, <2>1, <2>2
  <1>10. StopsFirst'
    BY <1>8, <1>9 DEF StopsFirst
  <1>11. QED
    BY <1>6, <1>7, <1>10 DEF QueueInv

\* Steps that leave the processes and the queue alone.
LEMMA QuietStepsKeepOrder ==
  ASSUME IInv, QueueInv,
         \/ Reduce \/ Observe \/ Decide \/ Deleted \/ DispatchCreate
         \/ DispatchStatus \/ World
         \/ \E c \in Ids : DispatchDelete(c)
         \/ UNCHANGED vars
  PROVE  QueueInv'
  <1>1. UNCHANGED <<queue, count, procs, api, killed>>
    BY DEF Reduce, Observe, Decide, Deleted, DispatchCreate, DispatchStatus,
           World, NewVersion, ToggleBuilding, Toggle, RemoveResource, Die,
           DispatchDelete, vars, commands, controller
  <1>2. alive' \subseteq alive
    BY DEF Reduce, Observe, Decide, Deleted, DispatchCreate, DispatchStatus,
           World, NewVersion, ToggleBuilding, Toggle, RemoveResource, Die,
           DispatchDelete, vars, commands
  <1>3. busy' = busy \/ (busy' = Free /\ busy.step = "dispatch")
    BY DEF Reduce, Observe, Decide, Deleted, DispatchCreate, DispatchStatus,
           World, NewVersion, ToggleBuilding, Toggle, RemoveResource, Die,
           DispatchDelete, vars, commands
  <1>4. InUse' = InUse
    BY <1>1 DEF InUse
  <1>5. alive' \ killed' \subseteq InUse'
    BY <1>1, <1>2, <1>4 DEF QueueInv, OneInUse
  <1>6. /\ \A c \in InUse' : Stopping(c) => Stopping(c)'
        /\ busy'.step # "idle" => busy'.cmd \in 1..count
    BY <1>3 DEF Stopping, Free, QueueInv, QueueIsOld
  <1>7. 1 \in Ids
    BY LocalServeAssumption DEF Ids
  <1>8. QED
    BY <1>1, <1>4, <1>5, <1>6, <1>7, OrderKept

LEMMA DeleteKeepsOrder ==
  ASSUME IInv, QueueInv, NEW c \in Ids, Delete(c)
  PROVE  QueueInv'
  <1>1. UNCHANGED <<count, busy, procs, alive, killed>>
    BY DEF Delete
  <1>2. /\ c \in 1..count /\ api \in Objects
    BY DEF Delete, IInv, NamesAreOld, TypeOK
  <1>3. /\ queue' = IF api[c].exists THEN Added(queue, c) ELSE queue
        /\ api' = [api EXCEPT ![c].exists = FALSE]
    BY DEF Delete
  <1>4. \A d \in Ids : /\ api'[d].exists => api[d].exists
                       /\ d # c => api'[d] = api[d]
    BY <1>2, <1>3 DEF Objects
  <1>5. InUse' = InUse /\ InUse \subseteq Ids
    BY <1>1 DEF InUse
  <1>6. alive' \ killed' \subseteq InUse'
    BY <1>1, <1>5 DEF QueueInv, OneInUse
  <1>7. /\ \A d \in InUse' : Stopping(d) => Stopping(d)'
        /\ busy'.step # "idle" => busy'.cmd \in 1..count
    BY <1>1 DEF Stopping, QueueInv, QueueIsOld
  <1>8. queue' = queue \/ (queue' = Added(queue, c) /\ c \in 1..count)
    BY <1>2, <1>3
  <1>9. \A d \in InUse' : api[d].exists /\ ~api'[d].exists =>
                            d = c /\ queue' = Added(queue, c)
    BY <1>3, <1>4, <1>5
  <1>10. QED
    BY <1>1, <1>4, <1>5, <1>6, <1>7, <1>8, <1>9, OrderKept

\* A stop ends when the process is no longer in use; a status is written.
LEMMA WorkerKeepsOrder ==
  ASSUME IInv, QueueInv, EndStop \/ UpdateStatus
  PROVE  QueueInv'
  <1>1. UNCHANGED <<count, alive, killed>> /\ procs \in Procs /\ api \in Objects
    BY DEF EndStop, UpdateStatus, controller, IInv, TypeOK
  <1>2. busy.cmd \in 1..count /\ busy.cmd \in Ids
    BY DEF EndStop, UpdateStatus, QueueInv, QueueIsOld, IInv, NamesAreOld
  <1>3. CASE EndStop
    <2>1. /\ UNCHANGED <<api, queue>> /\ busy' = Free
          /\ procs[busy.cmd].phase \in {"none", "closed"}
          /\ procs' = [procs EXCEPT ![busy.cmd] = NoProc]
      BY <1>3 DEF EndStop
    <2>2. busy.cmd \notin InUse
      BY <2>1 DEF InUse
    <2>3. \A d \in Ids : procs'[d] = IF d = busy.cmd THEN NoProc ELSE procs[d]
      BY <1>1, <1>2, <2>1 DEF Procs
    <2>4. InUse' = InUse
      BY <2>2, <2>3 DEF InUse, NoProc
    <2>5. alive' \ killed' \subseteq InUse'
      BY <1>1, <2>4 DEF QueueInv, OneInUse
    <2>6. /\ \A d \in InUse' : ~Stopping(d)
          /\ busy'.step = "idle"
      BY <2>1, <2>2, <2>4 DEF Stopping, Free
    <2>7. QED
      BY <1>1, <1>2, <2>1, <2>4, <2>5, <2>6, OrderKept
  <1>4. CASE UpdateStatus
    <2>1. /\ procs' = procs /\ busy.step = "report"
          /\ queue' = queue \/ queue' = Added(queue, busy.cmd)
          /\ busy' = Free \/ busy' = [busy EXCEPT !.step = "dispatch"]
          /\ api' = api
               \/ api' = [api EXCEPT ![busy.cmd].status = procs[busy.cmd].status]
      BY <1>4 DEF UpdateStatus
    <2>2. \A d \in Ids : api'[d].exists = api[d].exists
      BY <1>1, <1>2, <2>1 DEF Objects
    <2>3. InUse' = InUse /\ InUse \subseteq Ids
      BY <2>1 DEF InUse
    <2>4. alive' \ killed' \subseteq InUse'
      BY <1>1, <2>3 DEF QueueInv, OneInUse
    <2>5. busy'.step # "idle" => busy'.cmd \in 1..count
      BY <1>2, <2>1 DEF Free, IInv, TypeOK, Busy
    <2>6. \A d \in InUse' : ~Stopping(d)
      BY <2>1 DEF Stopping
    <2>7. QED
      BY <1>1, <1>2, <2>1, <2>2, <2>3, <2>4, <2>5, <2>6, OrderKept
  <1>5. QED
    BY <1>3, <1>4

LEMMA GoroutineKeepsOrder ==
  ASSUME IInv, QueueInv, NEW c \in Ids, Goroutine(c)
  PROVE  QueueInv'
  <1>1. UNCHANGED <<count, busy, api>> /\ procs \in Procs
        /\ queue' = Added(queue, c)
    BY DEF Goroutine, StartProcess, EndProcess, controller, IInv, TypeOK
  <1>2. c \in InUse
    <2>1. CASE StartProcess(c)
      BY <2>1 DEF StartProcess, InUse
    <2>2. CASE EndProcess(c)
      BY <2>2 DEF EndProcess, InUse
    <2>3. QED
      BY <2>1, <2>2 DEF Goroutine
  <1>3. c \in 1..count
    BY <1>2 DEF QueueInv, QueueIsOld
  <1>4. InUse' \subseteq InUse /\ alive' \ killed' \subseteq InUse'
    <2>1. CASE StartProcess(c)
      <3>1. /\ procs' = [procs EXCEPT ![c].status = "running",
                 ![c].phase = IF @ = "starting" THEN "running" ELSE @]
            /\ alive' = alive \cup {c} /\ killed' = killed
            /\ procs[c].phase \in {"starting", "canceled"}
        BY <2>1 DEF StartProcess
      <3>2. /\ \A d \in Ids \ {c} : procs'[d] = procs[d]
            /\ procs'[c].phase \in {"running", "canceled"}
        BY <1>1, <3>1 DEF Procs
      <3>3. InUse' = InUse
        BY <1>2, <3>2 DEF InUse
      <3>4. QED
        BY <1>2, <3>1, <3>3 DEF QueueInv, OneInUse
    <2>2. CASE EndProcess(c)
      <3>1. /\ c \notin alive \/ c \in killed'
            /\ killed \subseteq killed' /\ alive' = alive
            /\ procs' = [procs EXCEPT ![c] = [status |-> "terminated",
                                              phase |-> "closed"]]
        BY <2>2 DEF EndProcess
      <3>2. /\ \A d \in Ids \ {c} : procs'[d] = procs[d]
            /\ procs'[c].phase = "closed"
        BY <1>1, <3>1 DEF Procs
      <3>3. InUse' = InUse \ {c}
        BY <3>2 DEF InUse
      <3>4. QED
        BY <3>1, <3>3 DEF QueueInv, OneInUse
    <2>3. QED
      BY <2>1, <2>2 DEF Goroutine
  <1>5. /\ \A d \in InUse' : Stopping(d) => Stopping(d)'
        /\ busy'.step # "idle" => busy'.cmd \in 1..count
    BY <1>1 DEF Stopping, QueueInv, QueueIsOld
  <1>6. InUse \subseteq Ids
    BY DEF InUse
  <1>7. QED
    BY <1>1, <1>3, <1>4, <1>5, <1>6, OrderKept

\* A new object goes behind those that are to be stopped.
LEMMA CreateKeepsOrder ==
  ASSUME IInv, QueueInv, Create
  PROVE  QueueInv'
  <1> DEFINE new == count + 1
  <1>1. /\ UNCHANGED <<busy, procs, alive, killed>>
        /\ new \in Ids /\ count' = new /\ queue' = Added(queue, new)
        /\ api' = [api EXCEPT ![new] =
             [exists |-> TRUE, version |-> server.version, status |-> "none"]]
        /\ server.step = "create"
    BY DEF Create
  <1>2. /\ queue \in Seq(Ids) /\ count \in Nat /\ api \in Objects
        /\ \A c \in Ids : ~api[c].exists
    BY <1>1, IdRules DEF IInv, TypeOK, SnapshotCovers, Existing
  <1>3. \A c \in Ids \ {new} : ~api'[c].exists
    BY <1>1, <1>2 DEF Objects
  <1>4. InUse' = InUse /\ InUse \subseteq Ids
    BY <1>1 DEF InUse
  <1>5. /\ 1..count \subseteq 1..new /\ new \notin 1..count /\ new \in 1..new
    BY <1>2
  <1>6. /\ \A i \in DOMAIN queue : i \in DOMAIN queue' /\ queue'[i] = queue[i]
        /\ \A j \in DOMAIN queue' :
             \/ j \in DOMAIN queue /\ queue'[j] = queue[j]
             \/ queue'[j] = new /\ \A i \in DOMAIN queue : i < j
    <2> HIDE DEF new
    <2>1. QED
      BY <1>1, <1>2, AddedIsLast
  <1>7. /\ \A i \in DOMAIN queue : queue[i] \in 1..count /\ queue[i] \in Ids
        /\ InUse \subseteq 1..count
    BY <1>2 DEF QueueInv, QueueIsOld
  <1> HIDE DEF new
  <1>8. OneInUse'
    BY <1>1, <1>4 DEF QueueInv, OneInUse
  <1>9. QueueIsOld'
    <2>1. \A i \in DOMAIN queue' : queue'[i] \in 1..new
      BY <1>5, <1>6, <1>7
    <2>2. busy.step # "idle" => busy.cmd \in 1..new
      BY <1>5 DEF QueueInv, QueueIsOld
    <2>3. QED
      BY <1>1, <1>4, <1>5, <1>7, <2>1, <2>2 DEF QueueIsOld
  <1>10. ASSUME NEW c \in InUse'
         PROVE  /\ \/ Stopping(c)'
                   \/ \E i \in DOMAIN queue' : queue'[i] = c
                /\ \A j \in DOMAIN queue' :
                     api'[queue'[j]].exists =>
                       \/ Stopping(c)'
                       \/ \E i \in DOMAIN queue' : i < j /\ queue'[i] = c
    <2>1. c \in Ids /\ ~api[c].exists
      BY <1>2, <1>4, <1>10
    <2>2. Stopping(c) \/ \E i \in DOMAIN queue : queue[i] = c
      BY <1>4, <1>10, <2>1 DEF QueueInv, StopsFirst
    <2>3. Stopping(c) => Stopping(c)'
      BY <1>1 DEF Stopping
    <2>4. ASSUME NEW j \in DOMAIN queue', api'[queue'[j]].exists
          PROVE  \A i \in DOMAIN queue : i < j
      <3>1. CASE j \in DOMAIN queue /\ queue'[j] = queue[j]
        BY <1>3, <1>5, <1>7, <2>4, <3>1
      <3>2. QED
        BY <1>6, <2>4, <3>1
    <2>5. QED
      BY <1>6, <2>2, <2>3, <2>4
  <1>11. StopsFirst'
    BY <1>10 DEF StopsFirst
  <1>12. QED
    BY <1>8, <1>9, <1>11 DEF QueueInv

\* When the worker comes to an object that is there, no other process is in use.
LEMMA TakeKeepsOrder ==
  ASSUME IInv, QueueInv, Take
  PROVE  QueueInv'
  <1>1. /\ queue \in Seq(Ids) /\ queue # <<>> /\ queue' = Tail(queue)
        /\ busy = Free /\ procs \in Procs
        /\ UNCHANGED <<count, api, alive, killed>>
    BY DEF IInv, TypeOK, Take, controller
  <1>2. PICK c \in Ids : c = Head(queue) /\ 1 \in DOMAIN queue /\ queue[1] = c
    BY <1>1, TakeRules
  <1>3. \A i \in DOMAIN queue' :
           i + 1 \in DOMAIN queue /\ queue'[i] = queue[i + 1]
    BY <1>1, TakeRules
  <1>4. /\ DOMAIN queue \subseteq Nat \ {0} /\ DOMAIN queue' \subseteq Nat
        /\ \A i \in DOMAIN queue :
             i = 1 \/ (i - 1 \in DOMAIN queue' /\ queue'[i - 1] = queue[i])
    <2>1. Len(queue) \in Nat /\ DOMAIN queue = 1..Len(queue)
      BY <1>1, LenProperties
    <2>2. /\ queue' \in Seq(Ids) /\ Len(queue') = Len(queue) - 1
      BY <1>1, HeadTailProperties
    <2>3. DOMAIN queue' = 1..(Len(queue) - 1)
      BY <2>2, LenProperties
    <2>4. ASSUME NEW i \in DOMAIN queue, i # 1
          PROVE  i - 1 \in DOMAIN queue' /\ queue'[i - 1] = queue[i]
      <3>1. i - 1 \in 1..(Len(queue) - 1) /\ (i - 1) + 1 = i
        BY <2>1, <2>4
      <3>2. i - 1 \in DOMAIN queue'
        BY <2>3, <3>1
      <3>3. QED
        BY <1>3, <3>1, <3>2
    <2>5. DOMAIN queue \subseteq Nat \ {0} /\ DOMAIN queue' \subseteq Nat
      BY <2>1, <2>3
    <2>6. QED
      BY <2>4, <2>5
  <1>5. c \in 1..count /\ \A i \in DOMAIN queue' : queue'[i] \in 1..count
    BY <1>2, <1>3 DEF QueueInv, QueueIsOld
  <1>6. \A d \in Ids : ~Stopping(d)
    BY <1>1 DEF Stopping, Free
  <1>7. InUse \subseteq Ids /\ InUse' \subseteq Ids
    BY DEF InUse
  <1>8. \A d \in InUse :
          \/ api[d].exists
          \/ \E i \in DOMAIN queue : queue[i] = d
    BY <1>6, <1>7 DEF QueueInv, StopsFirst
  <1>9. \A d \in InUse, j \in DOMAIN queue :
          api[queue[j]].exists /\ queue[j] # d =>
            \E i \in DOMAIN queue : i < j /\ queue[i] = d
    BY <1>6, <1>7 DEF QueueInv, StopsFirst
  <1>10. CASE ~api[c].exists
    <2>1. /\ busy' = [step |-> "stop", cmd |-> c]
          /\ procs' = [procs EXCEPT ![c].phase =
               IF @ \in {"starting", "running"} THEN "canceled" ELSE @]
      BY <1>2, <1>10 DEF Take
    <2>2. /\ \A d \in Ids \ {c} : procs'[d] = procs[d]
          /\ procs'[c].phase = IF procs[c].phase \in {"starting", "running"}
                               THEN "canceled" ELSE procs[c].phase
      BY <1>1, <1>2, <2>1 DEF Procs
    <2>3. InUse' = InUse
      BY <2>2 DEF InUse
    <2>4. Stopping(c)'
      BY <2>1 DEF Stopping
    <2>5. OneInUse'
      BY <1>1, <2>3 DEF QueueInv, OneInUse
    <2>6. QueueIsOld'
      BY <1>1, <1>5, <2>1, <2>3 DEF QueueInv, QueueIsOld
    <2>7. ASSUME NEW d \in InUse'
          PROVE  \/ api'[d].exists \/ Stopping(d)'
                 \/ \E i \in DOMAIN queue' : queue'[i] = d
      <3>1. CASE d = c
        BY <2>4, <3>1
      <3>2. CASE d # c
        <4>1. api[d].exists \/ \E i \in DOMAIN queue : queue[i] = d
          BY <1>8, <2>3, <2>7
        <4>2. \A i \in DOMAIN queue :
                queue[i] = d => i - 1 \in DOMAIN queue' /\ queue'[i - 1] = d
          BY <1>2, <1>4, <3>2
        <4>3. QED
          BY <1>1, <4>1, <4>2
      <3>3. QED
        BY <3>1, <3>2
    <2>8. ASSUME NEW d \in InUse', NEW j \in DOMAIN queue',
                 api'[queue'[j]].exists, queue'[j] # d
          PROVE  \/ Stopping(d)'
                 \/ \E i \in DOMAIN queue' : i < j /\ queue'[i] = d
      <3>1. CASE d = c
        BY <2>4, <3>1
      <3>2. CASE d # c
        <4>1. /\ j + 1 \in DOMAIN queue /\ api[queue[j + 1]].exists
              /\ queue[j + 1] # d
          BY <1>1, <1>3, <2>8
        <4>2. PICK i \in DOMAIN queue : i < j + 1 /\ queue[i] = d
          BY <1>9, <2>3, <2>8, <4>1
        <4>3. i # 1
          BY <1>2, <3>2, <4>2
        <4>4. i - 1 \in DOMAIN queue' /\ queue'[i - 1] = d
          BY <1>4, <4>2, <4>3
        <4>5. i - 1 < j
          BY <1>4, <2>8, <4>2
        <4>6. QED
          BY <4>4, <4>5
      <3>3. QED
        BY <3>1, <3>2
    <2>9. StopsFirst'
      BY <2>7, <2>8 DEF StopsFirst
    <2>10. QED
      BY <2>5, <2>6, <2>9 DEF QueueInv
  <1>11. CASE api[c].exists
    <2>1. /\ busy' = [step |-> "report", cmd |-> c]
          /\ procs' = IF procs[c] = NoProc
                      THEN [procs EXCEPT ![c] = [status |-> "waiting",
                                                 phase |-> "starting"]]
                      ELSE procs
      BY <1>2, <1>11 DEF Take
    <2>2. InUse \subseteq {c}
      <3>1. SUFFICES ASSUME NEW d \in InUse, d # c PROVE FALSE
        OBVIOUS
      <3>2. PICK i \in DOMAIN queue : i < 1 /\ queue[i] = d
        BY <1>2, <1>9, <1>11, <3>1
      <3>3. QED
        BY <1>4, <3>2
    <2>3. /\ \A d \in Ids \ {c} : procs'[d] = procs[d]
          /\ procs'[c] = procs[c] \/ procs'[c].phase = "starting"
      BY <1>1, <1>2, <2>1 DEF Procs
    <2>4. InUse \subseteq InUse' /\ InUse' \subseteq {c}
      BY <1>2, <2>2, <2>3 DEF InUse
    <2>5. OneInUse'
      BY <1>1, <2>4 DEF QueueInv, OneInUse
    <2>6. QueueIsOld'
      BY <1>1, <1>5, <2>1, <2>4 DEF QueueIsOld
    <2>7. \A j \in DOMAIN queue' : api'[queue'[j]].exists => queue'[j] = c
      <3>1. \A i \in DOMAIN queue : queue[i] \in Ids
        BY <1>1
      <3>2. QED
        BY <1>1, <1>2, <1>3, <1>11, <3>1 DEF IInv, OneCmd
    <2>8. StopsFirst'
      BY <1>1, <1>11, <2>4, <2>7 DEF StopsFirst
    <2>9. QED
      BY <2>5, <2>6, <2>8 DEF QueueInv
  <1>12. QED
    BY <1>10, <1>11

LEMMA OrderIsInductive == IInv /\ QueueInv /\ [Next]_vars => QueueInv'
  <1>1. SUFFICES ASSUME IInv, QueueInv, [Next]_vars PROVE QueueInv'
    OBVIOUS
  <1>2. CASE OnChange
    BY <1>1, <1>2, QuietStepsKeepOrder, DeleteKeepsOrder, CreateKeepsOrder
    DEF OnChange
  <1>3. CASE Reconcile
    BY <1>1, <1>3, TakeKeepsOrder, WorkerKeepsOrder, QuietStepsKeepOrder
    DEF Reconcile
  <1>4. CASE Reduce \/ World \/ UNCHANGED vars
    BY <1>1, <1>4, QuietStepsKeepOrder
  <1>5. CASE \E c \in Ids : Goroutine(c)
    BY <1>1, <1>5, GoroutineKeepsOrder
  <1>6. QED
    BY <1>1, <1>2, <1>3, <1>4, <1>5 DEF Next

\* Whatever happens to the resource, and although the engine forgets an object
\* before its process has ended: the work queue lets no process of the server
\* start before the one before it has ended or was killed.
THEOREM ServersTakeTurns == Spec => []ServersDoNotOverlap
  <1>1. Init => QueueInv
    <2>1. SUFFICES ASSUME Init PROVE QueueInv
      OBVIOUS
    <2>2. InUse = {} /\ alive = {} /\ DOMAIN queue = {} /\ busy.step = "idle"
      BY <2>1 DEF Init, InUse, NoProc, Free
    <2>3. QED
      BY <2>2 DEF QueueInv, OneInUse, StopsFirst, QueueIsOld
  <1>2. QueueInv => ServersDoNotOverlap
    BY DEF QueueInv, OneInUse, ServersDoNotOverlap
  <1>3. QED
    BY <1>1, <1>2, InitIInv, IInvIsInductive, OrderIsInductive, PTL DEF Spec

=============================================================================
