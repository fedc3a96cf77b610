----------------------------- MODULE Services_proofs -----------------------------
(***************************************************************************)
(* Proofs about the services of the daemon: the session manager, jobs.yaml  *)
(* and the scheduler, the file tools with their stamps, the journal with    *)
(* its transcripts, the workflow engine with the previews, and the          *)
(* migrations of the configuration.  They hold for any number of            *)
(* conversations, callers, session ids and exits of the agent, any number   *)
(* of tools, turns, sweepers, restarts, rules, clicks, crashes and failed   *)
(* writes, any size of table, buffer, batch and limit, and any directory a  *)
(* start may find.                                                          *)
(***************************************************************************)
EXTENDS SessionManager, Jobs, Journal, FileTools, Workflow, Migration,
        FiniteSetTheorems, WellFoundedInduction, TLAPS

-----------------------------------------------------------------------------
(* SessionManager: the table is a bounded set of bindings (SessionBindings). *)

\* The labels at which an actor keeps SessionManager.mu across a call.
Holding == {"init", "greeting", "open", "opening"}

\* The mutex is held exactly by the actor at one of those labels, whose
\* conversation, if it is opening one, has no session.
LockInv ==
    /\ \A a \in Actors : pc[a] \in Holding => mu = a
    /\ mu # None => pc[mu] \in Holding
    /\ \A a \in Callers : pc[a] \in Holding => session[KeyOf[a]] = None


-----------------------------------------------------------------------------
LEMMA UsedType ==
    ASSUME NEW k \in Keys, older \in SUBSET (Keys \X Keys)
    PROVE  Used(k) \in SUBSET (Keys \X Keys)
  BY DEF Used

\* Every variable keeps its type.
THEOREM TypeCorrect == Spec => []TypeOK
<1>1. Init => TypeOK
  <2> SUFFICES ASSUME Init PROVE TypeOK
    OBVIOUS
  <2>1. 0 \in 0..MaxExits
    BY ManagerAssumption
  <2>2. QED
    BY <2>1 DEF Init, TypeOK
<1>2. TypeOK /\ [Next]_vars => TypeOK'
  <2> SUFFICES ASSUME TypeOK, [Next]_vars PROVE TypeOK'
    OBVIOUS
  <2> USE ManagerAssumption DEF TypeOK, Actors, Goto, Bound, tableVars, processVars,
          verdictVars, vars
  <2>1. ASSUME NEW a \in Callers, FastPath(a) \/ SlowPath(a) PROVE TypeOK'
    BY <2>1, UsedType DEF FastPath, SlowPath, Reuse, Rechecked
  <2>2. ASSUME NEW a \in Actors, CallInitialize(a) \/ Initialized(a) \/ InitializeFails(a)
        PROVE TypeOK'
    BY <2>2 DEF CallInitialize, Initialized, InitializeFails, Remember, Started
  <2>3. ASSUME NEW a \in Callers, CallNewSession(a) \/ Prompt(a) PROVE TypeOK'
    BY <2>3 DEF CallNewSession, Prompt, Write, Started
  <2>4. ASSUME NEW a \in Callers, NewSession(a) PROVE TypeOK'
    BY <2>4, UsedType DEF NewSession, Without
  <2>5. ASSUME NEW a \in Callers, NewSessionFails(a) PROVE TypeOK'
    BY <2>5 DEF NewSessionFails, Without, Forgotten, Unlock
  <2>6. ASSUME NEW k \in Keys, Discard(k) PROVE TypeOK'
    BY <2>6 DEF Discard, Without, Forgotten
  <2>7. CASE Exit
    <3>1. exits' \in 0..MaxExits
      BY <2>7 DEF Exit
    <3>2. QED
      BY <2>7, <3>1 DEF Exit
  <2>8. CASE WarmUp
    BY <2>8 DEF WarmUp
  <2>9. CASE Resolve
    BY <2>9 DEF Resolve
  <2>10. CASE UNCHANGED vars
    BY <2>10
  <2>11. QED
    BY <2>1, <2>2, <2>3, <2>4, <2>5, <2>6, <2>7, <2>8, <2>9, <2>10 DEF Next
<1>3. QED
  BY <1>1, <1>2, PTL DEF Spec

-----------------------------------------------------------------------------
LEMMA LockNext == TypeOK /\ LockInv /\ [Next]_vars => LockInv'
<1> SUFFICES ASSUME TypeOK, LockInv, [Next]_vars PROVE LockInv'
  OBVIOUS
<1> USE ManagerAssumption DEF TypeOK, LockInv, Holding, Actors, Goto, tableVars, processVars,
        verdictVars, vars
<1>1. ASSUME NEW a \in Callers, FastPath(a) PROVE LockInv'
  BY <1>1 DEF FastPath, Reuse
<1>2. ASSUME NEW a \in Callers, SlowPath(a) PROVE LockInv'
  BY <1>2 DEF SlowPath, Reuse, Rechecked
<1>3. ASSUME NEW a \in Actors, CallInitialize(a) \/ Initialized(a) \/ InitializeFails(a)
      PROVE LockInv'
  BY <1>3 DEF CallInitialize, Initialized, InitializeFails
<1>4. ASSUME NEW a \in Callers, CallNewSession(a) \/ Prompt(a) PROVE LockInv'
  BY <1>4 DEF CallNewSession, Prompt
<1>5. ASSUME NEW a \in Callers, NewSession(a) \/ NewSessionFails(a) PROVE LockInv'
  BY <1>5 DEF NewSession, NewSessionFails, Unlock
<1>6. ASSUME NEW k \in Keys, Discard(k) PROVE LockInv'
  BY <1>6 DEF Discard, Without
<1>7. CASE WarmUp
  <2>1. CASE initialized
    BY <1>7, <2>1 DEF WarmUp
  <2>2. CASE ~initialized
    BY <1>7, <2>2 DEF WarmUp
  <2>3. QED
    BY <2>1, <2>2
<1>8. CASE Exit \/ Resolve \/ UNCHANGED vars
  BY <1>8 DEF Exit, Resolve
<1>9. QED
  BY <1>1, <1>2, <1>3, <1>4, <1>5, <1>6, <1>7, <1>8 DEF Next

LEMMA LockHolds == Spec => []LockInv
<1>1. Init => LockInv
  BY ManagerAssumption DEF Init, LockInv, Holding, Actors
<1>2. QED
  BY <1>1, LockNext, TypeCorrect, PTL DEF Spec

\* Every return of session() and Warm, on success or error, unlocks.
THEOREM MutexReleased == Spec => []LockReleased
<1>1. LockInv => LockReleased
  BY DEF LockInv, LockReleased, Holding
<1>2. QED
  BY <1>1, LockHolds, PTL

-----------------------------------------------------------------------------
(* Whoever is about to write a request, and whoever may reuse a session, got *)
(* there after initialize succeeded; and initialize succeeds on the process *)
(* that answered it, which is still the one running if none ever exited.    *)

GreetInv ==
    /\ \A a \in Callers : pc[a] \in {"open", "opening", "have"} => initialized
    /\ \A k \in Keys : session[k] # None => initialized
    /\ exits = 0 /\ initialized => started /\ greeted
    /\ GreetedFirst

LEMMA GreetNext == TypeOK /\ GreetInv /\ [Next]_vars => GreetInv'
<1> SUFFICES ASSUME TypeOK, GreetInv, [Next]_vars PROVE GreetInv'
  OBVIOUS
<1> USE ManagerAssumption DEF TypeOK, GreetInv, GreetedFirst, Actors, Goto, Started, Write,
        tableVars, processVars, verdictVars, vars
<1>1. ASSUME NEW a \in Callers, FastPath(a) \/ SlowPath(a) PROVE GreetInv'
  <2>1. CASE FastPath(a)
    BY <1>1, <2>1 DEF FastPath, Reuse
  <2>2. CASE SlowPath(a)
    <3>1. CASE Reuse(a)
      BY <2>2, <3>1 DEF SlowPath, Reuse
    <3>2. CASE UNCHANGED tableVars /\ Goto(a, IF initialized THEN "open" ELSE "init")
      <4>1. CASE initialized
        BY <2>2, <3>2, <4>1 DEF SlowPath
      <4>2. CASE ~initialized
        BY <2>2, <3>2, <4>2 DEF SlowPath
      <4>3. QED
        BY <4>1, <4>2
    <3>3. QED
      BY <2>2, <3>1, <3>2 DEF SlowPath
  <2>3. QED
    BY <1>1, <2>1, <2>2
<1>2. ASSUME NEW a \in Actors, CallInitialize(a) \/ Initialized(a) \/ InitializeFails(a)
      PROVE GreetInv'
  <2>1. CASE CallInitialize(a)
    BY <2>1 DEF CallInitialize
  <2>2. CASE Initialized(a)
    BY <2>2 DEF Initialized
  <2>3. CASE InitializeFails(a)
    BY <2>3 DEF InitializeFails, Remember
  <2>4. QED
    BY <1>2, <2>1, <2>2, <2>3
<1>3. ASSUME NEW a \in Callers, CallNewSession(a) PROVE GreetInv'
  BY <1>3 DEF CallNewSession
<1>4. ASSUME NEW a \in Callers, NewSession(a) \/ NewSessionFails(a) PROVE GreetInv'
  BY <1>4 DEF NewSession, NewSessionFails, Without, Unlock
<1>5. ASSUME NEW a \in Callers, Prompt(a) PROVE GreetInv'
  BY <1>5 DEF Prompt
<1>6. ASSUME NEW k \in Keys, Discard(k) PROVE GreetInv'
  BY <1>6 DEF Discard, Without
<1>7. CASE Exit
  <2>1. exits' # 0
    BY <1>7 DEF Exit
  <2>2. QED
    BY <1>7, <2>1 DEF Exit
<1>8. CASE WarmUp
  <2>1. \A a \in Callers : pc'[a] = pc[a]
    BY <1>8 DEF WarmUp
  <2>2. QED
    BY <1>8, <2>1 DEF WarmUp
<1>9. CASE Resolve
  <2>1. \A a \in Callers : pc'[a] = pc[a]
    BY <1>9 DEF Resolve
  <2>2. QED
    BY <1>9, <2>1 DEF Resolve
<1>10. CASE UNCHANGED vars
  BY <1>10
<1>11. QED
  BY <1>1, <1>2, <1>3, <1>4, <1>5, <1>6, <1>7, <1>8, <1>9, <1>10 DEF Next

\* No request reaches a process that has not answered initialize, while the
\* first process runs.
THEOREM NoStrangers == Spec => []GreetedFirst
<1>1. Init => GreetInv
  BY ManagerAssumption DEF Init, GreetInv, GreetedFirst, Actors
<1>2. GreetInv => GreetedFirst
  BY DEF GreetInv
<1>3. QED
  BY <1>1, <1>2, GreetNext, TypeCorrect, PTL DEF Spec

-----------------------------------------------------------------------------
(* What a step does to the table.                                           *)

\* The abstract specification's cardinality is the manager's.
LEMMA SameCardinality == \A S : Bindings!Cardinality(S) = Cardinality(S)
  BY DEF Bindings!Cardinality, Cardinality

\* A conversation added to a set with room leaves it within the capacity.
LEMMA OneMoreFits ==
    ASSUME NEW S \in SUBSET Keys, NEW k \in Keys, Room(S)
    PROVE  Cardinality(S \cup {k}) <= MaxSessions
<1>1. IsFiniteSet(S)
  BY ManagerAssumption, FS_Subset
<1>2. Cardinality(S) \in Nat
  BY <1>1, FS_CardinalityType
<1>3. \/ Cardinality(S \cup {k}) = Cardinality(S)
      \/ Cardinality(S \cup {k}) = Cardinality(S) + 1
  BY <1>1, FS_AddElement
<1>4. QED
  BY <1>2, <1>3, ManagerAssumption DEF Room

\* Opening a session is a Bind of SessionBindings.
LEMMA OpeningBinds ==
    ASSUME TypeOK, LockInv, NEW a \in Callers, NewSession(a)
    PROVE  /\ \E id \in Ids : Bindings!Bind(KeyOf[a], id)
           /\ WithinCapacity'
<1>1. PICK id \in Ids \ issued, D \in SUBSET Bound :
         /\ Room(Bound \ D)
         /\ session' = [Without(D) EXCEPT ![KeyOf[a]] = id]
         /\ issued' = issued \cup {id}
  BY DEF NewSession, Evicted
<1>2. KeyOf[a] \in Keys /\ session[KeyOf[a]] = None
  BY ManagerAssumption DEF LockInv, Holding, NewSession
<1>3. Bound' = (Bound \ D) \cup {KeyOf[a]}
  BY <1>1, <1>2, ManagerAssumption DEF TypeOK, Bound, Without
<1>4. Cardinality(Bound') <= MaxSessions
  BY <1>1, <1>2, <1>3, OneMoreFits DEF Bound
<1>5. D \in SUBSET Keys /\ Without(D) = Bindings!Drop(D)
  BY DEF Bound, Without, Bindings!Drop
<1>6. Bindings!Bind(KeyOf[a], id)
  BY <1>1, <1>2, <1>4, <1>5, SameCardinality DEF Bindings!Bind, Bound
<1>7. QED
  BY <1>1, <1>4, <1>6 DEF WithinCapacity

\* Dropping conversations keeps the table within its capacity.
LEMMA DroppingFits ==
    ASSUME TypeOK, WithinCapacity, NEW D \in SUBSET Keys, session' = Without(D)
    PROVE  WithinCapacity'
<1>1. Bound' \subseteq Bound
  BY DEF TypeOK, Bound, Without
<1>2. IsFiniteSet(Bound)
  BY ManagerAssumption, FS_Subset DEF Bound
<1>3. IsFiniteSet(Bound') /\ Cardinality(Bound') <= Cardinality(Bound)
  BY <1>1, <1>2, FS_Subset
<1>4. Cardinality(Bound) \in Nat /\ Cardinality(Bound') \in Nat
  BY <1>2, <1>3, FS_CardinalityType
<1>5. QED
  BY <1>3, <1>4, ManagerAssumption DEF WithinCapacity

\* Every other step forgets some bindings, or leaves the table alone.
LEMMA OtherStepsForget ==
    ASSUME TypeOK, [Next]_vars, \A a \in Callers : ~NewSession(a)
    PROVE  \/ UNCHANGED <<session, issued>>
           \/ \E D \in SUBSET Keys : session' = Without(D) /\ UNCHANGED issued
<1>1. ASSUME NEW a \in Callers, NewSessionFails(a)
      PROVE  \E D \in SUBSET Keys : session' = Without(D) /\ UNCHANGED issued
  BY <1>1 DEF NewSessionFails, Bound
<1>2. ASSUME NEW k \in Keys, Discard(k)
      PROVE  \E D \in SUBSET Keys : session' = Without(D) /\ UNCHANGED issued
  BY <1>2 DEF Discard
<1>3. ASSUME NEW a \in Callers,
             FastPath(a) \/ SlowPath(a) \/ CallNewSession(a) \/ Prompt(a)
      PROVE  UNCHANGED <<session, issued>>
  BY <1>3 DEF FastPath, SlowPath, Reuse, CallNewSession, Prompt, tableVars
<1>4. ASSUME NEW a \in Actors, CallInitialize(a) \/ Initialized(a) \/ InitializeFails(a)
      PROVE  UNCHANGED <<session, issued>>
  BY <1>4 DEF CallInitialize, Initialized, InitializeFails, tableVars
<1>5. CASE WarmUp \/ Resolve \/ Exit \/ UNCHANGED vars
  BY <1>5 DEF WarmUp, Resolve, Exit, tableVars, vars
<1>6. QED
  BY <1>1, <1>2, <1>3, <1>4, <1>5 DEF Next

\* The capacity holds however opening, eviction and Discard interleave.
THEOREM CapacityHolds == Spec => []WithinCapacity
<1>1. Init => WithinCapacity
  <2>1. ASSUME Init PROVE Bound = {}
    BY <2>1 DEF Init, Bound
  <2>2. QED
    BY <2>1, FS_EmptySet, ManagerAssumption DEF WithinCapacity
<1>2. TypeOK /\ LockInv /\ WithinCapacity /\ [Next]_vars => WithinCapacity'
  <2> SUFFICES ASSUME TypeOK, LockInv, WithinCapacity, [Next]_vars PROVE WithinCapacity'
    OBVIOUS
  <2>1. CASE \E a \in Callers : NewSession(a)
    BY <2>1, OpeningBinds
  <2>2. CASE UNCHANGED session
    BY <2>2 DEF WithinCapacity, Bound
  <2>3. CASE \E D \in SUBSET Keys : session' = Without(D)
    BY <2>3, DroppingFits
  <2>4. QED
    BY <2>1, <2>2, <2>3, OtherStepsForget
<1>3. QED
  BY <1>1, <1>2, TypeCorrect, LockHolds, PTL DEF Spec

-----------------------------------------------------------------------------
\* The session manager implements SessionBindings: a conversation has one
\* session at a time, a session one conversation, and the table a bound.
THEOREM ManagerImplementsBindings == Spec => BindingsKept
<1>1. Init => Bindings!Init
  BY DEF Init, Bindings!Init
<1>2. TypeOK /\ LockInv /\ [Next]_vars => [Bindings!Next]_<<session, issued>>
  <2> SUFFICES ASSUME TypeOK, LockInv, [Next]_vars
               PROVE  [Bindings!Next]_<<session, issued>>
    OBVIOUS
  <2>1. CASE \E a \in Callers : NewSession(a)
    <3>1. PICK a \in Callers : NewSession(a)
      BY <2>1
    <3>2. PICK id \in Ids : Bindings!Bind(KeyOf[a], id)
      BY <3>1, OpeningBinds
    <3>3. KeyOf[a] \in Keys
      BY ManagerAssumption
    <3>4. QED
      BY <3>2, <3>3 DEF Bindings!Next
  <2>2. ASSUME NEW D \in SUBSET Keys, session' = Without(D), UNCHANGED issued
        PROVE  Bindings!Forget
    BY <2>2 DEF Bindings!Forget, Bindings!Drop, Without
  <2>3. QED
    BY <2>1, <2>2, OtherStepsForget DEF Bindings!Next
<1>3. QED
  BY <1>1, <1>2, TypeCorrect, LockHolds, PTL DEF Spec, Bindings!Spec, BindingsKept

-----------------------------------------------------------------------------
(* Jobs.                                                                    *)

\* A job may be in jobs.yaml: the daemon accepts it, and it is held unless it is the
\* one the operator wrote under that name.
Trusted(n, p) == p.held \/ (n \in DOMAIN HandWritten /\ p = HandWritten[n])
GoodTable(jobs) == \A n \in DOMAIN jobs : ValidJob(jobs[n]) /\ Trusted(n, jobs[n])

\* While no write was cut short or met another's; and the operator's jobs and those that
\* were defined are all there, while no definition began during another, except for the
\* one that is being written.
TableInv ==
    /\ DOMAIN define = Definers
    /\ \A d \in Definers : Writes(d) =>
          define[d] = [at |-> define[d].at, name |-> define[d].name, jobs |-> define[d].jobs]
    /\ disturbed # "spoiled" =>
         /\ text # "garbled" /\ daemon # "refused"
         /\ GoodTable(file)
         /\ \A d \in Definers : Writes(d) => GoodTable(define[d].jobs)
    /\ disturbed = "no" =>
         /\ \A d, e \in Definers : Writes(d) /\ Writes(e) => d = e
         /\ \A d \in Definers : Writes(d) =>
              define[d].jobs = [m \in DOMAIN kept \cup {define[d].name} |->
                                  IF m = define[d].name THEN define[d].jobs[m] ELSE kept[m]]
         /\ file = kept \/ \E d \in Definers : define[d].at = "truncated"

LEMMA AcceptedIsGood ==
    ASSUME NEW n, NEW r, AcceptedRequest(r), GoodTable(file)
    PROVE  GoodTable([m \in DOMAIN file \cup {n} |->
                         IF m = n THEN JobProfile(r, Stamp(n, file)) ELSE file[m]])
  BY DEF AcceptedRequest, GoodTable, ValidJob, Trusted, JobProfile, Stamp

LEMMA TableNext ==
    ASSUME TableInv, [JobsNext]_jobVars
    PROVE  TableInv'
<1> USE DEF TableInv
<1>1. ASSUME NEW d \in Definers, NEW n \in Names, NEW r \in Requests, ReadJobs(d, n, r)
      PROVE  TableInv'
  <2> DEFINE jobs == [m \in DOMAIN file \cup {n} |->
                         IF m = n THEN JobProfile(r, Stamp(n, file)) ELSE file[m]]
  <2>1. UNCHANGED <<text, file, daemon, kept>> /\ DOMAIN define' = Definers
        /\ \A e \in Definers : e # d => define'[e] = define[e]
    BY <1>1 DEF ReadJobs
  <2>2. ~Writes(d) /\ \A e \in Definers : e # d => (Writes(e)' <=> Writes(e))
    BY <1>1, <2>1 DEF ReadJobs, Writes
  <2>3. CASE define' = [define EXCEPT ![d] = Invoked] /\ UNCHANGED disturbed
    <3>1. ~Writes(d)' /\ define[d].at # "truncated"
      BY <1>1, <2>3 DEF Writes, Invoked, ReadJobs
    <3>2. QED
      BY <2>1, <2>2, <2>3, <3>1 DEF GoodTable
  <2>4. CASE /\ AcceptedRequest(r)
             /\ define' = [define EXCEPT ![d] = [at |-> "read", name |-> n, jobs |-> jobs]]
             /\ IF \E e \in Definers : Writes(e) THEN Disturb("overlap") ELSE UNCHANGED disturbed
    <3>1. define'[d] = [at |-> "read", name |-> n, jobs |-> jobs]
      BY <2>4
    <3>2. GoodTable(file) => GoodTable(jobs)
      BY <2>4, AcceptedIsGood
    <3>3. DOMAIN jobs = DOMAIN file \cup {n} /\ \A m \in DOMAIN file : m # n => jobs[m] = file[m]
      OBVIOUS
    <3>4. jobs = [m \in DOMAIN file \cup {n} |-> IF m = n THEN jobs[m] ELSE file[m]]
      OBVIOUS
    <3> HIDE DEF jobs
    <3>5. Writes(d)'
      BY <3>1 DEF Writes
    <3>6. /\ disturbed' = "no" => disturbed = "no" /\ \A e \in Definers : ~Writes(e)
          /\ disturbed' # "spoiled" => disturbed # "spoiled"
      BY <2>4 DEF Disturb
    <3>7. disturbed' = "no" => file = kept
      BY <3>6 DEF Writes
    <3>8. disturbed' # "spoiled" =>
             /\ text' # "garbled" /\ daemon' # "refused" /\ GoodTable(file)'
             /\ \A e \in Definers : Writes(e)' => GoodTable(define'[e].jobs)
      BY <2>1, <2>2, <3>1, <3>2, <3>6 DEF GoodTable
    <3>9. disturbed' = "no" =>
            /\ \A e \in Definers : Writes(e)' => e = d
            /\ define'[d].jobs = [m \in DOMAIN kept' \cup {define'[d].name} |->
                                    IF m = define'[d].name THEN define'[d].jobs[m] ELSE kept'[m]]
      BY <2>1, <2>2, <3>1, <3>4, <3>6, <3>7
    <3>10. \A e \in Definers : Writes(e)' =>
             define'[e] = [at |-> define'[e].at, name |-> define'[e].name, jobs |-> define'[e].jobs]
      BY <2>1, <2>2, <3>1
    <3>11. QED
      BY <2>1, <3>7, <3>8, <3>9, <3>10
  <2>5. QED
    BY <1>1, <2>3, <2>4 DEF ReadJobs
<1>2. ASSUME NEW d \in Definers, Truncate(d) PROVE TableInv'
  <2>1. UNCHANGED <<daemon, kept, disturbed>> /\ text' = "empty" /\ GoodTable(file)'
    BY <1>2 DEF Truncate, NoJobs, GoodTable
  <2>2. Writes(d)
        /\ define[d] = [at |-> define[d].at, name |-> define[d].name, jobs |-> define[d].jobs]
    BY <1>2 DEF Truncate, Writes
  <2>3. DOMAIN define' = Definers /\ \A e \in Definers : e # d => define'[e] = define[e]
    BY <1>2 DEF Truncate
  <2>4. define'[d] = [at |-> "truncated", name |-> define[d].name, jobs |-> define[d].jobs]
    BY <1>2, <2>2 DEF Truncate
  <2>5. \A e \in Definers : (Writes(e)' <=> Writes(e)) /\ define'[e].jobs = define[e].jobs
                           /\ define'[e].name = define[e].name
    BY <2>2, <2>3, <2>4 DEF Writes
  <2>6. \A e \in Definers : Writes(e)' =>
          define'[e] = [at |-> define'[e].at, name |-> define'[e].name, jobs |-> define'[e].jobs]
    BY <2>3, <2>4, <2>5
  <2>7. disturbed' = "no" => \A e \in Definers : Writes(e)' =>
          define'[e].jobs = [m \in DOMAIN kept' \cup {define'[e].name} |->
                              IF m = define'[e].name THEN define'[e].jobs[m] ELSE kept'[m]]
    BY <2>1, <2>5
  <2>8. QED
    BY <2>1, <2>3, <2>4, <2>5, <2>6, <2>7
<1>3. ASSUME NEW d \in Definers, WriteJobs(d) PROVE TableInv'
  <2>1. UNCHANGED <<daemon, disturbed>> /\ text' = "yaml" /\ file' = define[d].jobs /\ Writes(d)
    BY <1>3 DEF WriteJobs, Writes
  <2>2. DOMAIN define' = Definers /\ define'[d] = Invoked
        /\ \A e \in Definers : e # d => define'[e] = define[e]
    BY <1>3 DEF WriteJobs
  <2>3. ~Writes(d)' /\ \A e \in Definers : e # d => (Writes(e)' <=> Writes(e))
    BY <2>2 DEF Writes, Invoked
  <2>4. kept' = [m \in DOMAIN kept \cup {define[d].name} |->
                  IF m = define[d].name THEN define[d].jobs[m] ELSE kept[m]]
    BY <1>3 DEF WriteJobs
  <2>5. disturbed' # "spoiled" => GoodTable(file)'
    BY <2>1 DEF GoodTable
  <2>6. disturbed' = "no" => file' = kept'
    <3> SUFFICES ASSUME disturbed' = "no" PROVE file' = kept'
      OBVIOUS
    <3>1. define[d].jobs = [m \in DOMAIN kept \cup {define[d].name} |->
                             IF m = define[d].name THEN define[d].jobs[m] ELSE kept[m]]
      BY <2>1
    <3>2. QED
      BY <2>1, <2>4, <3>1
  <2>7. disturbed' = "no" => \A e \in Definers : ~Writes(e)'
    BY <2>1, <2>3
  <2>8. QED
    BY <2>1, <2>2, <2>3, <2>5, <2>6, <2>7
<1>4. ASSUME NEW d \in Definers, Overwrite(d) \/ WriteCut(d) PROVE TableInv'
  <2>1. disturbed' = "spoiled"
    BY <1>4 DEF Overwrite, WriteCut, Spoil, Disturb
  <2>2. DOMAIN define' = Definers /\ define'[d] = Invoked
        /\ \A e \in Definers : e # d => define'[e] = define[e]
    BY <1>4 DEF Overwrite, WriteCut
  <2>3. QED
    BY <2>1, <2>2 DEF Writes, Invoked
<1>5. CASE Start
  <2>1. UNCHANGED fileVars
    BY <1>5 DEF Start
  <2>2. text # "garbled" /\ GoodTable(file) => daemon' = "up"
    BY <1>5 DEF Start, GoodTable
  <2>3. QED
    BY <2>1, <2>2 DEF fileVars, GoodTable, Writes
<1>6. CASE Stop \/ AgentReturns \/ \E n \in Names :
             FireJob(n) \/ Approve(n) \/ NotApproved(n) \/ Run(n) \/ AgentCalls(n)
  <2>1. UNCHANGED fileVars /\ (UNCHANGED daemon \/ daemon' = "down")
    BY <1>6 DEF Stop, AgentReturns, FireJob, Approve, NotApproved, Run, AgentCalls
  <2>2. QED
    BY <2>1 DEF fileVars, GoodTable, Writes
<1>7. CASE UNCHANGED jobVars
  BY <1>7 DEF jobVars, fileVars, GoodTable, Writes
<1>8. QED
  BY <1>1, <1>2, <1>3, <1>4, <1>5, <1>6, <1>7 DEF JobsNext

LEMMA TableAlways == JobsSpec => []TableInv
<1>1. JobsInit => TableInv
  BY JobsAssumption DEF JobsInit, TableInv, GoodTable, Trusted, Writes, Idle
<1>2. TableInv /\ [JobsNext]_jobVars => TableInv'
  BY TableNext
<1>3. QED
  BY <1>1, <1>2, PTL DEF JobsSpec

\* Unless a write of jobs.yaml is cut short or meets another's, no sequence of definitions
\* keeps the daemon from starting again, from however many processes and however they
\* interleave; and while no two of them overlap none is lost.
THEOREM DaemonStarts == JobsSpec => []DefinitionsLoad
<1>1. TableInv => DefinitionsLoad
  BY DEF TableInv, DefinitionsLoad
<1>2. QED
  BY <1>1, TableAlways, PTL

\* What the scheduler may execute: only a running daemon has approved anything, and what
\* is confirmed or runs although it is held was approved with its command.  A call that
\* was not asked about is one of a job that is not held.
Approved(n) == <<n, snapshot[n].command>> \in approvals

ApprovalInv ==
    /\ entry \in [Names -> {"none", "waiting", "asking", "running"}]
    /\ confirmed \subseteq Names
    /\ daemon # "up" => confirmed = {} /\ jobCall = NoJobCall /\ \A n \in Names : entry[n] = "none"
    /\ \A n \in confirmed : Approved(n)
    /\ \A n \in Names : entry[n] = "running" /\ snapshot[n].held => Approved(n)
    /\ jobCall # NoJobCall /\ jobCall.consent = "none" => ~RequiresApproval(jobCall.name)

LEMMA ApprovalNext ==
    ASSUME ApprovalInv, [JobsNext]_jobVars
    PROVE  ApprovalInv'
<1> USE DEF ApprovalInv, Approved, RequiresApproval, Lookup
<1>1. ASSUME NEW d \in Definers,
             \/ Truncate(d) \/ WriteJobs(d) \/ Overwrite(d) \/ WriteCut(d)
             \/ \E n \in Names, r \in Requests : ReadJobs(d, n, r)
      PROVE  ApprovalInv'
  <2>1. UNCHANGED <<daemon, snapshot, runVars>>
    BY <1>1 DEF Truncate, WriteJobs, Overwrite, WriteCut, ReadJobs
  <2>2. QED
    BY <2>1 DEF runVars
<1>2. CASE Start
  BY <1>2 DEF Start
<1>3. CASE Stop
  BY <1>3 DEF Stop, Forget
<1>4. ASSUME NEW n \in Names, FireJob(n) PROVE ApprovalInv'
  BY <1>4 DEF FireJob, AwaitingConfirmation
<1>5. ASSUME NEW n \in Names, Approve(n) PROVE ApprovalInv'
  BY <1>5 DEF Approve
<1>6. ASSUME NEW n \in Names, NotApproved(n) \/ Run(n) PROVE ApprovalInv'
  BY <1>6 DEF NotApproved, Run
<1>7. ASSUME NEW n \in Names, AgentCalls(n) PROVE ApprovalInv'
  <2>1. UNCHANGED <<entry, confirmed, daemon, snapshot, approvals>> /\ daemon = "up"
    BY <1>7 DEF AgentCalls
  <2>2. jobCall'.consent = "none" => ~RequiresApproval(jobCall'.name)
    BY <1>7 DEF AgentCalls
  <2>3. QED
    BY <2>1, <2>2
<1>8. CASE AgentReturns
  BY <1>8 DEF AgentReturns
<1>9. CASE UNCHANGED jobVars
  BY <1>9 DEF jobVars, fileVars, runVars
<1>10. QED
  BY <1>1, <1>2, <1>3, <1>4, <1>5, <1>6, <1>7, <1>8, <1>9 DEF JobsNext

\* The scheduler never runs a command an agent wrote into jobs.yaml on trust that was given
\* to another command, by another process, to its operator, or to an agent's call; and a
\* session that can ask does not run one unasked.
THEOREM HeldJobsWait == JobsSpec => []HeldUntilApproved
<1>1. JobsInit => ApprovalInv
  BY DEF JobsInit, ApprovalInv
<1>2. ApprovalInv /\ [JobsNext]_jobVars => ApprovalInv'
  BY ApprovalNext
<1>3. ApprovalInv => ApprovedCommandRuns
  BY DEF ApprovalInv, Approved, ApprovedCommandRuns, RequiresApproval, Executed, Lookup
<1>4. TableInv => RedefinedIsHeld
  BY DEF TableInv, GoodTable, Trusted, RedefinedIsHeld
<1>5. QED
  BY <1>1, <1>2, <1>3, <1>4, TableAlways, PTL DEF JobsSpec, HeldUntilApproved

-----------------------------------------------------------------------------
(* The file tools.                                                          *)

CallType == [tool : {"read", "write", "edit"}, at : {"start", "open", "load", "put", "mark"},
             file : Files, stamp : Nat, content : SUBSET Nat, change : Nat]

FilesType ==
    /\ disk \in [Files -> [present : BOOLEAN, content : SUBSET Nat, stamp : Nat]]
    /\ DOMAIN stamps \subseteq Files /\ \A f \in DOMAIN stamps : stamps[f] \in Nat
    /\ call \in [ToolUsers -> CallType \cup {NoCall}]
    /\ vouched \in [Files -> SUBSET Nat] /\ lost \in [Files -> SUBSET Nat]
    /\ calls \in Nat /\ outside \in Nat

\* What the file f holds belongs to versions a tool has read or written, or was written
\* under a tool's hands.
Known(f) == disk[f].content \subseteq vouched[f] \/ f \in raced

FilesInv ==
    /\ \A f \in Files : ~disk[f].present => disk[f].content = {}
    \* a stamp is never newer than its file, and vouches for a file that has it
    /\ \A f \in DOMAIN stamps : stamps[f] <= disk[f].stamp
          /\ (stamps[f] = disk[f].stamp => Known(f))
    /\ \A c \in ToolUsers : At(c, "read", "open") \/ At(c, "read", "mark") =>
          call[c].stamp <= On(c).stamp
    /\ \A c \in ToolUsers : At(c, "read", "mark") /\ call[c].stamp = On(c).stamp =>
          On(c).content \subseteq call[c].content
    /\ \A f \in Files : Writing(f) => Known(f)
    /\ NothingUnreadLost

LEMMA NoCallIsNone == ASSUME NEW x \in CallType \cup {NoCall}
                      PROVE  x # NoCall <=> x \in CallType /\ x.tool \in {"read", "write", "edit"}
  BY DEF CallType, NoCall

\* What a write or an edit does when it succeeds.
Wrote(c) ==
    /\ disk' = [disk EXCEPT ![File(c)] =
                  [present |-> TRUE, content |-> New(c), stamp |-> On(c).stamp + 1]]
    /\ lost' = [lost EXCEPT ![File(c)] = lost[File(c)] \cup (On(c).content \ New(c))]
    /\ vouched' = [vouched EXCEPT ![File(c)] = vouched[File(c)] \cup New(c)]
    /\ To(c, "mark")

LEMMA PutEffect ==
    ASSUME FilesType, NEW c \in ToolUsers, call[c] \in CallType, Put(c)
    PROVE  (Return(c) /\ UNCHANGED <<disk, vouched, lost>>) \/ Wrote(c)
<1>1. DOMAIN disk = Files /\ DOMAIN lost = Files /\ DOMAIN vouched = Files /\ File(c) \in Files
  BY DEF FilesType, File, CallType
<1>2. QED
  BY <1>1 DEF Put, Wrote, On

\* One conversation's step in its call; the others' calls are what they were.
LEMMA FilesTypeNext ==
    ASSUME FilesType, [FilesNext]_fvars
    PROVE  FilesType'
<1> USE DEF FilesType, Counted
<1>1. ASSUME NEW c \in ToolUsers, NEW f \in Files, NEW tool \in {"read", "write", "edit"},
             Begin(c, tool, f)
      PROVE  FilesType'
  <2>1. Change \in Nat
    BY DEF Change
  <2>2. QED
    BY <1>1, <2>1 DEF Begin, CallType
<1>2. ASSUME NEW c \in ToolUsers, call[c] # NoCall,
             \/ ReadStat(c) \/ ReadScan(c) \/ WriteCheck(c) \/ EditCheck(c) \/ EditLoad(c)
      PROVE  FilesType'
  <2>1. call[c] \in CallType /\ On(c).stamp \in Nat /\ On(c).content \in SUBSET Nat
    BY <1>2, NoCallIsNone DEF On, File, CallType
  <2>2. call' \in [ToolUsers -> CallType \cup {NoCall}]
    BY <1>2, <2>1 DEF ReadStat, ReadScan, WriteCheck, EditCheck, EditLoad, Return, To, CallType
  <2>3. QED
    BY <1>2, <2>2 DEF ReadStat, ReadScan, WriteCheck, EditCheck, EditLoad
<1>3. ASSUME NEW c \in ToolUsers, call[c] # NoCall, ReadMark(c) PROVE FilesType'
  <2>1. call[c] \in CallType
    BY <1>3, NoCallIsNone
  <2>2. QED
    BY <1>3, <2>1 DEF ReadMark, Return, Stamped, ReadStamp, File, CallType
<1>4. ASSUME NEW c \in ToolUsers, call[c] # NoCall, Put(c) PROVE FilesType'
  <2>1. call[c] \in CallType
    BY <1>4, NoCallIsNone
  <2>2. CASE Return(c) /\ UNCHANGED <<disk, vouched, lost>>
    BY <1>4, <2>2 DEF Put, Return
  <2>3. CASE Wrote(c)
    <3>1. New(c) \in SUBSET Nat /\ File(c) \in Files /\ On(c).content \in SUBSET Nat
          /\ On(c).stamp \in Nat
      BY <2>1 DEF New, File, On, CallType
    <3>2. call' \in [ToolUsers -> CallType \cup {NoCall}]
      <4>1. [call[c] EXCEPT !.at = "mark"] \in CallType
        BY <2>1 DEF CallType
      <4>2. QED
        BY <2>3, <4>1 DEF Wrote, To
    <3>3. disk' \in [Files -> [present : BOOLEAN, content : SUBSET Nat, stamp : Nat]]
      BY <2>3, <3>1 DEF Wrote
    <3>4. vouched' \in [Files -> SUBSET Nat] /\ lost' \in [Files -> SUBSET Nat]
      BY <2>3, <3>1 DEF Wrote
    <3>5. QED
      BY <1>4, <3>2, <3>3, <3>4 DEF Put
  <2>4. QED
    BY <1>4, <2>2, <2>3, PutEffect
<1>5. ASSUME NEW c \in ToolUsers, call[c] # NoCall, Mark(c) PROVE FilesType'
  <2>1. call[c] \in CallType
    BY <1>5, NoCallIsNone
  <2>2. QED
    BY <1>5, <2>1 DEF Mark, Return, Stamped, On, File, CallType
<1>6. ASSUME NEW f \in Files, Outside(f) PROVE FilesType'
  <2>1. Change \in Nat
    BY DEF Change
  <2>2. QED
    BY <1>6, <2>1 DEF Outside
<1>7. ASSUME NEW f \in Files, Deleted(f) PROVE FilesType'
  <2>1. disk' \in [Files -> [present : BOOLEAN, content : SUBSET Nat, stamp : Nat]]
    BY <1>7 DEF Deleted
  <2>2. QED
    BY <1>7, <2>1 DEF Deleted
<1>8. CASE UNCHANGED fvars
  BY <1>8 DEF fvars
<1>9. QED
  BY <1>1, <1>2, <1>3, <1>4, <1>5, <1>6, <1>7, <1>8 DEF FilesNext

\* A step in a conversation's call that touches neither the files nor the stamps.
LEMMA CallStep ==
    ASSUME FilesType, FilesInv, NEW c \in ToolUsers, call[c] # NoCall,
           ReadStat(c) \/ ReadScan(c) \/ WriteCheck(c) \/ EditCheck(c) \/ EditLoad(c)
    PROVE  FilesInv'
<1>1. UNCHANGED <<disk, stamps, vouched, lost, raced>>
  BY DEF ReadStat, ReadScan, WriteCheck, EditCheck, EditLoad
<1>2. call[c] \in CallType /\ File(c) \in Files /\ On(c).stamp \in Nat
  BY NoCallIsNone DEF FilesType, CallType, File, On
<1>3. DOMAIN call = ToolUsers /\ call' = [call EXCEPT ![c] = call'[c]]
  BY DEF FilesType, ReadStat, ReadScan, WriteCheck, EditCheck, EditLoad, Return, To
<1>4. \A d \in ToolUsers \ {c} : call'[d] = call[d]
  BY <1>3
<1>5. \/ call'[c] = NoCall
      \/ /\ call'[c].file = call[c].file /\ call'[c].tool = call[c].tool
         /\ \/ ReadStat(c) /\ call'[c].at = "open" /\ call'[c].stamp = On(c).stamp
            \/ ReadScan(c) /\ call'[c].at = "mark" /\ call'[c].stamp = call[c].stamp
                 /\ call'[c].content = On(c).content
            \/ WriteCheck(c) /\ call'[c].at = "put"
            \/ EditCheck(c) /\ call'[c].at = "load"
            \/ EditLoad(c) /\ call'[c].at = "put"
  BY <1>2, <1>3 DEF ReadStat, ReadScan, WriteCheck, EditCheck, EditLoad, Return, To, CallType
<1>6. \A f \in Files : Known(f)' = Known(f)
  BY <1>1 DEF Known
<1>7. \A d \in ToolUsers : (At(d, "read", "open") \/ At(d, "read", "mark"))' =>
         call'[d].stamp <= On(d)'.stamp
  <2> TAKE d \in ToolUsers
  <2>1. CASE d = c
    BY <2>1, <1>1, <1>2, <1>5 DEF FilesInv, At, On, File, NoCall, ReadScan, CallType,
       WriteCheck, EditCheck, EditLoad
  <2>2. CASE d # c
    BY <2>2, <1>1, <1>4 DEF FilesInv, At, On, File
  <2>3. QED
    BY <2>1, <2>2
<1>8. \A d \in ToolUsers : At(d, "read", "mark")' /\ call'[d].stamp = On(d)'.stamp =>
         On(d)'.content \subseteq call'[d].content
  <2> TAKE d \in ToolUsers
  <2>1. CASE d = c
    BY <2>1, <1>1, <1>2, <1>5 DEF FilesInv, At, On, File, NoCall, ReadScan, CallType,
       WriteCheck, EditCheck, EditLoad
  <2>2. CASE d # c
    BY <2>2, <1>1, <1>4 DEF FilesInv, At, On, File
  <2>3. QED
    BY <2>1, <2>2
<1>9. ASSUME NEW f \in Files, Writing(f)' PROVE Known(f)
  <2>1. PICK d \in ToolUsers : call'[d] # NoCall /\ call'[d].file = f
                             /\ call'[d].tool # "read" /\ call'[d].at # "start"
    BY <1>9 DEF Writing
  <2>2. CASE d # c
    BY <2>1, <2>2, <1>4 DEF FilesInv, Writing
  <2>3. CASE d = c /\ WriteCheck(c)
    <3>1. call'[c] # NoCall /\ f = File(c)
      BY <2>1, <2>3, <1>5 DEF File
    <3>2. ~On(c).present \/ Verified(File(c))
      BY <3>1, <2>3, <1>3 DEF WriteCheck, Return
    <3>3. QED
      BY <3>1, <3>2 DEF FilesInv, Verified, Known, On
  <2>4. CASE d = c /\ EditCheck(c)
    <3>1. call'[c] # NoCall /\ f = File(c)
      BY <2>1, <2>4, <1>5 DEF File
    <3>2. Verified(File(c))
      BY <3>1, <2>4, <1>3 DEF EditCheck, Return
    <3>3. QED
      BY <3>1, <3>2 DEF FilesInv, Verified, Known, On
  <2>5. CASE d = c /\ EditLoad(c)
    BY <2>1, <2>5, <1>2, <1>5 DEF FilesInv, EditLoad, At, Writing, NoCall
  <2>6. CASE d = c /\ (ReadStat(c) \/ ReadScan(c))
    BY <2>1, <2>6, <1>5 DEF ReadStat, ReadScan, At, WriteCheck, EditCheck, EditLoad
  <2>7. QED
    BY <2>2, <2>3, <2>4, <2>5, <2>6
<1>10. \A f \in DOMAIN stamps : stamps[f] = disk[f].stamp => Known(f)'
  BY <1>6 DEF FilesInv, FilesType
<1>11. NothingUnreadLost'
  BY <1>1 DEF FilesInv, NothingUnreadLost
<1>12. QED
  BY <1>1, <1>6, <1>7, <1>8, <1>9, <1>10, <1>11 DEF FilesInv

\* A write knows what it replaces, unless a program outside came between; whatever
\* changes a file gives it a new stamp, and no stamp or read vouches for it any more.
LEMMA FilesInvNext ==
    ASSUME FilesType, FilesInv, [FilesNext]_fvars
    PROVE  FilesInv'
<1>1. ASSUME NEW c \in ToolUsers, NEW f \in Files, NEW tool \in {"read", "write", "edit"},
             Begin(c, tool, f)
      PROVE  FilesInv'
  <2>1. UNCHANGED <<disk, stamps, vouched, lost, raced>>
    BY <1>1 DEF Begin
  <2>2. /\ \A d \in ToolUsers \ {c} : call'[d] = call[d]
        /\ call'[c].at = "start" /\ call'[c] # NoCall
    BY <1>1 DEF Begin, FilesType, NoCall
  <2>3. \A g \in Files : Known(g)' = Known(g)
    BY <2>1 DEF Known
  <2>4. \A g \in Files : Writing(g)' => Writing(g)
    BY <2>2 DEF Writing
  <2>5. \A d \in ToolUsers : (At(d, "read", "open") \/ At(d, "read", "mark"))' =>
           d # c
    BY <2>2 DEF At
  <2>6. \A g \in DOMAIN stamps : stamps[g] = disk[g].stamp => Known(g)'
    BY <2>3 DEF FilesInv, FilesType
  <2>7. NothingUnreadLost'
    BY <2>1 DEF FilesInv, NothingUnreadLost
  <2>8. \A d \in ToolUsers :
           /\ (At(d, "read", "open") \/ At(d, "read", "mark"))' =>
                 call'[d].stamp <= On(d)'.stamp
           /\ At(d, "read", "mark")' /\ call'[d].stamp = On(d)'.stamp =>
                 On(d)'.content \subseteq call'[d].content
    BY <2>1, <2>2, <2>5 DEF FilesInv, At, On, File
  <2>9. QED
    BY <2>1, <2>3, <2>4, <2>6, <2>7, <2>8 DEF FilesInv
<1>2. ASSUME NEW c \in ToolUsers, call[c] # NoCall,
             \/ ReadStat(c) \/ ReadScan(c) \/ WriteCheck(c) \/ EditCheck(c) \/ EditLoad(c)
      PROVE  FilesInv'
  BY <1>2, CallStep
<1>3. ASSUME NEW c \in ToolUsers, call[c] # NoCall, ReadMark(c) PROVE FilesInv'
  <2> DEFINE f == File(c)
  <2>1. call[c] \in CallType /\ f \in Files /\ On(c) = disk[f]
        /\ call[c].stamp <= disk[f].stamp
        /\ (call[c].stamp = disk[f].stamp => disk[f].content \subseteq call[c].content)
    BY <1>3, NoCallIsNone DEF FilesType, FilesInv, CallType, File, On, ReadMark
  <2>2. UNCHANGED <<disk, lost, raced>> /\ call' = [call EXCEPT ![c] = NoCall]
        /\ vouched' = [vouched EXCEPT ![f] = vouched[f] \cup call[c].content]
        /\ DOMAIN stamps' = DOMAIN stamps \cup {f} /\ stamps'[f] = call[c].stamp
        /\ \A g \in DOMAIN stamps : g # f => stamps'[g] = stamps[g]
    BY <1>3 DEF ReadMark, Return, Stamped, ReadStamp
  <2>3. \A g \in Files : vouched[g] \subseteq vouched'[g]
    BY <2>1, <2>2 DEF FilesType
  <2>4. \A g \in Files : Known(g) => Known(g)'
    BY <2>2, <2>3 DEF Known
  <2>5. /\ \A d \in ToolUsers : d # c => call'[d] = call[d]
        /\ call'[c] = NoCall
    BY <2>2 DEF FilesType
  <2>6. \A g \in DOMAIN stamps' : stamps'[g] <= disk[g].stamp
           /\ (stamps'[g] = disk[g].stamp => Known(g)')
    <3> TAKE g \in DOMAIN stamps'
    <3>1. CASE g # f
      BY <3>1, <2>2, <2>4 DEF FilesInv, FilesType
    <3>2. CASE g = f
      <4>1. call[c].content \subseteq vouched'[f]
        BY <2>1, <2>2 DEF FilesType
      <4>2. QED
        BY <3>2, <4>1, <2>1, <2>2 DEF Known
    <3>3. QED
      BY <3>1, <3>2
  <2>7. \A g \in Files : Writing(g)' => Writing(g)
    BY <2>5 DEF Writing
  <2>8. NothingUnreadLost'
    BY <2>2, <2>3 DEF FilesInv, NothingUnreadLost
  <2>9. \A d \in ToolUsers :
           /\ (At(d, "read", "open") \/ At(d, "read", "mark"))' =>
                 call'[d].stamp <= On(d)'.stamp
           /\ At(d, "read", "mark")' /\ call'[d].stamp = On(d)'.stamp =>
                 On(d)'.content \subseteq call'[d].content
    BY <2>2, <2>5 DEF FilesInv, At, On, File, NoCall
  <2>10. QED
    BY <2>2, <2>4, <2>6, <2>7, <2>8, <2>9 DEF FilesInv
<1>4. ASSUME NEW c \in ToolUsers, call[c] # NoCall, Put(c) PROVE FilesInv'
  <2> DEFINE f == File(c)
  <2>1. call[c] \in CallType /\ f \in Files /\ On(c) = disk[f] /\ Writing(f)
    BY <1>4, NoCallIsNone DEF FilesType, CallType, File, On, Put, Writing
  <2>2. UNCHANGED <<stamps, raced>>
    BY <1>4 DEF Put
  <2>3. CASE Return(c) /\ UNCHANGED <<disk, vouched, lost>>
    <3>1. /\ \A d \in ToolUsers : d # c => call'[d] = call[d]
          /\ call'[c] = NoCall
      BY <2>3 DEF FilesType, Return
    <3>2. \A g \in Files : (Known(g)' = Known(g)) /\ (Writing(g)' => Writing(g))
      BY <2>2, <2>3, <3>1 DEF Known, Writing
    <3>3. NothingUnreadLost'
      BY <2>2, <2>3 DEF FilesInv, NothingUnreadLost
    <3>4. \A d \in ToolUsers :
             /\ (At(d, "read", "open") \/ At(d, "read", "mark"))' =>
                   call'[d].stamp <= On(d)'.stamp
             /\ At(d, "read", "mark")' /\ call'[d].stamp = On(d)'.stamp =>
                   On(d)'.content \subseteq call'[d].content
      BY <2>3, <3>1 DEF FilesInv, At, On, File, NoCall
    <3>5. \A g \in DOMAIN stamps : stamps[g] = disk[g].stamp => Known(g)'
      BY <3>2 DEF FilesInv, FilesType
    <3>6. QED
      BY <2>2, <2>3, <3>2, <3>3, <3>4, <3>5 DEF FilesInv
  <2>4. CASE Wrote(c)
    <3>1. /\ DOMAIN disk' = Files /\ disk'[f].present /\ disk'[f].content = New(c)
          /\ disk'[f].stamp = disk[f].stamp + 1
          /\ \A g \in Files : g # f => disk'[g] = disk[g]
      BY <2>1, <2>4 DEF Wrote, FilesType
    <3>2. /\ vouched'[f] = vouched[f] \cup New(c) /\ lost'[f] = lost[f] \cup (disk[f].content \ New(c))
          /\ \A g \in Files : g # f => vouched'[g] = vouched[g] /\ lost'[g] = lost[g]
      BY <2>1, <2>4 DEF Wrote, FilesType
    <3>3. /\ \A d \in ToolUsers : d # c => call'[d] = call[d]
          /\ call'[c] # NoCall /\ call'[c].tool = call[c].tool /\ call'[c].file = f
      BY <2>1, <2>4 DEF Wrote, To, FilesType, File, CallType, NoCall
    <3>4. \A g \in Files : Known(g) => Known(g)'
      BY <2>2, <3>1, <3>2 DEF Known
    <3>5. \A g \in Files : Known(g)' \/ (g # f /\ ~Known(g))
      <4>1. disk'[f].content \subseteq vouched'[f]
        BY <3>1, <3>2
      <4>2. QED
        BY <3>4, <4>1 DEF Known
    <3>6. \A g \in Files : disk[g].stamp \in Nat /\ disk[g].stamp <= disk'[g].stamp
      BY <3>1 DEF FilesType
    <3>7. \A g \in DOMAIN stamps : stamps[g] <= disk'[g].stamp
             /\ (stamps[g] = disk'[g].stamp => Known(g)')
      <4> TAKE g \in DOMAIN stamps
      <4>1. g \in Files /\ stamps[g] \in Nat /\ stamps[g] <= disk[g].stamp
            /\ (stamps[g] = disk[g].stamp => Known(g))
        BY DEF FilesInv, FilesType
      <4>2. QED
        BY <4>1, <3>1, <3>4, <3>5, <3>6
    <3>8. NothingUnreadLost'
      <4>1. Known(f) /\ (lost[f] \subseteq vouched[f] \/ f \in raced)
        BY <2>1 DEF FilesInv, NothingUnreadLost
      <4>2. lost'[f] \subseteq vouched'[f] \/ f \in raced
        BY <4>1, <3>2 DEF Known
      <4>3. QED
        BY <4>2, <2>2, <3>2 DEF FilesInv, NothingUnreadLost
    <3>9. \A d \in ToolUsers :
             /\ (At(d, "read", "open") \/ At(d, "read", "mark"))' =>
                   call'[d].stamp <= On(d)'.stamp
             /\ At(d, "read", "mark")' /\ call'[d].stamp = On(d)'.stamp =>
                   On(d)'.content \subseteq call'[d].content
      <4> SUFFICES ASSUME NEW d \in ToolUsers, (At(d, "read", "open") \/ At(d, "read", "mark"))'
                   PROVE  /\ call'[d].stamp <= On(d)'.stamp
                          /\ At(d, "read", "mark")' /\ call'[d].stamp = On(d)'.stamp =>
                                On(d)'.content \subseteq call'[d].content
        OBVIOUS
      <4>1. d # c
        BY <1>4, <3>3 DEF At, Put
      <4>2. call'[d] = call[d] /\ call[d].stamp <= On(d).stamp /\ File(d) \in Files
            /\ call[d].stamp \in Nat
        BY <4>1, <3>3, NoCallIsNone DEF FilesInv, FilesType, At, File, NoCall, CallType
      <4>3. On(d)' = disk'[File(d)] /\ On(d) = disk[File(d)]
        BY <4>2 DEF On, File
      <4>4. CASE File(d) = f
        BY <4>2, <4>3, <4>4, <3>1, <3>6
      <4>5. CASE File(d) # f
        BY <4>2, <4>3, <4>5, <3>1 DEF FilesInv, At
      <4>6. QED
        BY <4>4, <4>5
    <3>10. \A g \in Files : ~disk'[g].present => disk'[g].content = {}
      BY <3>1 DEF FilesInv
    <3>11. ASSUME NEW g \in Files, Writing(g)' PROVE Known(g)'
      <4>1. g = f \/ Writing(g)
        BY <3>3, <3>11 DEF Writing
      <4>2. QED
        BY <4>1, <2>1, <3>5 DEF FilesInv
    <3>12. QED
      BY <2>2, <3>7, <3>8, <3>9, <3>10, <3>11 DEF FilesInv
  <2>5. QED
    BY <1>4, <2>1, <2>3, <2>4, PutEffect
<1>5. ASSUME NEW c \in ToolUsers, call[c] # NoCall, Mark(c) PROVE FilesInv'
  <2> DEFINE f == File(c)
  <2>1. call[c] \in CallType /\ f \in Files /\ On(c) = disk[f] /\ Known(f)
    BY <1>5, NoCallIsNone DEF FilesType, FilesInv, CallType, File, On, Mark, Writing
  <2>2. UNCHANGED <<disk, vouched, lost, raced>>
    BY <1>5 DEF Mark
  <2>3. /\ \A d \in ToolUsers : d # c => call'[d] = call[d]
        /\ call'[c] = NoCall
    BY <1>5 DEF Mark, Return, FilesType
  <2>4. \A g \in DOMAIN stamps' : \/ g \in DOMAIN stamps /\ stamps'[g] = stamps[g]
                                  \/ g = f /\ stamps'[g] = disk[f].stamp
    BY <1>5, <2>1 DEF Mark, Stamped
  <2>5. \A g \in Files : (Known(g)' = Known(g)) /\ (Writing(g)' => Writing(g))
    BY <2>2, <2>3 DEF Known, Writing
  <2>6. \A g \in DOMAIN stamps' : stamps'[g] <= disk[g].stamp
           /\ (stamps'[g] = disk[g].stamp => Known(g)')
    <3> TAKE g \in DOMAIN stamps'
    <3>1. CASE g \in DOMAIN stamps /\ stamps'[g] = stamps[g]
      BY <3>1, <2>5 DEF FilesInv, FilesType
    <3>2. CASE g = f /\ stamps'[g] = disk[f].stamp
      BY <3>2, <2>1, <2>5 DEF FilesType
    <3>3. QED
      BY <2>4, <3>1, <3>2
  <2>7. NothingUnreadLost'
    BY <2>2 DEF FilesInv, NothingUnreadLost
  <2>8. \A d \in ToolUsers :
           /\ (At(d, "read", "open") \/ At(d, "read", "mark"))' =>
                 call'[d].stamp <= On(d)'.stamp
           /\ At(d, "read", "mark")' /\ call'[d].stamp = On(d)'.stamp =>
                 On(d)'.content \subseteq call'[d].content
    BY <2>2, <2>3 DEF FilesInv, At, On, File, NoCall
  <2>9. QED
    BY <2>2, <2>5, <2>6, <2>7, <2>8 DEF FilesInv
<1>6. ASSUME NEW f \in Files, Outside(f) \/ Deleted(f) PROVE FilesInv'
  <2>1. UNCHANGED <<stamps, call, vouched, lost>> /\ raced \subseteq raced'
    BY <1>6 DEF Outside, Deleted
  <2>2. /\ \A g \in Files : g # f => disk'[g] = disk[g]
        /\ disk'[f].stamp = disk[f].stamp + 1
        /\ ~disk'[f].present => disk'[f].content = {}
        /\ disk'[f].content = {} \/ (Writing(f) => f \in raced')
    BY <1>6 DEF Outside, Deleted, FilesType
  <2>3. \A g \in Files : g # f \/ Writing(g) => (Known(g) => Known(g)')
    BY <2>1, <2>2 DEF Known
  <2>4. \A g \in Files : Writing(g)' = Writing(g)
    BY <2>1 DEF Writing
  <2>5. \A g \in Files : disk[g].stamp \in Nat
    BY DEF FilesType
  <2>6. \A g \in DOMAIN stamps : stamps[g] <= disk'[g].stamp
           /\ (stamps[g] = disk'[g].stamp => Known(g)')
    <3> TAKE g \in DOMAIN stamps
    <3>1. g \in Files /\ stamps[g] \in Nat /\ stamps[g] <= disk[g].stamp
          /\ (stamps[g] = disk[g].stamp => Known(g))
      BY DEF FilesInv, FilesType
    <3>2. QED
      BY <3>1, <2>2, <2>3, <2>5
  <2>7. NothingUnreadLost'
    BY <2>1 DEF FilesInv, NothingUnreadLost
  <2>8. ASSUME NEW d \in ToolUsers, At(d, "read", "open") \/ At(d, "read", "mark")
        PROVE  /\ call[d].stamp <= On(d)'.stamp
               /\ At(d, "read", "mark") /\ call[d].stamp = On(d)'.stamp =>
                     On(d)'.content \subseteq call[d].content
    <3>1. File(d) \in Files /\ call[d].stamp \in Nat /\ call[d].stamp <= On(d).stamp
      BY <2>8, NoCallIsNone DEF FilesInv, FilesType, At, File, NoCall, CallType
    <3>2. On(d)' = disk'[File(d)] /\ On(d) = disk[File(d)]
      BY <2>1 DEF On, File
    <3>3. CASE File(d) = f
      BY <3>1, <3>2, <3>3, <2>2, <2>5
    <3>4. CASE File(d) # f
      BY <3>1, <3>2, <3>4, <2>2 DEF FilesInv
    <3>5. QED
      BY <3>3, <3>4
  <2>9. \A g \in Files : ~disk'[g].present => disk'[g].content = {}
    BY <2>2 DEF FilesInv
  <2>10. \A g \in Files : Writing(g)' => Known(g)'
    BY <2>3, <2>4 DEF FilesInv
  <2>11. \A d \in ToolUsers :
            /\ (At(d, "read", "open") \/ At(d, "read", "mark"))' =>
                  call'[d].stamp <= On(d)'.stamp
            /\ At(d, "read", "mark")' /\ call'[d].stamp = On(d)'.stamp =>
                  On(d)'.content \subseteq call'[d].content
    BY <2>1, <2>8 DEF At
  <2>12. QED
    BY <2>1, <2>6, <2>7, <2>9, <2>10, <2>11 DEF FilesInv
<1>8. CASE UNCHANGED fvars
  BY <1>8 DEF fvars, FilesInv, Known, At, On, File, Writing, NothingUnreadLost
<1>9. QED
  BY <1>1, <1>2, <1>3, <1>4, <1>5, <1>6, <1>8 DEF FilesNext

\* The read-before-write guard: whatever the tools of concurrent conversations and the
\* programs outside do, no tool overwrites a version that no tool has read, were it a
\* window of its lines, or written, but for a change made in the window of a write.
THEOREM NoBlindWrite == FilesSpec => []NothingUnreadLost
<1>1. FilesInit => FilesType /\ FilesInv
  <2> SUFFICES ASSUME FilesInit PROVE FilesType /\ FilesInv
    OBVIOUS
  <2>1. FilesType
    <3>1. stamps = [f \in {} |-> 0] /\ DOMAIN stamps = {}
      BY DEF FilesInit
    <3>2. disk \in [Files -> [present : BOOLEAN, content : SUBSET Nat, stamp : Nat]]
      <4>1. Missing \in [present : BOOLEAN, content : SUBSET Nat, stamp : Nat]
        BY DEF Missing
      <4>2. [present |-> TRUE, content |-> {0}, stamp |-> 1]
               \in [present : BOOLEAN, content : SUBSET Nat, stamp : Nat]
        OBVIOUS
      <4>3. QED
        BY <4>1, <4>2 DEF FilesInit
    <3>3. QED
      BY <3>1, <3>2 DEF FilesInit, FilesType
  <2>2. \A c \in ToolUsers : call[c] = NoCall
    BY DEF FilesInit
  <2>3. QED
    BY <2>1, <2>2 DEF FilesInit, FilesInv, At, Writing, NoCall, NothingUnreadLost, Missing
<1>2. FilesType /\ FilesInv /\ [FilesNext]_fvars => (FilesType /\ FilesInv)'
  BY FilesTypeNext, FilesInvNext
<1>3. FilesInv => NothingUnreadLost
  BY DEF FilesInv
<1>4. QED
  BY <1>1, <1>2, <1>3, PTL DEF FilesSpec

-----------------------------------------------------------------------------
(* The journal.                                                             *)

LEMMA ElemsAppend ==
    ASSUME NEW S, NEW s \in Seq(S), NEW x \in S
    PROVE  Append(s, x) \in Seq(S) /\ Elems(Append(s, x)) = Elems(s) \cup {x}
<1>1. /\ Append(s, x) \in Seq(S) /\ DOMAIN Append(s, x) = 1..(Len(s) + 1)
      /\ DOMAIN s = 1..Len(s) /\ Len(s) \in Nat
      /\ \A i \in DOMAIN s : Append(s, x)[i] = s[i]
      /\ Append(s, x)[Len(s) + 1] = x
  OBVIOUS
<1>2. DOMAIN Append(s, x) = DOMAIN s \cup {Len(s) + 1}
  BY <1>1
<1>3. QED
  BY <1>1, <1>2 DEF Elems

LEMMA ElemsTail ==
    ASSUME NEW S, NEW s \in Seq(S), s # <<>>
    PROVE  Tail(s) \in Seq(S) /\ Head(s) \in S /\ Elems(s) = {Head(s)} \cup Elems(Tail(s))
<1>1. /\ Tail(s) \in Seq(S) /\ Head(s) \in S /\ Head(s) = s[1]
      /\ Len(s) \in Nat /\ Len(s) >= 1 /\ DOMAIN s = 1..Len(s)
      /\ DOMAIN Tail(s) = 1..(Len(s) - 1)
      /\ \A i \in DOMAIN Tail(s) : Tail(s)[i] = s[i + 1]
  OBVIOUS
<1>2. ASSUME NEW i \in DOMAIN s PROVE s[i] \in {Head(s)} \cup Elems(Tail(s))
  <2>1. CASE i = 1
    BY <2>1, <1>1
  <2>2. CASE i # 1
    <3>1. i - 1 \in DOMAIN Tail(s) /\ Tail(s)[i - 1] = s[i]
      BY <2>2, <1>1
    <3>2. QED
      BY <3>1 DEF Elems
  <2>3. QED
    BY <2>1, <2>2
<1>3. ASSUME NEW i \in DOMAIN Tail(s) PROVE Tail(s)[i] \in Elems(s)
  <2>1. i + 1 \in DOMAIN s
    BY <1>1
  <2>2. QED
    BY <1>1, <2>1 DEF Elems
<1>4. Head(s) \in Elems(s)
  BY <1>1 DEF Elems
<1>5. QED
  BY <1>1, <1>2, <1>3, <1>4 DEF Elems

LEMMA ElemsEmpty == Elems(<<>>) = {}
  BY DEF Elems

\* A sequence that holds nothing twice, which a queue keeps that takes in what it does
\* not hold.
Distinct(s) == \A i, j \in DOMAIN s : s[i] = s[j] => i = j

LEMMA DistinctAppend ==
    ASSUME NEW S, NEW s \in Seq(S), NEW x \in S, Distinct(s), x \notin Elems(s)
    PROVE  Distinct(Append(s, x))
<1>1. /\ DOMAIN Append(s, x) = 1..(Len(s) + 1)
      /\ DOMAIN s = 1..Len(s) /\ Len(s) \in Nat
      /\ \A i \in DOMAIN s : Append(s, x)[i] = s[i]
      /\ Append(s, x)[Len(s) + 1] = x
  OBVIOUS
<1>2. \A i \in DOMAIN s : s[i] # x
  BY DEF Elems
<1>3. QED
  BY <1>1, <1>2 DEF Distinct

LEMMA DistinctTail ==
    ASSUME NEW S, NEW s \in Seq(S), s # <<>>, Distinct(s)
    PROVE  Distinct(Tail(s)) /\ Head(s) \notin Elems(Tail(s))
<1>1. /\ Head(s) = s[1] /\ 1 \in DOMAIN s
      /\ Len(s) \in Nat /\ Len(s) >= 1 /\ DOMAIN s = 1..Len(s)
      /\ DOMAIN Tail(s) = 1..(Len(s) - 1)
      /\ \A i \in DOMAIN Tail(s) : Tail(s)[i] = s[i + 1]
  OBVIOUS
<1>2. \A i \in DOMAIN Tail(s) : i + 1 \in DOMAIN s /\ i + 1 # 1
  BY <1>1
<1>3. ASSUME NEW i \in DOMAIN Tail(s), NEW j \in DOMAIN Tail(s), Tail(s)[i] = Tail(s)[j]
      PROVE  i = j
  <2>1. i + 1 = j + 1
    BY <1>1, <1>2, <1>3 DEF Distinct
  <2>2. QED
    BY <1>1, <2>1
<1>4. \A i \in DOMAIN Tail(s) : Tail(s)[i] # Head(s)
  BY <1>1, <1>2 DEF Distinct
<1>5. QED
  BY <1>3, <1>4 DEF Distinct, Elems

Queued == Elems(ch) \cup Elems(batch)

JournalType ==
    /\ turn \in [Turns -> {"running", "transcribed", "full", "recorded", "late"}]
    /\ ch \in Seq(Turns) /\ batch \in Seq(Turns)
    /\ dropped \subseteq Turns /\ rows \subseteq Turns /\ pruned \subseteq Turns

\* Where an event that was recorded is, and that it is in one place: in the buffer, in the
\* batch, stored, or pruned.
Accounted ==
    /\ \A t \in Turns : turn[t] = "recorded" =>
          t \in Queued \cup dropped \cup rows \cup pruned \cup reported
    /\ recorder = "done" =>
          ch = <<>> /\ batch = <<>> /\ \A t \in dropped : turn[t] = "late"

Ledger ==
    /\ Distinct(ch) /\ Distinct(batch) /\ Elems(ch) \cap Elems(batch) = {}
    /\ Queued \cap (rows \cup pruned) = {} /\ rows \cap pruned = {}
    /\ \A t \in Queued \cup rows \cup pruned : turn[t] = "recorded"
    /\ expired \subseteq rows \cup pruned

JournalInv == JournalType /\ Accounted /\ Ledger

LEMMA QueuedTurns == JournalType => Queued \subseteq Turns
  BY DEF JournalType, Queued, Elems

\* The recorder's half of a step: a turn ends in the buffer or among the dropped, the
\* writer empties the buffer into the batch and the batch into the table, or reports it.
LEMMA RecorderNext ==
    ASSUME JournalInv, [JournalNext]_journalVars
    PROVE  JournalInv'
<1> USE DEF JournalInv
<1>1. ASSUME NEW t \in Turns, AppendTranscript(t) PROVE JournalInv'
  BY <1>1 DEF AppendTranscript, JournalType, Accounted, Ledger, Queued
<1>2. ASSUME NEW t \in Turns, Record(t) PROVE JournalInv'
  <2>1. UNCHANGED <<batch, dropped, reported, rows, expired, pruned, recorder>>
        /\ turn[t] = "transcribed"
    BY <1>2 DEF Record
  <2>2. t \notin Queued \cup rows \cup pruned
    BY <2>1 DEF Ledger
  <2>3. CASE UNCHANGED <<ch, turn>>
    BY <2>1, <2>3 DEF JournalType, Accounted, Ledger, Queued
  <2>4. CASE UNCHANGED ch /\ turn' = [turn EXCEPT ![t] = "full"] /\ recorder = "open"
    <3>1. turn'[t] = "full" /\ \A x \in Turns : x # t => turn'[x] = turn[x]
      BY <2>4 DEF JournalType
    <3>2. JournalType' /\ Queued' = Queued
      BY <2>1, <2>4 DEF JournalType, Queued
    <3>3. Accounted'
      BY <2>1, <2>4, <3>1, <3>2 DEF Accounted
    <3>4. Ledger'
      BY <2>1, <2>2, <2>4, <3>1, <3>2 DEF Ledger, Queued, JournalType
    <3>5. QED
      BY <3>2, <3>3, <3>4
  <2>5. CASE ch' = Append(ch, t) /\ turn' = [turn EXCEPT ![t] = "recorded"] /\ recorder = "open"
    <3>1. ch' \in Seq(Turns) /\ Elems(ch') = Elems(ch) \cup {t}
      BY <2>5, ElemsAppend DEF JournalType
    <3>2. Distinct(ch')
      BY <2>2, <2>5, DistinctAppend DEF JournalType, Ledger, Queued
    <3>3. Queued' = Queued \cup {t}
      BY <2>1, <3>1 DEF Queued
    <3>4. turn'[t] = "recorded" /\ \A x \in Turns : x # t => turn'[x] = turn[x]
      BY <2>5 DEF JournalType
    <3>5. JournalType'
      BY <2>1, <2>5, <3>1 DEF JournalType
    <3>6. Accounted'
      BY <2>1, <2>5, <3>3, <3>4 DEF Accounted
    <3>7. Ledger'
      <4>1. \A x \in Queued' \cup rows' \cup pruned' : turn'[x] = "recorded"
        BY <2>1, <2>2, <3>3, <3>4, QueuedTurns DEF Ledger, JournalType
      <4>2. QED
        BY <2>1, <2>2, <3>1, <3>2, <3>3, <4>1 DEF Ledger, Queued
    <3>8. QED
      BY <3>5, <3>6, <3>7
  <2>6. QED
    BY <1>2, <2>3, <2>4, <2>5 DEF Record
<1>2a. ASSUME NEW t \in Turns, CountDropped(t) PROVE JournalInv'
  <2>1. UNCHANGED <<ch, batch, reported, rows, expired, pruned, recorder>>
        /\ turn[t] = "full" /\ dropped' = dropped \cup {t}
    BY <1>2a DEF CountDropped
  <2>2. turn'[t] \in {"recorded", "late"} /\ (recorder = "done" => turn'[t] = "late")
        /\ \A x \in Turns : x # t => turn'[x] = turn[x]
    BY <1>2a DEF CountDropped, JournalType
  <2>3. JournalType' /\ Queued' = Queued
    BY <1>2a, <2>1 DEF CountDropped, JournalType, Queued
  <2>4. Accounted'
    BY <2>1, <2>2, <2>3 DEF Accounted, JournalType
  <2>5. Ledger'
    <3>1. \A x \in Queued' \cup rows' \cup pruned' : turn'[x] = "recorded"
      BY <2>1, <2>2, <2>3, QueuedTurns DEF Ledger, JournalType
    <3>2. QED
      BY <2>1, <2>3, <3>1 DEF Ledger
  <2>6. QED
    BY <2>3, <2>4, <2>5
<1>3. CASE Take
  <2>1. UNCHANGED <<turn, dropped, reported, rows, expired, pruned, recorder, process>>
        /\ recorder # "done"
    BY <1>3 DEF Take
  <2>2. /\ ch' \in Seq(Turns) /\ batch' \in Seq(Turns)
        /\ Elems(ch) = {Head(ch)} \cup Elems(ch')
        /\ Elems(batch') = Elems(batch) \cup {Head(ch)}
    BY <1>3, ElemsTail, ElemsAppend DEF Take, JournalType
  <2>3. Distinct(ch') /\ Head(ch) \notin Elems(ch')
    BY <1>3, DistinctTail DEF Take, JournalType, Ledger
  <2>4. Distinct(batch')
    <3>1. Head(ch) \notin Elems(batch) /\ Head(ch) \in Turns
      BY <1>3, <2>2, ElemsTail DEF Ledger, Take, JournalType
    <3>2. QED
      BY <1>3, <3>1, DistinctAppend DEF Take, JournalType, Ledger
  <2>5. Queued' = Queued
    BY <2>2 DEF Queued
  <2>6. JournalType'
    BY <2>1, <2>2 DEF JournalType
  <2>7. Accounted'
    BY <2>1, <2>5 DEF Accounted
  <2>8. Ledger'
    BY <2>1, <2>2, <2>3, <2>4, <2>5 DEF Ledger
  <2>9. QED
    BY <2>6, <2>7, <2>8
<1>4. CASE FlushFull \/ Tick \/ Drained
  <2>1. UNCHANGED <<turn, ch, expired, pruned, process>> /\ batch' = <<>>
        /\ (recorder' = "done" => ch = <<>> /\ dropped' = {})
    BY <1>4 DEF FlushFull, Tick, Drained
  <2>2. /\ dropped' = dropped \/ (dropped' = {} /\ dropped \subseteq reported')
        /\ reported \subseteq reported'
        /\ \/ rows' = rows \cup Elems(batch)
           \/ rows' = rows /\ Elems(batch) \subseteq reported'
    BY <1>4 DEF FlushFull, Tick, Drained, AppendBatch
  <2>3. Queued' = Elems(ch) /\ Elems(batch) \subseteq Turns /\ Distinct(batch')
        /\ Elems(batch') = {}
    BY <2>1, ElemsEmpty DEF Queued, Elems, JournalType, Distinct
  <2>4. JournalType'
    BY <2>1, <2>2, <2>3 DEF JournalType
  <2>5. Accounted'
    BY <2>1, <2>2, <2>3 DEF Accounted, Queued
  <2>6. Ledger'
    BY <2>1, <2>2, <2>3 DEF Ledger, Queued
  <2>7. QED
    BY <2>4, <2>5, <2>6
<1>5. CASE CloseJournal \/ ExitDaemon
  <2>1. UNCHANGED <<turn, ch, batch, dropped, reported, rows, expired, pruned>>
        /\ (recorder' # "done" \/ recorder = "done")
    BY <1>5 DEF CloseJournal, ExitDaemon
  <2>2. QED
    BY <2>1 DEF JournalType, Accounted, Ledger, Queued
<1>6. ASSUME NEW t \in Turns, Expire(t) PROVE JournalInv'
  BY <1>6 DEF Expire, JournalType, Accounted, Ledger, Queued
<1>7. ASSUME NEW w \in Sweepers, Delete(w) PROVE JournalInv'
  <2>1. UNCHANGED <<turn, ch, batch, dropped, reported, expired, recorder, process>>
        /\ rows' \subseteq rows /\ pruned \subseteq pruned'
        /\ rows' \cup pruned' = rows \cup pruned
        /\ pruned' \cap rows' \subseteq pruned \cap rows
    BY <1>7 DEF Delete
  <2>2. Queued' = Queued
    BY <2>1 DEF Queued
  <2>3. JournalType'
    BY <2>1 DEF JournalType
  <2>4. Accounted'
    BY <2>1, <2>2 DEF Accounted
  <2>5. Ledger'
    BY <2>1, <2>2 DEF Ledger
  <2>6. QED
    BY <2>3, <2>4, <2>5
<1>8. ASSUME NEW w \in Sweepers,
             \/ Collect(w) \/ RemoveTranscripts(w) \/ EndSweep(w)
             \/ \E s \in Conversations : Check(w, s)
      PROVE  JournalInv'
  <2>1. UNCHANGED <<turn, ch, batch, dropped, reported, rows, expired, pruned, recorder,
                    process>>
    BY <1>8 DEF Collect, RemoveTranscripts, EndSweep, Check
  <2>2. QED
    BY <2>1 DEF JournalType, Accounted, Ledger, Queued
<1>9. CASE UNCHANGED journalVars
  BY <1>9 DEF journalVars, JournalType, Accounted, Ledger, Queued
<1>10. CASE \E t \in Turns : AppendTranscript(t) \/ Record(t) \/ CountDropped(t) \/ Expire(t)
  BY <1>1, <1>2, <1>2a, <1>6, <1>10
<1>11. CASE \E w \in Sweepers : \/ Collect(w) \/ Delete(w) \/ RemoveTranscripts(w) \/ EndSweep(w)
                               \/ \E s \in Conversations : Check(w, s)
  BY <1>7, <1>8, <1>11
<1>12. QED
  BY <1>3, <1>4, <1>5, <1>9, <1>10, <1>11 DEF JournalNext, Ended

\* Turns, the writer, sweeps and the end of the daemon interleave: what a full buffer or a
\* failed batch loses is reported, and only what the recorder has in hand when the process
\* ends before its writer is lost without a word.
THEOREM LossIsReported == JournalSpec => []NothingLostSilently
<1>1. JournalInit => JournalInv
  BY ElemsEmpty DEF JournalInit, JournalInv, JournalType, Accounted, Ledger, Queued, Distinct
<1>2. JournalInv /\ [JournalNext]_journalVars => JournalInv'
  BY RecorderNext
<1>3. JournalInv => NothingLostSilently
  BY ElemsEmpty DEF JournalInv, Accounted, NothingLostSilently, Queued, InHand
<1>4. QED
  BY <1>1, <1>2, <1>3, PTL DEF JournalSpec

SweepType == [at : {"idle", "delete", "check", "remove"}, old : SUBSET (Turns \cup Conversations),
              refs : SUBSET Conversations]

TranscriptType ==
    /\ ref \in [Turns -> Conversations \cup {NoRef}]
    /\ blobs \in [Conversations -> SUBSET Turns]
    /\ sweep \in [Sweepers -> SweepType]

\* The sweep w will still look at the transcript of s, or is about to remove it.
Sweeping(w, s) ==
    \/ sweep[w].at \in {"check", "remove"} /\ s \in sweep[w].refs
    \/ sweep[w].at = "remove" /\ s \in sweep[w].old

\* An event that was not pruned points at the transcript of s.
Named(s) == \E t \in Turns : ref[t] = s /\ t \notin pruned

TranscriptInv ==
    /\ TranscriptType
    /\ \A t \in Turns : ref[t] # NoRef => ref[t] = ConversationOf[t] /\ turn[t] # "running"
    \* what a sweep is about to delete it has the transcripts of
    /\ \A w \in Sweepers : sweep[w].at = "delete" =>
          /\ sweep[w].old \subseteq rows \cup pruned
          /\ \A t \in rows \cap sweep[w].old : ref[t] = NoRef \/ ref[t] \in sweep[w].refs
    \* a transcript has an event that names it or a sweep that will look at it
    /\ ~faulty => \A s \in Conversations :
          blobs[s] # {} => Named(s) \/ \E w \in Sweepers : Sweeping(w, s)

\* A step that is not a sweep's.
LEMMA TurnKeepsTranscripts ==
    ASSUME JournalInv, TranscriptInv,
           UNCHANGED <<ref, blobs, pruned, sweep, faulty>>, rows \subseteq rows',
           rows' \subseteq rows \cup Queued,
           \A t \in Turns : turn[t] # "running" => turn'[t] # "running"
    PROVE  TranscriptInv'
<1>1. TranscriptType'
  BY DEF TranscriptInv, TranscriptType
<1>2. \A s \in Conversations : (Named(s)' = Named(s)) /\ \A w \in Sweepers : Sweeping(w, s)' = Sweeping(w, s)
  BY DEF Named, Sweeping
<1>3. ASSUME NEW w \in Sweepers, sweep[w].at = "delete"
      PROVE  /\ sweep[w].old \subseteq rows' \cup pruned
             /\ \A t \in rows' \cap sweep[w].old : ref[t] = NoRef \/ ref[t] \in sweep[w].refs
  BY <1>3 DEF TranscriptInv, JournalInv, Ledger
<1>4. \A t \in Turns : ref[t] # NoRef => ref[t] = ConversationOf[t] /\ turn'[t] # "running"
  BY DEF TranscriptInv
<1>5. ~faulty => \A s \in Conversations :
          blobs[s] # {} => Named(s) \/ \E w \in Sweepers : Sweeping(w, s)
  BY DEF TranscriptInv
<1>6. QED
  BY <1>1, <1>2, <1>3, <1>4, <1>5 DEF TranscriptInv

\* A step of the sweep w, given what it makes of its own record and of the transcripts.
LEMMA SweepKeepsTranscripts ==
    ASSUME JournalInv, TranscriptInv, NEW w \in Sweepers, NEW r \in SweepType,
           sweep' = [sweep EXCEPT ![w] = r], UNCHANGED <<turn, ref>>,
           rows' \subseteq rows, rows \cup pruned \subseteq rows' \cup pruned',
           blobs' \in [Conversations -> SUBSET Turns],
           r.at = "delete" =>
              /\ r.old \subseteq rows' \cup pruned'
              /\ \A t \in rows' \cap r.old : ref[t] = NoRef \/ ref[t] \in r.refs,
           ~faulty' => ~faulty,
           ~faulty' => \A s \in Conversations : blobs'[s] # {} =>
              /\ blobs[s] # {}
              /\ Named(s) => Named(s)' \/ Sweeping(w, s)'
              /\ Sweeping(w, s) => Named(s)' \/ Sweeping(w, s)'
    PROVE  TranscriptInv'
<1>1. TranscriptType' /\ sweep'[w] = r /\ \A v \in Sweepers : v # w => sweep'[v] = sweep[v]
  BY DEF TranscriptInv, TranscriptType
<1>2. \A s \in Conversations, v \in Sweepers : v # w => Sweeping(v, s)' = Sweeping(v, s)
  BY <1>1 DEF Sweeping
<1>3. ASSUME NEW v \in Sweepers, sweep'[v].at = "delete"
      PROVE  /\ sweep'[v].old \subseteq rows' \cup pruned'
             /\ \A t \in rows' \cap sweep'[v].old : ref[t] = NoRef \/ ref[t] \in sweep'[v].refs
  <2>1. CASE v = w
    BY <2>1, <1>1, <1>3
  <2>2. CASE v # w
    BY <2>2, <1>1, <1>3 DEF TranscriptInv
  <2>3. QED
    BY <2>1, <2>2
<1>4. ASSUME ~faulty', NEW s \in Conversations, blobs'[s] # {}
      PROVE  Named(s)' \/ \E v \in Sweepers : Sweeping(v, s)'
  <2>1. Named(s) \/ \E v \in Sweepers : Sweeping(v, s)
    BY <1>4 DEF TranscriptInv
  <2>2. CASE Named(s) \/ Sweeping(w, s)
    BY <2>2, <1>4
  <2>3. CASE \E v \in Sweepers : v # w /\ Sweeping(v, s)
    BY <2>3, <1>2
  <2>4. QED
    BY <2>1, <2>2, <2>3
<1>5. \A t \in Turns : ref'[t] # NoRef => ref'[t] = ConversationOf[t] /\ turn'[t] # "running"
  BY DEF TranscriptInv
<1>6. QED
  BY <1>1, <1>3, <1>4, <1>5 DEF TranscriptInv

\* A row is deleted only after its transcript was noted, and a noted transcript leaves the
\* sweep's hands removed or named by a row that is still there.
LEMMA TranscriptNext ==
    ASSUME JournalInv, TranscriptInv, [JournalNext]_journalVars
    PROVE  TranscriptInv'
<1>1. ASSUME NEW t \in Turns, AppendTranscript(t) PROVE TranscriptInv'
  <2>1. UNCHANGED <<rows, pruned, sweep, faulty>> /\ turn[t] = "running"
        /\ turn' = [turn EXCEPT ![t] = "transcribed"]
    BY <1>1 DEF AppendTranscript
  <2>2. CASE UNCHANGED <<ref, blobs>>
    BY <2>1, <2>2, TurnKeepsTranscripts DEF JournalInv, JournalType
  <2>3. CASE ref' = [ref EXCEPT ![t] = ConversationOf[t]]
             /\ blobs' = [blobs EXCEPT ![ConversationOf[t]] = @ \cup {t}]
    <3>1. ConversationOf[t] \in Conversations
      BY DEF Conversations
    <3>2. TranscriptType'
      BY <2>1, <2>3, <3>1 DEF TranscriptInv, TranscriptType
    <3>3. ref[t] = NoRef /\ t \notin rows \cup pruned
      BY <2>1 DEF TranscriptInv, JournalInv, Ledger
    <3>4. /\ ref'[t] = ConversationOf[t] /\ \A x \in Turns : x # t => ref'[x] = ref[x]
          /\ \A s \in Conversations : s # ConversationOf[t] => blobs'[s] = blobs[s]
          /\ turn'[t] # "running" /\ \A x \in Turns : x # t => turn'[x] = turn[x]
      BY <2>1, <2>3 DEF TranscriptInv, TranscriptType, JournalInv, JournalType
    <3>5. \A s \in Conversations : /\ Named(s) => Named(s)'
                                   /\ \A w \in Sweepers : Sweeping(w, s) => Sweeping(w, s)'
      BY <2>1, <3>3, <3>4, NoRefAssumption DEF Named, Sweeping
    <3>6. Named(ConversationOf[t])'
      BY <2>1, <3>3, <3>4 DEF Named
    <3>7. \A x \in rows : x \in Turns /\ x # t
      BY <3>3 DEF JournalInv, JournalType
    <3>8. \A w \in Sweepers : sweep[w].at = "delete" =>
             /\ sweep[w].old \subseteq rows \cup pruned
             /\ \A x \in rows \cap sweep[w].old : ref'[x] = NoRef \/ ref'[x] \in sweep[w].refs
      BY <3>4, <3>7 DEF TranscriptInv
    <3>9. ~faulty => \A s \in Conversations :
             blobs'[s] # {} => Named(s)' \/ \E w \in Sweepers : Sweeping(w, s)'
      BY <3>4, <3>5, <3>6 DEF TranscriptInv
    <3>10. \A x \in Turns : ref'[x] # NoRef => ref'[x] = ConversationOf[x] /\ turn'[x] # "running"
      BY <3>4 DEF TranscriptInv
    <3>11. QED
      BY <2>1, <3>2, <3>8, <3>9, <3>10 DEF TranscriptInv
  <2>4. QED
    BY <1>1, <2>2, <2>3 DEF AppendTranscript
<1>2. ASSUME NEW t \in Turns, Record(t) \/ CountDropped(t) PROVE TranscriptInv'
  <2>1. \A x \in Turns : turn[x] # "running" => turn'[x] # "running"
    BY <1>2 DEF Record, CountDropped, JournalInv, JournalType
  <2>2. UNCHANGED <<ref, blobs, rows, pruned, sweep, faulty>>
    BY <1>2 DEF Record, CountDropped
  <2>3. QED
    BY <2>1, <2>2, TurnKeepsTranscripts
<1>3. CASE Take \/ FlushFull \/ Tick \/ Drained \/ CloseJournal \/ ExitDaemon
  <2>1. UNCHANGED <<turn, ref, blobs, pruned, sweep, faulty>>
    BY <1>3 DEF Take, FlushFull, Tick, Drained, CloseJournal, ExitDaemon
  <2>2. rows' = rows \/ rows' = rows \cup Elems(batch)
    BY <1>3 DEF Take, FlushFull, Tick, Drained, CloseJournal, ExitDaemon, AppendBatch
  <2>3. QED
    BY <2>1, <2>2, TurnKeepsTranscripts DEF Queued
<1>4. ASSUME NEW t \in Turns, Expire(t) PROVE TranscriptInv'
  BY <1>4, TurnKeepsTranscripts DEF Expire
<1>5. ASSUME NEW w \in Sweepers, Collect(w) PROVE TranscriptInv'
  <2> DEFINE r == [at |-> "delete", old |-> expired, refs |-> ExpiringBlobRefs(rows \cap expired)]
  <2>1. sweep' = [sweep EXCEPT ![w] = r] /\ sweep[w].at = "idle"
        /\ UNCHANGED <<turn, ref, blobs, rows, pruned, faulty>>
    BY <1>5 DEF Collect
  <2>2. /\ rows \subseteq Turns /\ expired \subseteq rows \cup pruned /\ pruned \subseteq Turns
        /\ \A t \in rows \cap expired : ref[t] = NoRef \/ ref[t] \in r.refs
        /\ r.refs \subseteq Conversations
    BY DEF JournalInv, JournalType, Ledger, TranscriptInv, TranscriptType, ExpiringBlobRefs, Refs
  <2>3. r \in SweepType
    BY <2>2 DEF SweepType
  <2>4. \A s \in Conversations : (Named(s)' = Named(s)) /\ ~Sweeping(w, s)
    BY <2>1 DEF Named, Sweeping
  <2>5. blobs' \in [Conversations -> SUBSET Turns]
    BY <2>1 DEF TranscriptInv, TranscriptType
  <2> HIDE DEF r
  <2>6. r.old = expired
    BY DEF r
  <2>7. QED
    BY <2>1, <2>2, <2>3, <2>4, <2>5, <2>6, SweepKeepsTranscripts
<1>6. ASSUME NEW w \in Sweepers, Delete(w) PROVE TranscriptInv'
  <2> DEFINE r == [sweep[w] EXCEPT !.at = "check"]
  <2>1. sweep' = [sweep EXCEPT ![w] = r] /\ sweep[w].at = "delete"
        /\ UNCHANGED <<turn, ref, blobs, faulty>>
        /\ rows' = rows \ sweep[w].old /\ pruned' = pruned \cup (rows \cap sweep[w].old)
    BY <1>6 DEF Delete
  <2>2. sweep[w] \in SweepType /\ blobs' \in [Conversations -> SUBSET Turns]
        /\ sweep'[w] = r /\ r \in SweepType /\ r.at = "check" /\ r.refs = sweep[w].refs
    BY <2>1 DEF TranscriptInv, TranscriptType, SweepType
  <2>3. ASSUME NEW s \in Conversations, Named(s) PROVE Named(s)' \/ Sweeping(w, s)'
    <3>1. PICK t \in Turns : ref[t] = s /\ t \notin pruned
      BY <2>3 DEF Named
    <3>2. CASE t \in rows \cap sweep[w].old
      <4>1. s \in sweep[w].refs
        BY <2>1, <3>1, <3>2, NoRefAssumption DEF TranscriptInv
      <4>2. QED
        BY <4>1, <2>2 DEF Sweeping
    <3>3. CASE t \notin rows \cap sweep[w].old
      BY <3>1, <3>3, <2>1 DEF Named
    <3>4. QED
      BY <3>2, <3>3
  <2>4. \A s \in Conversations : ~Sweeping(w, s)
    BY <2>1 DEF Sweeping
  <2> HIDE DEF r
  <2>5. QED
    BY <2>1, <2>2, <2>3, <2>4, SweepKeepsTranscripts
<1>7. ASSUME NEW w \in Sweepers, NEW s \in Conversations, Check(w, s) PROVE TranscriptInv'
  <2> DEFINE r == [at   |-> IF Referenced(s) THEN "check" ELSE "remove",
                   old  |-> IF Referenced(s) THEN sweep[w].old ELSE {s},
                   refs |-> sweep[w].refs \ {s}]
  <2>1. sweep' = [sweep EXCEPT ![w] = r] /\ sweep[w].at = "check" /\ s \in sweep[w].refs
        /\ UNCHANGED <<turn, ref, blobs, rows, pruned, faulty>>
    BY <1>7 DEF Check
  <2>2. sweep[w] \in SweepType /\ blobs' \in [Conversations -> SUBSET Turns]
        /\ sweep'[w] = r
    BY <2>1 DEF TranscriptInv, TranscriptType
  <2>3. r \in SweepType /\ r.at \in {"check", "remove"} /\ r.refs = sweep[w].refs \ {s}
        /\ (~Referenced(s) => r.at = "remove" /\ r.old = {s})
    BY <2>1, <2>2 DEF SweepType
  <2>4. \A x \in Conversations : Named(x)' = Named(x)
    BY <2>1 DEF Named
  <2>5. Referenced(s) => Named(s)
    BY DEF Referenced, Refs, Named, JournalInv, JournalType, Ledger
  <2>6. ASSUME NEW x \in Conversations, Sweeping(w, x) PROVE Named(x) \/ Sweeping(w, x)'
    BY <2>1, <2>2, <2>3, <2>5, <2>6 DEF Sweeping
  <2> HIDE DEF r
  <2>7. QED
    BY <2>1, <2>2, <2>3, <2>4, <2>6, SweepKeepsTranscripts
<1>8. ASSUME NEW w \in Sweepers, RemoveTranscripts(w) PROVE TranscriptInv'
  <2> DEFINE r == [sweep[w] EXCEPT !.at = "check"]
  <2>1. sweep' = [sweep EXCEPT ![w] = r] /\ sweep[w].at = "remove"
        /\ UNCHANGED <<turn, ref, rows, pruned>>
    BY <1>8 DEF RemoveTranscripts
  <2>2. sweep[w] \in SweepType /\ sweep'[w] = r /\ r \in SweepType /\ r.at = "check"
        /\ r.refs = sweep[w].refs
    BY <2>1 DEF TranscriptInv, TranscriptType, SweepType
  <2>3. blobs' \in [Conversations -> SUBSET Turns]
    BY <1>8 DEF RemoveTranscripts, TranscriptInv, TranscriptType
  <2>4. ~faulty' => ~faulty /\ \A s \in Conversations :
           blobs'[s] = IF s \in sweep[w].old THEN {} ELSE blobs[s]
    BY <1>8 DEF RemoveTranscripts
  <2>5. \A s \in Conversations : Named(s)' = Named(s)
    BY <2>1 DEF Named
  <2>6. \A s \in Conversations : s \notin sweep[w].old => (Sweeping(w, s) => Sweeping(w, s)')
    BY <2>1, <2>2 DEF Sweeping
  <2> HIDE DEF r
  <2>7. QED
    BY <2>1, <2>2, <2>3, <2>4, <2>5, <2>6, SweepKeepsTranscripts
<1>9. ASSUME NEW w \in Sweepers, EndSweep(w) PROVE TranscriptInv'
  <2>1. sweep' = [sweep EXCEPT ![w] = Swept] /\ UNCHANGED <<turn, ref, blobs, rows, pruned>>
        /\ (~faulty' => ~faulty /\ sweep[w].at = "check" /\ sweep[w].refs = {})
    BY <1>9 DEF EndSweep
  <2>2. Swept \in SweepType /\ Swept.at = "idle" /\ blobs' \in [Conversations -> SUBSET Turns]
    BY <2>1 DEF Swept, SweepType, TranscriptInv, TranscriptType
  <2>3. ~faulty' => \A s \in Conversations : ~Sweeping(w, s)
    BY <2>1 DEF Sweeping
  <2>4. \A s \in Conversations : Named(s)' = Named(s)
    BY <2>1 DEF Named
  <2>5. QED
    BY <2>1, <2>2, <2>3, <2>4, SweepKeepsTranscripts
<1>10. CASE UNCHANGED journalVars
  BY <1>10, TurnKeepsTranscripts DEF journalVars
<1>11. CASE \E t \in Turns : AppendTranscript(t) \/ Record(t) \/ CountDropped(t) \/ Expire(t)
  BY <1>1, <1>2, <1>4, <1>11
<1>12. CASE \E w \in Sweepers : \/ Collect(w) \/ Delete(w) \/ RemoveTranscripts(w) \/ EndSweep(w)
                               \/ \E s \in Conversations : Check(w, s)
  BY <1>5, <1>6, <1>7, <1>8, <1>9, <1>12
<1>13. QED
  BY <1>3, <1>10, <1>11, <1>12 DEF JournalNext, Ended

\* The transcript of a session whose events were all pruned goes with them, whatever the
\* daemon's sweeper and the prune tool do at once, as long as no sweep failed.
THEOREM TranscriptsGo == JournalSpec => []PrunedTranscriptsRemoved
<1>1. JournalInit => JournalInv /\ TranscriptInv
  <2>1. JournalInit => JournalInv
    BY ElemsEmpty DEF JournalInit, JournalInv, JournalType, Accounted, Ledger, Queued, Distinct
  <2>2. JournalInit => TranscriptInv
    BY DEF JournalInit, TranscriptInv, TranscriptType, Swept, SweepType
  <2>3. QED
    BY <2>1, <2>2
<1>2. JournalInv /\ TranscriptInv /\ [JournalNext]_journalVars => (JournalInv /\ TranscriptInv)'
  BY RecorderNext, TranscriptNext
<1>3. JournalInv /\ TranscriptInv => PrunedTranscriptsRemoved
  <2> SUFFICES ASSUME JournalInv, TranscriptInv, NEW s \in Conversations, blobs[s] # {}, ~faulty,
                      \A w \in Sweepers : sweep[w].at = "idle"
               PROVE  \E t \in Turns : ConversationOf[t] = s /\ turn[t] # "running" /\ t \notin pruned
    BY DEF PrunedTranscriptsRemoved
  <2>1. \A w \in Sweepers : ~Sweeping(w, s)
    BY DEF Sweeping
  <2>2. PICK t \in Turns : ref[t] = s /\ t \notin pruned
    BY <2>1 DEF TranscriptInv, Named
  <2>3. QED
    BY <2>2, NoRefAssumption DEF TranscriptInv
<1>4. QED
  BY <1>1, <1>2, <1>3, PTL DEF JournalSpec

-----------------------------------------------------------------------------
(* Workflow: the engine and the previews.                                   *)

\* A set of rules has a first one.
LEMMA FirstExists ==
    ASSUME NEW S, S \subseteq Nat, S # {}
    PROVE  \E x \in S : \A y \in S : x <= y
<1>1. PICK x \in S : \A y \in S : ~(<<y, x>> \in OpToRel(<, Nat))
  BY NatLessThanWellFounded, WFMin
<1>2. \A y \in S : ~(y < x)
  BY <1>1 DEF OpToRel
<1>3. QED
  BY <1>2

LEMMA FirstRuleIsFirst ==
    ASSUME NEW c, Matching(c) # {}
    PROVE  /\ FirstRule(c) \in DOMAIN Settings.rules
           /\ Settings.rules[FirstRule(c)].match \subseteq c.facts
           /\ \A s \in DOMAIN Settings.rules :
                s < FirstRule(c) => ~(Settings.rules[s].match \subseteq c.facts)
<1>1. Matching(c) \subseteq Nat
  BY WorkflowAssumption DEF Matching
<1>2. \E x \in Matching(c) : \A y \in Matching(c) : x <= y
  BY <1>1, FirstExists
<1>3. FirstRule(c) \in Matching(c) /\ \A y \in Matching(c) : FirstRule(c) <= y
  BY <1>2 DEF FirstRule
<1>4. ASSUME NEW s \in DOMAIN Settings.rules, s < FirstRule(c)
      PROVE  s \notin Matching(c)
  BY <1>1, <1>3, <1>4, WorkflowAssumption
<1>5. QED
  BY <1>3, <1>4, WorkflowAssumption DEF Matching

LEMMA FirstUnfurlIsFirst ==
    ASSUME NEW link, NEW channel, RulesFor(link, channel) # {}
    PROVE  /\ FirstUnfurl(link, channel) \in DOMAIN Settings.unfurls
           /\ Applies(Settings.unfurls[FirstUnfurl(link, channel)], link, channel)
           /\ \A s \in DOMAIN Settings.unfurls :
                s < FirstUnfurl(link, channel) => ~Applies(Settings.unfurls[s], link, channel)
<1> DEFINE S == RulesFor(link, channel)
<1>1. S \subseteq Nat
  BY WorkflowAssumption DEF RulesFor
<1>2. \E x \in S : \A y \in S : x <= y
  BY <1>1, FirstExists
<1>3. FirstUnfurl(link, channel) \in S /\ \A y \in S : FirstUnfurl(link, channel) <= y
  BY <1>2 DEF FirstUnfurl
<1>4. ASSUME NEW s \in DOMAIN Settings.unfurls, s < FirstUnfurl(link, channel)
      PROVE  s \notin S
  BY <1>1, <1>3, <1>4, WorkflowAssumption
<1>5. QED
  BY <1>3, <1>4 DEF RulesFor

\* An execution of a rule: whose it is, how far it is and what it carried out.
RuleRun == [click : Clicks, rule : DOMAIN Settings.rules, next : Nat \ {0},
            effects : Seq(Nat), state : {"running", "failed"}]

Skippable(t) == t.action = "reply-to-slack" /\ t.source.delegate # Absent

\* It is of the first rule that matches, for a user who may click, and what it carried
\* out is every trigger before the next one, in order, but for replies it skipped.
Chosen(x) ==
    /\ x.click.kind \notin Range(BuiltIns) /\ IsAllowedUser(Settings.access, x.click.user)
    /\ Settings.rules[x.rule].match \subseteq x.click.facts
    /\ \A s \in DOMAIN Settings.rules :
         s < x.rule => ~(Settings.rules[s].match \subseteq x.click.facts)

InSequence(x) ==
    /\ \A j \in 1..Len(x.effects) : x.effects[j] < x.next
    /\ \A j, k \in 1..Len(x.effects) : j < k => x.effects[j] < x.effects[k]
    /\ \A g \in 1..(x.next - 1) :
         \/ \E j \in 1..Len(x.effects) : x.effects[j] = g
         \/ Skippable(Settings.rules[x.rule].triggers[g])

Followed(x) == Chosen(x) /\ InSequence(x)

RulesInv ==
    /\ runs \in Seq(RuleRun)
    /\ \A i \in 1..Len(runs) : Followed(runs[i])
    /\ \A x \in claimed : x[2] = x[1].kind \/ x[2] = "workflow"

LEMMA EngineOwns ==
    ASSUME NEW c, Owner(c) = "workflow"
    PROVE  c.kind \notin Range(BuiltIns)
<1>1. Range(BuiltIns) = {BuiltIns[i] : i \in 1..Len(BuiltIns)}
  BY DEF Range, BuiltIns
<1>2. \A i \in 1..Len(BuiltIns) : BuiltIns[i] # "workflow"
  BY DEF BuiltIns
<1>3. QED
  BY <1>1, <1>2 DEF Owner

\* An execution that begins.
LEMMA Begins ==
    ASSUME NEW c \in Clicks, Matching(c) # {}, Owner(c) = "workflow",
           IsAllowedUser(Settings.access, c.user)
    PROVE  LET x == [click |-> c, rule |-> FirstRule(c), next |-> 1,
                     effects |-> <<>>, state |-> "running"]
           IN  x \in RuleRun /\ Followed(x)
<1> DEFINE x == [click |-> c, rule |-> FirstRule(c), next |-> 1,
                 effects |-> <<>>, state |-> "running"]
<1>1. x \in RuleRun
  BY FirstRuleIsFirst DEF RuleRun
<1>2. Chosen(x)
  BY FirstRuleIsFirst, EngineOwns DEF Chosen
<1>3. InSequence(x)
  BY DEF InSequence
<1>4. QED
  BY <1>1, <1>2, <1>3 DEF Followed

\* An execution whose next trigger took effect, was skipped, or failed.
LEMMA GoesOn ==
    ASSUME NEW x \in RuleRun, Followed(x)
    PROVE  /\ CarriedOut(x) \in RuleRun /\ Followed(CarriedOut(x))
           /\ Skippable(Settings.rules[x.rule].triggers[x.next]) =>
                /\ [x EXCEPT !.next = x.next + 1] \in RuleRun
                /\ Followed([x EXCEPT !.next = x.next + 1])
           /\ [x EXCEPT !.state = "failed"] \in RuleRun
           /\ Followed([x EXCEPT !.state = "failed"])
<1> DEFINE y == CarriedOut(x)
           z == [x EXCEPT !.next = x.next + 1]
           f == [x EXCEPT !.state = "failed"]
<1>0. x = [click |-> x.click, rule |-> x.rule, next |-> x.next, effects |-> x.effects,
           state |-> x.state]
  BY DEF RuleRun
<1>1. /\ x.next \in Nat \ {0} /\ x.effects \in Seq(Nat) /\ x.click \in Clicks
      /\ x.rule \in DOMAIN Settings.rules /\ x.state \in {"running", "failed"}
  BY DEF RuleRun
<1>2. /\ y \in RuleRun /\ y.click = x.click /\ y.rule = x.rule /\ y.next = x.next + 1
      /\ y.effects = Append(x.effects, x.next)
  <2> DEFINE n == x.next + 1
             e == Append(x.effects, x.next)
  <2>1. n \in Nat \ {0} /\ e \in Seq(Nat)
    BY <1>1
  <2>2. y = [x EXCEPT !.next = n, !.effects = e]
    BY DEF CarriedOut
  <2> HIDE DEF n, e, y
  <2>3. y \in RuleRun
    BY <2>1, <2>2 DEF RuleRun
  <2>4. y.next = n /\ y.effects = e
    BY <2>2 DEF RuleRun
  <2>5. y.click = x.click /\ y.rule = x.rule
    BY <2>2 DEF RuleRun
  <2>6. QED
    BY <2>3, <2>4, <2>5 DEF n, e
<1>3. /\ z \in RuleRun /\ z.click = x.click /\ z.rule = x.rule /\ z.next = x.next + 1
      /\ z.effects = x.effects
  <2>1. z = [click |-> x.click, rule |-> x.rule, next |-> x.next + 1,
             effects |-> x.effects, state |-> x.state]
    BY <1>0
  <2>2. x.next + 1 \in Nat \ {0}
    BY <1>1
  <2>3. QED
    BY <1>1, <2>1, <2>2 DEF RuleRun
<1>4. /\ f \in RuleRun /\ f.click = x.click /\ f.rule = x.rule /\ f.next = x.next
      /\ f.effects = x.effects
  BY DEF RuleRun
<1>5. Chosen(y) /\ Chosen(z) /\ Chosen(f)
  BY <1>2, <1>3, <1>4 DEF Followed, Chosen
<1>6. InSequence(y)
  <2> DEFINE e == x.effects
             w == y.effects
  <2>1. /\ Len(w) = Len(e) + 1 /\ w[Len(e) + 1] = x.next
        /\ \A j \in 1..Len(e) : w[j] = e[j]
    BY <1>1, <1>2
  <2>2. \A j \in 1..Len(w) : j \in 1..Len(e) \/ j = Len(e) + 1
    BY <1>1, <2>1
  <2>3. \A j \in 1..Len(e) : e[j] \in Nat /\ e[j] < x.next /\ j \in 1..Len(w)
    BY <1>1, <2>1 DEF Followed, InSequence
  <2>4. \A j \in 1..Len(w) : w[j] < y.next
    BY <1>1, <1>2, <2>1, <2>2, <2>3
  <2>5. \A j, k \in 1..Len(w) : j < k => w[j] < w[k]
    <3> SUFFICES ASSUME NEW j \in 1..Len(w), NEW k \in 1..Len(w), j < k
                 PROVE  w[j] < w[k]
      OBVIOUS
    <3>1. j \in 1..Len(e)
      BY <1>1, <2>1
    <3>2. CASE k \in 1..Len(e)
      BY <3>1, <3>2, <2>1 DEF Followed, InSequence
    <3>3. CASE k = Len(e) + 1
      BY <3>1, <3>3, <2>1, <2>3
    <3>4. QED
      BY <3>2, <3>3, <2>2
  <2>6. ASSUME NEW g \in 1..(y.next - 1)
        PROVE  \/ \E j \in 1..Len(w) : w[j] = g
               \/ Skippable(Settings.rules[y.rule].triggers[g])
    <3>1. CASE g = x.next
      <4>1. Len(e) + 1 \in 1..Len(w)
        BY <1>1, <2>1
      <4>2. QED
        BY <3>1, <4>1, <2>1
    <3>2. CASE g # x.next
      <4>1. g \in 1..(x.next - 1)
        BY <3>2, <1>1, <1>2
      <4>2. QED
        BY <4>1, <1>2, <2>1, <2>3 DEF Followed, InSequence
    <3>3. QED
      BY <3>1, <3>2
  <2>7. QED
    BY <2>4, <2>5, <2>6 DEF InSequence
<1>7. Skippable(Settings.rules[x.rule].triggers[x.next]) => InSequence(z)
  <2> SUFFICES ASSUME Skippable(Settings.rules[x.rule].triggers[x.next])
               PROVE  InSequence(z)
    OBVIOUS
  <2>1. \A j \in 1..Len(x.effects) : x.effects[j] \in Nat /\ x.effects[j] < z.next
    BY <1>1, <1>3 DEF Followed, InSequence
  <2>2. \A g \in 1..(z.next - 1) : g \in 1..(x.next - 1) \/ g = x.next
    BY <1>1, <1>3
  <2>3. QED
    BY <1>3, <2>1, <2>2 DEF Followed, InSequence
<1>8. InSequence(f)
  BY <1>4 DEF Followed, InSequence
<1>9. QED
  BY <1>2, <1>3, <1>4, <1>5, <1>6, <1>7, <1>8 DEF Followed

LEMMA RulesNext ==
    ASSUME RulesInv, [WorkflowNext]_wvars
    PROVE  RulesInv'
<1>0. runs \in Seq(RuleRun) /\ \A i \in 1..Len(runs) : runs[i] \in RuleRun /\ Followed(runs[i])
  BY DEF RulesInv
<1>1. ASSUME NEW c \in Clicks, Interactive(c)
      PROVE  RulesInv'
  <2>1. \A x \in claimed' : x[2] = x[1].kind \/ x[2] = "workflow"
    <3>1. Owner(c) = c.kind \/ Owner(c) = "workflow"
      BY DEF Owner
    <3>2. claimed' \subseteq claimed \cup {<<c, Owner(c)>>}
      BY <1>1 DEF Interactive
    <3>3. QED
      BY <3>1, <3>2 DEF RulesInv
  <2>2. CASE UNCHANGED runs
    BY <2>1, <2>2 DEF RulesInv
  <2>3. CASE ~UNCHANGED runs
    <3>1. /\ IsAllowedUser(Settings.access, c.user) /\ Owner(c) = "workflow" /\ Matching(c) # {}
      BY <1>1, <2>3 DEF Interactive, Execute
    <3> DEFINE x == [click |-> c, rule |-> FirstRule(c), next |-> 1,
                     effects |-> <<>>, state |-> "running"]
    <3>2. runs' = Append(runs, x)
      BY <1>1, <2>3 DEF Interactive, Execute
    <3>3. x \in RuleRun /\ Followed(x)
      BY <3>1, Begins
    <3> HIDE DEF x
    <3>4. /\ runs' \in Seq(RuleRun) /\ Len(runs') = Len(runs) + 1
          /\ runs'[Len(runs) + 1] = x
          /\ \A i \in 1..Len(runs) : runs'[i] = runs[i]
      BY <1>0, <3>2, <3>3
    <3>5. \A i \in 1..Len(runs') : i \in 1..Len(runs) \/ i = Len(runs) + 1
      BY <1>0, <3>4
    <3>6. \A i \in 1..Len(runs') : Followed(runs'[i])
      BY <1>0, <3>3, <3>4, <3>5
    <3>7. QED
      BY <2>1, <3>4, <3>6 DEF RulesInv
  <2>4. QED
    BY <2>2, <2>3
<1>2. ASSUME NEW i \in 1..Len(runs), Reply(i) \/ RunCommand(i) \/ Delegate(i)
      PROVE  RulesInv'
  <2> DEFINE x == runs[i]
  <2>1. UNCHANGED claimed
    BY <1>2 DEF Reply, RunCommand, Delegate
  <2>2. \/ Done(i) \/ Failed(i)
        \/ Skippable(Settings.rules[x.rule].triggers[x.next]) /\ Skipped(i)
    BY <1>2 DEF Reply, RunCommand, Delegate, Skippable, Trigger
  <2>3. x \in RuleRun /\ Followed(x)
    BY <1>0
  <2>4. \E y \in RuleRun : Followed(y) /\ runs' = [runs EXCEPT ![i] = y]
    <3>1. CASE Done(i)
      BY <3>1, <2>3, GoesOn DEF Done
    <3>2. CASE Failed(i)
      <4>1. runs' = [runs EXCEPT ![i] = [x EXCEPT !.state = "failed"]]
        BY <3>2 DEF Failed
      <4>2. QED
        BY <4>1, <2>3, GoesOn
    <3>3. CASE Skippable(Settings.rules[x.rule].triggers[x.next]) /\ Skipped(i)
      <4>1. runs' = [runs EXCEPT ![i] = [x EXCEPT !.next = x.next + 1]]
        BY <3>3 DEF Skipped
      <4>2. QED
        BY <3>3, <4>1, <2>3, GoesOn
    <3>4. QED
      BY <2>2, <3>1, <3>2, <3>3
  <2>5. PICK y \in RuleRun : Followed(y) /\ runs' = [runs EXCEPT ![i] = y]
    BY <2>4
  <2>6. /\ runs' \in Seq(RuleRun) /\ Len(runs') = Len(runs)
        /\ \A j \in 1..Len(runs) : runs'[j] = IF j = i THEN y ELSE runs[j]
    BY <1>0, <2>5
  <2>7. \A j \in 1..Len(runs') : Followed(runs'[j])
    BY <1>0, <2>5, <2>6
  <2>8. QED
    BY <2>1, <2>6, <2>7 DEF RulesInv
<1>3. ASSUME \/ \E e \in Shared : LinkShared(e)
             \/ \E i \in 1..Len(previews) : BuildLink(i) \/ PostUnfurl(i)
             \/ UNCHANGED wvars
      PROVE  RulesInv'
  <2>1. UNCHANGED <<runs, claimed>>
    BY <1>3 DEF LinkShared, BuildLink, PostUnfurl, wvars
  <2>2. QED
    BY <2>1 DEF RulesInv
<1>4. QED
  BY <1>1, <1>2, <1>3 DEF WorkflowNext

\* A link of a shared message has got a preview from its first rule.
Previewed(e, b) ==
    \E j \in 1..Len(e.links) :
        /\ e.links[j].url = b[1]
        /\ Applies(Settings.unfurls[b[2]], e.links[j], e.channel)
        /\ \A s \in DOMAIN Settings.unfurls :
             s < b[2] => ~Applies(Settings.unfurls[s], e.links[j], e.channel)

URLs == UNION {{e.links[j].url : j \in 1..Len(e.links)} : e \in Shared}

Preview == [event : Shared, next : Nat \ {0}, seen : SUBSET URLs, processed : Nat,
            built : SUBSET (URLs \X DOMAIN Settings.unfurls), state : {"building", "done"}]

\* No URL of the message was counted twice, nor more than the limit, and each preview is
\* of the first rule that applies to its link.
Bounded(p) ==
    /\ ~p.event.own /\ ~p.event.composing
    /\ IsFiniteSet(p.seen) /\ Cardinality(p.seen) <= p.processed
    /\ p.processed <= MaxUnfurlLinks
    /\ \A b \in p.built : Previewed(p.event, b)

UnfurlsInv ==
    /\ previews \in Seq(Preview)
    /\ \A i \in 1..Len(previews) : Bounded(previews[i])
    /\ \A p \in posted :
         ~p.event.own /\ ~p.event.composing /\ \A b \in p.built : Previewed(p.event, b)

LEMMA PreviewIs ==
    ASSUME NEW p \in Preview
    PROVE  /\ p = [event |-> p.event, next |-> p.next, seen |-> p.seen,
                   processed |-> p.processed, built |-> p.built, state |-> p.state]
           /\ p.event \in Shared /\ p.next \in Nat \ {0} /\ p.seen \subseteq URLs
           /\ p.processed \in Nat /\ p.built \subseteq URLs \X DOMAIN Settings.unfurls
           /\ p.state \in {"building", "done"}
  BY DEF Preview

\* The next link of a message is tried, and gets a preview or none.
LEMMA TriesOne ==
    ASSUME NEW p \in Preview, Bounded(p), p.next <= Len(p.event.links),
           p.processed < MaxUnfurlLinks,
           NEW new \in Previews(p.event.links[p.next], p.event.channel)
    PROVE  LET url == p.event.links[p.next].url
           IN  Tried(p, url, new) \in Preview /\ Bounded(Tried(p, url, new))
<1> DEFINE link == p.event.links[p.next]
           y == Tried(p, link.url, new)
<1>1. /\ p.event \in Shared /\ p.next \in Nat \ {0} /\ p.seen \subseteq URLs
      /\ p.processed \in Nat /\ p.built \subseteq URLs \X DOMAIN Settings.unfurls
      /\ p.state \in {"building", "done"}
  BY PreviewIs
<1>3. Len(p.event.links) \in Nat /\ p.next \in 1..Len(p.event.links)
  BY <1>1, WorkflowAssumption
<1>4. link.url \in URLs
  BY <1>1, <1>3 DEF URLs
<1>5. /\ new \subseteq URLs \X DOMAIN Settings.unfurls
      /\ \A b \in new : Previewed(p.event, b)
  <2>1. CASE new = {}
    BY <2>1
  <2>2. CASE new # {}
    <3> DEFINE r == FirstUnfurl(link, p.event.channel)
    <3> HIDE DEF link
    <3>1. RulesFor(link, p.event.channel) # {} /\ new = {<<link.url, r>>}
      BY <2>2 DEF Previews, link
    <3>2. /\ r \in DOMAIN Settings.unfurls /\ Applies(Settings.unfurls[r], link, p.event.channel)
          /\ \A s \in DOMAIN Settings.unfurls :
               s < r => ~Applies(Settings.unfurls[s], link, p.event.channel)
      BY <3>1, FirstUnfurlIsFirst
    <3> HIDE DEF r
    <3>3. Previewed(p.event, <<link.url, r>>)
      BY <1>3, <3>2 DEF Previewed, link
    <3>4. QED
      BY <3>1, <3>2, <3>3, <1>4
  <2>3. QED
    BY <2>1, <2>2
<1>6. /\ y \in Preview /\ y.event = p.event /\ y.seen = p.seen \cup {link.url}
      /\ y.processed = p.processed + 1 /\ y.built = p.built \cup new
  <2> DEFINE n == p.next + 1
             k == p.processed + 1
             s == p.seen \cup {link.url}
             b == p.built \cup new
  <2>1. /\ n \in Nat \ {0} /\ k \in Nat
        /\ s \in SUBSET URLs /\ b \in SUBSET (URLs \X DOMAIN Settings.unfurls)
    BY <1>1, <1>4, <1>5
  <2>2. y = [p EXCEPT !.next = n, !.seen = s, !.built = b, !.processed = k]
    BY DEF Tried, TriedLinks
  <2> HIDE DEF n, k, s, b, y
  <2>3. y \in Preview
    BY <2>1, <2>2 DEF Preview
  <2>4. y.seen = s /\ y.built = b
    BY <2>2 DEF Preview
  <2>5. y.processed = k /\ y.event = p.event
    BY <2>2 DEF Preview
  <2>6. QED
    BY <2>3, <2>4, <2>5 DEF s, k, b
<1> HIDE DEF y
<1>7. Bounded(y)
  <2>1. /\ y.event = p.event /\ y.seen = p.seen \cup {link.url}
        /\ y.processed = p.processed + 1 /\ y.built = p.built \cup new
    BY <1>6
  <2>2. IsFiniteSet(y.seen) /\ Cardinality(y.seen) <= y.processed
    <3>1. /\ IsFiniteSet(p.seen \cup {link.url})
          /\ Cardinality(p.seen \cup {link.url}) =
               IF link.url \in p.seen THEN Cardinality(p.seen) ELSE Cardinality(p.seen) + 1
      BY FS_AddElement DEF Bounded
    <3>2. Cardinality(p.seen) \in Nat /\ Cardinality(p.seen) <= p.processed
      BY FS_CardinalityType DEF Bounded
    <3>3. QED
      BY <1>1, <2>1, <3>1, <3>2
  <2>3. y.processed <= MaxUnfurlLinks
    BY <1>1, <2>1, WorkflowAssumption
  <2>4. \A b \in y.built : Previewed(y.event, b)
    BY <1>5, <2>1 DEF Bounded
  <2>5. QED
    BY <2>1, <2>2, <2>3, <2>4 DEF Bounded
<1>8. QED
  BY <1>6, <1>7 DEF y

\* A link is passed over, or the loop is left.
LEMMA MovesOn ==
    ASSUME NEW p \in Preview, Bounded(p)
    PROVE  /\ [p EXCEPT !.next = p.next + 1] \in Preview
           /\ Bounded([p EXCEPT !.next = p.next + 1])
           /\ [p EXCEPT !.state = "done"] \in Preview
           /\ Bounded([p EXCEPT !.state = "done"])
<1>1. [p EXCEPT !.next = p.next + 1] = [event |-> p.event, next |-> p.next + 1,
        seen |-> p.seen, processed |-> p.processed, built |-> p.built, state |-> p.state]
  BY PreviewIs
<1>2. [p EXCEPT !.state = "done"] = [event |-> p.event, next |-> p.next,
        seen |-> p.seen, processed |-> p.processed, built |-> p.built, state |-> "done"]
  BY PreviewIs
<1>3. p.next + 1 \in Nat \ {0}
  BY PreviewIs
<1>4. [p EXCEPT !.next = p.next + 1] \in Preview /\ [p EXCEPT !.state = "done"] \in Preview
  BY <1>1, <1>2, <1>3, PreviewIs DEF Preview
<1>5. QED
  BY <1>1, <1>2, <1>4 DEF Bounded

LEMMA UnfurlsNext ==
    ASSUME UnfurlsInv, [WorkflowNext]_wvars
    PROVE  UnfurlsInv'
<1>0. previews \in Seq(Preview)
      /\ \A i \in 1..Len(previews) : previews[i] \in Preview /\ Bounded(previews[i])
  BY DEF UnfurlsInv
<1>1. ASSUME NEW e \in Shared, LinkShared(e)
      PROVE  UnfurlsInv'
  <2>1. UNCHANGED posted
    BY <1>1 DEF LinkShared
  <2>2. CASE UNCHANGED previews
    BY <2>1, <2>2 DEF UnfurlsInv
  <2>3. CASE ~UNCHANGED previews
    <3> DEFINE p == [event |-> e, next |-> 1, seen |-> {}, processed |-> 0, built |-> {},
                     state |-> "building"]
    <3>1. previews' = Append(previews, p) /\ ~e.composing /\ ~e.own
      BY <1>1, <2>3 DEF LinkShared
    <3>2. p \in Preview
      BY DEF Preview
    <3>3. Bounded(p)
      BY <3>1, FS_EmptySet, WorkflowAssumption DEF Bounded
    <3> HIDE DEF p
    <3>4. /\ previews' \in Seq(Preview) /\ Len(previews') = Len(previews) + 1
          /\ previews'[Len(previews) + 1] = p
          /\ \A i \in 1..Len(previews) : previews'[i] = previews[i]
      BY <1>0, <3>1, <3>2
    <3>5. \A i \in 1..Len(previews') : i \in 1..Len(previews) \/ i = Len(previews) + 1
      BY <1>0, <3>4
    <3>6. \A i \in 1..Len(previews') : Bounded(previews'[i])
      BY <1>0, <3>3, <3>4, <3>5
    <3>7. QED
      BY <2>1, <3>4, <3>6 DEF UnfurlsInv
  <2>4. QED
    BY <2>2, <2>3
<1>2. ASSUME NEW i \in 1..Len(previews), NEW y \in Preview, Bounded(y),
             previews' = [previews EXCEPT ![i] = y]
      PROVE  previews' \in Seq(Preview) /\ \A j \in 1..Len(previews') : Bounded(previews'[j])
  <2>1. /\ previews' \in Seq(Preview) /\ Len(previews') = Len(previews)
        /\ \A j \in 1..Len(previews) : previews'[j] = IF j = i THEN y ELSE previews[j]
    BY <1>0, <1>2
  <2>2. QED
    BY <1>0, <1>2, <2>1
<1>3. ASSUME NEW i \in 1..Len(previews), BuildLink(i)
      PROVE  UnfurlsInv'
  <2> DEFINE p == previews[i]
             link == p.event.links[p.next]
  <2>1. p \in Preview /\ Bounded(p)
    BY <1>0
  <2>2. UNCHANGED posted /\ p.next <= Len(p.event.links) /\ p.processed < MaxUnfurlLinks
    BY <1>3 DEF BuildLink
  <2>3. \/ previews' = [previews EXCEPT ![i] = [p EXCEPT !.next = p.next + 1]]
        \/ \E new \in Previews(link, p.event.channel) :
             previews' = [previews EXCEPT ![i] = Tried(p, link.url, new)]
    BY <1>3 DEF BuildLink
  <2>4. \E y \in Preview : Bounded(y) /\ previews' = [previews EXCEPT ![i] = y]
    BY <2>1, <2>2, <2>3, TriesOne, MovesOn
  <2>5. QED
    BY <1>2, <2>2, <2>4 DEF UnfurlsInv
<1>4. ASSUME NEW i \in 1..Len(previews), PostUnfurl(i)
      PROVE  UnfurlsInv'
  <2> DEFINE p == previews[i]
  <2>1. p \in Preview /\ Bounded(p)
    BY <1>0
  <2>2. previews' = [previews EXCEPT ![i] = [p EXCEPT !.state = "done"]]
    BY <1>4 DEF PostUnfurl
  <2>3. posted' \subseteq posted \cup {[event |-> p.event, built |-> p.built]}
    BY <1>4 DEF PostUnfurl
  <2>4. previews' \in Seq(Preview) /\ \A j \in 1..Len(previews') : Bounded(previews'[j])
    BY <1>2, <2>1, <2>2, MovesOn
  <2>5. \A x \in posted' : ~x.event.own /\ ~x.event.composing
                           /\ \A b \in x.built : Previewed(x.event, b)
    BY <2>1, <2>3 DEF UnfurlsInv, Bounded
  <2>6. QED
    BY <2>4, <2>5 DEF UnfurlsInv
<1>5. ASSUME \/ \E c \in Clicks : Interactive(c)
             \/ \E i \in 1..Len(runs) : Reply(i) \/ RunCommand(i) \/ Delegate(i)
             \/ UNCHANGED wvars
      PROVE  UnfurlsInv'
  <2>1. UNCHANGED <<previews, posted>>
    BY <1>5 DEF Interactive, Reply, RunCommand, Delegate, wvars
  <2>2. QED
    BY <2>1 DEF UnfurlsInv
<1>6. QED
  BY <1>1, <1>3, <1>4, <1>5 DEF WorkflowNext

\* For every configuration and however clicks and links are delivered: a button runs the
\* triggers of its first rule, in order and each once, for a user who may click; the
\* binary's own callbacks reach no rule; and a message's links are previewed within the
\* limit, each by the first rule that applies to it.
THEOREM FirstRuleRuns == WorkflowSpec => []RulesFollowed
<1>1. WorkflowInit => RulesInv /\ UnfurlsInv
  BY DEF WorkflowInit, RulesInv, UnfurlsInv
<1>2. RulesInv /\ UnfurlsInv /\ [WorkflowNext]_wvars => (RulesInv /\ UnfurlsInv)'
  BY RulesNext, UnfurlsNext
<1>3. RulesInv /\ UnfurlsInv => RulesFollowed
  <2> SUFFICES ASSUME RulesInv, UnfurlsInv
               PROVE  RulesFollowed
    OBVIOUS
  <2>1. BuiltInsFirst
    BY DEF RulesInv, Followed, Chosen, BuiltInsFirst
  <2>2. RulesInOrder
    <3> SUFFICES ASSUME NEW i \in 1..Len(runs)
                 PROVE  LET x == runs[i]
                            rule == Settings.rules[x.rule]
                            gaps == 1..(x.next - 1) \ Range(x.effects)
                        IN  /\ rule.match \subseteq x.click.facts
                            /\ \A s \in DOMAIN Settings.rules :
                                 s < x.rule => ~(Settings.rules[s].match \subseteq x.click.facts)
                            /\ \A j, k \in 1..Len(x.effects) : j < k => x.effects[j] < x.effects[k]
                            /\ \A g \in gaps : rule.triggers[g].action = "reply-to-slack"
                                               /\ rule.triggers[g].source.delegate # Absent
      BY DEF RulesInOrder
    <3>1. runs[i] \in RuleRun /\ Chosen(runs[i]) /\ InSequence(runs[i])
      BY DEF RulesInv, Followed
    <3>2. runs[i].effects \in Seq(Nat)
      BY <3>1 DEF RuleRun
    <3>3. \A j \in 1..Len(runs[i].effects) : runs[i].effects[j] \in Range(runs[i].effects)
      BY <3>2 DEF Range
    <3>4. QED
      BY <3>1, <3>3 DEF Chosen, InSequence, Skippable
  <2>3. UnfurlsBounded
    <3>1. \A i \in 1..Len(previews) : Cardinality(previews[i].seen) <= MaxUnfurlLinks
      <4> SUFFICES ASSUME NEW i \in 1..Len(previews)
                   PROVE  Cardinality(previews[i].seen) <= MaxUnfurlLinks
        OBVIOUS
      <4>1. previews[i] \in Preview /\ Bounded(previews[i])
        BY DEF UnfurlsInv
      <4>2. /\ Cardinality(previews[i].seen) \in Nat /\ previews[i].processed \in Nat
            /\ Cardinality(previews[i].seen) <= previews[i].processed
            /\ previews[i].processed <= MaxUnfurlLinks
        BY <4>1, FS_CardinalityType, PreviewIs DEF Bounded
      <4>3. QED
        BY <4>2, WorkflowAssumption
    <3>2. QED
      BY <3>1 DEF UnfurlsInv, UnfurlsBounded, Previewed
  <2>4. QED
    BY <2>1, <2>2, <2>3 DEF RulesFollowed
<1>4. QED
  BY <1>1, <1>2, <1>3, PTL DEF WorkflowSpec

-----------------------------------------------------------------------------
(* The configuration directory.  A directory of either schema means the same *)
(* before and after its transform, and a file bootstrap seeds means what its *)
(* absence did; the rest is about who may have been killed where.            *)

AllFiles == {"gateway", "agents", "other", "workflow", "unfurl", "slack", "stamp"}

\* What a directory means, piece by piece.
RootDoc(d)   == RootOf(d, Anchor(d))
UserOr(o)    == IF o = "user" THEN "user" ELSE "none"
OwnerOf(d, f) == IF Present(d, f) THEN d[f].owner ELSE "none"
ChatOf(d)    == IF AgentsOf(d).runtime \in {"on", "off"} THEN AgentsOf(d).runtime
                                                        ELSE RootDoc(d).enabled
RuleOf(d, f) == IF f \in RootDoc(d).rules THEN "user" ELSE UserOr(OwnerOf(d, f))
ProfilesOf(d) == IF AgentsOf(d).backend = "lost" \/ AgentsOf(d).settings # "user"
                 THEN "none" ELSE "user"

LEMMA MeansIs ==
    ASSUME NEW d
    PROVE  Means(d) = [root |-> UserOr(RootDoc(d).owner), chat |-> ChatOf(d),
                       rules |-> [f \in RuleFiles |-> RuleOf(d, f)],
                       settings |-> UserOr(AgentsOf(d).settings),
                       agents |-> ProfilesOf(d), other |-> UserOr(OwnerOf(d, "other"))]
  BY DEF Means, RootDoc, UserOr, OwnerOf, ChatOf, RuleOf, ProfilesOf

LEMMA MeansEqual ==
    ASSUME NEW d, NEW e,
           UserOr(RootDoc(d).owner) = UserOr(RootDoc(e).owner), ChatOf(d) = ChatOf(e),
           RuleOf(d, "workflow") = RuleOf(e, "workflow"), RuleOf(d, "unfurl") = RuleOf(e, "unfurl"),
           UserOr(AgentsOf(d).settings) = UserOr(AgentsOf(e).settings),
           ProfilesOf(d) = ProfilesOf(e),
           UserOr(OwnerOf(d, "other")) = UserOr(OwnerOf(e, "other"))
    PROVE  Means(d) = Means(e)
<1>1. [f \in RuleFiles |-> RuleOf(d, f)] = [f \in RuleFiles |-> RuleOf(e, f)]
  BY DEF RuleFiles
<1>2. QED
  BY <1>1, MeansIs, Zenon

\* Neither what a directory means nor what is detected in it depends on the stamp.
LEMMA StampIsNoMatter ==
    ASSUME NEW d, NEW e, \A f \in AllFiles \ {"stamp"} : e[f] = d[f]
    PROVE  /\ Means(e) = Means(d) /\ (DetectV1(e) <=> DetectV1(d)) /\ (DetectV2(e) <=> DetectV2(d))
           /\ AgentsOf(e) = AgentsOf(d) /\ (Present(e, "agents") <=> Present(d, "agents"))
<1>1. /\ e["gateway"] = d["gateway"] /\ e["agents"] = d["agents"] /\ e["other"] = d["other"]
      /\ e["workflow"] = d["workflow"] /\ e["unfurl"] = d["unfurl"] /\ e["slack"] = d["slack"]
  BY DEF AllFiles
<1>2. Anchor(e) = Anchor(d) /\ RootDoc(e) = RootDoc(d) /\ AgentsOf(e) = AgentsOf(d)
      /\ (Present(e, "agents") <=> Present(d, "agents"))
  BY <1>1 DEF Anchor, RootDoc, RootOf, AgentsOf, Present
<1>3. \A f \in {"workflow", "unfurl", "other"} : OwnerOf(e, f) = OwnerOf(d, f)
  BY <1>1 DEF OwnerOf, Present
<1>4. Means(e) = Means(d)
  BY <1>2, <1>3, MeansEqual DEF ChatOf, RuleOf, ProfilesOf
<1>5. (DetectV1(e) <=> DetectV1(d)) /\ (DetectV2(e) <=> DetectV2(d))
  BY <1>1 DEF DetectV1, DetectV2, Present
<1>6. QED
  BY <1>2, <1>4, <1>5

\* A file that bootstrap creates, whole or torn, means what its absence did.
LEMMA SeedMeansNothing ==
    ASSUME NEW d, NEW e, NEW f \in Seeded, d[f].kind = "absent",
           e[f] \in {Seed(f), Torn}, \A g \in AllFiles \ {f} : e[g] = d[g]
    PROVE  /\ Means(e) = Means(d) /\ (DetectV1(e) => DetectV1(d)) /\ Version(e) = Version(d)
           /\ Present(e, "agents") => AgentsOf(e).settings # "user" \/ e["agents"] = d["agents"]
<1>1. Version(e) = Version(d) /\ e["slack"] = d["slack"] /\ Anchor(e) = Anchor(d)
  BY DEF Version, Present, Seeded, AllFiles, RuleFiles, Anchor
<1>2. /\ RootDoc(d).rules = RootDoc(e).rules /\ RootDoc(d).enabled = RootDoc(e).enabled
      /\ UserOr(RootDoc(d).owner) = UserOr(RootDoc(e).owner)
  <2>1. CASE f = "gateway"
    BY <1>1, <2>1 DEF RootDoc, RootOf, Anchor, UserOr, Present, Seed, Root, Torn, AllFiles
  <2>2. CASE f # "gateway"
    BY <1>1, <2>2 DEF RootDoc, RootOf, Anchor, Present, AllFiles
  <2>3. QED
    BY <2>1, <2>2
<1>3. /\ AgentsOf(e).runtime = AgentsOf(d).runtime
      /\ UserOr(AgentsOf(e).settings) = UserOr(AgentsOf(d).settings)
      /\ ProfilesOf(e) = ProfilesOf(d)
      /\ Present(e, "agents") => AgentsOf(e).settings # "user" \/ e["agents"] = d["agents"]
  <2>1. CASE f = "agents"
    BY <2>1 DEF AgentsOf, UserOr, ProfilesOf, Present, Seed, Agents, Torn
  <2>2. CASE f # "agents"
    BY <2>2 DEF AgentsOf, UserOr, ProfilesOf, Present, AllFiles
  <2>3. QED
    BY <2>1, <2>2
<1>4. \A g \in {"workflow", "unfurl", "other"} : UserOr(OwnerOf(e, g)) = UserOr(OwnerOf(d, g))
  <2> TAKE g \in {"workflow", "unfurl", "other"}
  <2>1. CASE f = g
    <3>1. Seed(g) = Owned("seed")
      BY DEF Seed
    <3>2. e[g] = Owned("seed") \/ e[g] = Torn
      BY <2>1, <3>1
    <3>3. UserOr(OwnerOf(d, g)) = "none"
      BY <2>1 DEF OwnerOf, UserOr, Present
    <3>4. UserOr(OwnerOf(e, g)) = "none"
      BY <3>2 DEF OwnerOf, UserOr, Present, Owned, Torn
    <3>5. QED
      BY <3>3, <3>4
  <2>2. CASE f # g
    BY <2>2 DEF OwnerOf, Present, AllFiles
  <2>3. QED
    BY <2>1, <2>2
<1>5. ChatOf(e) = ChatOf(d)
  BY <1>2, <1>3 DEF ChatOf
<1>6. \A g \in {"workflow", "unfurl"} : RuleOf(e, g) = RuleOf(d, g)
  BY <1>2, <1>4 DEF RuleOf
<1>7. Means(e) = Means(d)
  BY <1>2, <1>3, <1>4, <1>5, <1>6, MeansEqual
<1>8. DetectV1(e) => DetectV1(d)
  <2>1. CASE f = "gateway"
    BY <1>1, <2>1 DEF DetectV1, Present, Seed, Root, Torn, AllFiles
  <2>2. CASE f = "agents"
    BY <1>1, <2>2 DEF DetectV1, Present, Seed, Agents, Torn, AllFiles
  <2>3. CASE f \notin {"gateway", "agents"}
    <3>1. e["gateway"] = d["gateway"] /\ e["agents"] = d["agents"]
      BY <2>3 DEF AllFiles
    <3>2. QED
      BY <1>1, <3>1 DEF DetectV1, Present
  <2>4. QED
    BY <2>1, <2>2, <2>3
<1>9. QED
  BY <1>1, <1>3, <1>7, <1>8

\* What a transform turns d into.
TargetV1(d) ==
    LET root == RootOf(d, Anchor(d)) IN
    [f \in DOMAIN d |->
       CASE f = "gateway" -> MigrateRoot(root, AgentsOf(d))
         [] f = "agents"  -> MigrateAgents(AgentsOf(d))
         [] f = "slack"   -> NoFile
         [] OTHER         -> IF f \in root.rules THEN Owned("user") ELSE d[f]]
TargetV2(d) ==
    [d EXCEPT !["gateway"] = [RootOf(d, "gateway") EXCEPT !.legacy = @ \ {"routing"}]]
Target(v, d) == IF v = 1 THEN TargetV1(d) ELSE TargetV2(d)


LEMMA DocsTyped ==
    ASSUME NEW d, WellTyped(d)
    PROVE  /\ RootOf(d, Anchor(d)) \in Roots /\ RootOf(d, "gateway") \in Roots
           /\ AgentsOf(d) \in AgentFiles
<1>1. Root({}, {}, "unset", "none", TRUE) \in Roots /\ Agents("none", "none", "lost", TRUE) \in AgentFiles
  BY DEF Root, Agents, Roots, AgentFiles, Owners
<1>2. \A f \in {"slack", "gateway"} : Present(d, f) => d[f] \in Roots
  BY DEF WellTyped, Present, NoFile, Torn
<1>3. Present(d, "agents") => d["agents"] \in AgentFiles
  BY DEF WellTyped, Present, NoFile, Torn
<1>4. QED
  BY <1>1, <1>2, <1>3 DEF RootOf, AgentsOf, Anchor

LEMMA RootMigrates ==
    ASSUME NEW r \in Roots, NEW a \in AgentFiles
    PROVE  LET m == MigrateRoot(r, a) IN
           /\ m \in Roots /\ m.kind = "root" /\ m.legacy = r.legacy \ {"configuration"}
           /\ m.rules = {} /\ m.owner = r.owner
           /\ m.enabled = IF a.runtime \in {"on", "off"} THEN a.runtime ELSE r.enabled
  BY DEF MigrateRoot, Roots, AgentFiles

LEMMA AgentsMigrate ==
    ASSUME NEW a \in AgentFiles
    PROVE  LET m == MigrateAgents(a) IN
           /\ m \in AgentFiles /\ m.kind = "agents" /\ m.runtime = "none" /\ m.settings = a.settings
           /\ m.backend = IF a.backend = "flat" THEN "nested" ELSE "lost"
  BY DEF MigrateAgents, MigrateProfile, AgentFiles

\* The first transform keeps what the directory means, in the second schema.
LEMMA FirstTransform ==
    ASSUME NEW d, WellTyped(d), OfOneSchema(d), DetectV1(d), NEW e,
           \A f \in AllFiles : e[f] = TargetV1(d)[f]
    PROVE  Means(e) = Means(d) /\ ~DetectV1(e)
<1> DEFINE r == RootDoc(d)
           a == AgentsOf(d)
           m == MigrateRoot(r, a)
           n == MigrateAgents(a)
<1>1. r \in Roots /\ a \in AgentFiles
  BY DocsTyped DEF RootDoc
<1>2. DOMAIN d = AllFiles
  BY DEF WellTyped, Seeded, RuleFiles, AllFiles
<1>3. /\ e["gateway"] = m /\ e["agents"] = n /\ e["slack"] = NoFile /\ e["other"] = d["other"]
      /\ e["workflow"] = IF "workflow" \in r.rules THEN Owned("user") ELSE d["workflow"]
      /\ e["unfurl"] = IF "unfurl" \in r.rules THEN Owned("user") ELSE d["unfurl"]
  <2>1. TargetV1(d) = [f \in AllFiles |->
                         CASE f = "gateway" -> m
                           [] f = "agents"  -> n
                           [] f = "slack"   -> NoFile
                           [] OTHER         -> IF f \in r.rules THEN Owned("user") ELSE d[f]]
    BY <1>2 DEF TargetV1, RootDoc
  <2> HIDE DEF r, a, m, n
  <2>2. \A f \in AllFiles :
          e[f] = CASE f = "gateway" -> m
                   [] f = "agents"  -> n
                   [] f = "slack"   -> NoFile
                   [] OTHER         -> IF f \in r.rules THEN Owned("user") ELSE d[f]
    BY <2>1
  <2>3. {"gateway", "agents", "slack", "other", "workflow", "unfurl"} \subseteq AllFiles
    BY DEF AllFiles
  <2>4. e["gateway"] = m /\ e["agents"] = n /\ e["slack"] = NoFile
    BY <2>2, <2>3
  <2>5. \A f \in {"other", "workflow", "unfurl"} :
          e[f] = IF f \in r.rules THEN Owned("user") ELSE d[f]
    BY <2>2, <2>3
  <2>6. "other" \notin r.rules
    BY <1>1 DEF Roots, RuleFiles
  <2>7. QED
    BY <2>4, <2>5, <2>6
<1>4. /\ m.kind = "root" /\ m.legacy = r.legacy \ {"configuration"}
      /\ m.rules = {} /\ m.owner = r.owner
      /\ m.enabled = IF a.runtime \in {"on", "off"} THEN a.runtime ELSE r.enabled
  BY <1>1, RootMigrates
<1>5. /\ n.kind = "agents" /\ n.runtime = "none" /\ n.settings = a.settings
      /\ n.backend = IF a.backend = "flat" THEN "nested" ELSE "lost"
  BY <1>1, AgentsMigrate
<1>6. a.backend = "nested" => a.settings # "user"
  BY DEF OfOneSchema, AgentsOf, Agents
<1> HIDE DEF r, a, m, n
<1>7. RootDoc(e) = m /\ AgentsOf(e) = n
  <2>1. e["slack"].kind = "absent"
    BY <1>3 DEF NoFile
  <2>2. Anchor(e) = "gateway"
    BY <2>1 DEF Anchor
  <2>3. Present(e, "gateway") /\ Present(e, "agents")
    BY <1>3, <1>4, <1>5 DEF Present
  <2>4. QED
    BY <1>3, <2>2, <2>3 DEF RootDoc, RootOf, AgentsOf
<1>8. ~DetectV1(e)
  BY <1>3, <1>4, <1>5 DEF DetectV1, Present, NoFile
<1>9. UserOr(RootDoc(e).owner) = UserOr(RootDoc(d).owner)
  BY <1>4, <1>7 DEF r
<1>10. ChatOf(e) = ChatOf(d)
  BY <1>4, <1>5, <1>7 DEF r, a, ChatOf
<1>11. \A f \in {"workflow", "unfurl"} : RuleOf(e, f) = RuleOf(d, f)
  <2> TAKE f \in {"workflow", "unfurl"}
  <2>1. e[f] = IF f \in r.rules THEN Owned("user") ELSE d[f]
    BY <1>3
  <2>2. RuleOf(e, f) = UserOr(OwnerOf(e, f))
    BY <1>4, <1>7 DEF RuleOf
  <2>3. CASE f \in r.rules
    BY <2>1, <2>2, <2>3 DEF RuleOf, UserOr, OwnerOf, Present, Owned, r
  <2>4. CASE f \notin r.rules
    BY <2>1, <2>2, <2>4 DEF RuleOf, UserOr, OwnerOf, Present, r
  <2>5. QED
    BY <2>3, <2>4
<1>12. UserOr(AgentsOf(e).settings) = UserOr(AgentsOf(d).settings)
  BY <1>5, <1>7 DEF a
<1>13. a \in AgentFiles => ProfilesOf(e) = ProfilesOf(d)
  BY <1>5, <1>6, <1>7 DEF a, ProfilesOf, AgentFiles
<1>14. UserOr(OwnerOf(e, "other")) = UserOr(OwnerOf(d, "other"))
  BY <1>3 DEF OwnerOf, Present
<1>15. Means(e) = Means(d)
  BY <1>1, <1>9, <1>10, <1>11, <1>12, <1>13, <1>14, MeansEqual
<1>16. QED
  BY <1>8, <1>15

\* So does the second, in a directory of the second schema.
LEMMA SecondTransform ==
    ASSUME NEW d, WellTyped(d), ~DetectV1(d), DetectV2(d), NEW e,
           \A f \in AllFiles : e[f] = TargetV2(d)[f]
    PROVE  Means(e) = Means(d) /\ ~DetectV1(e)
<1> DEFINE r == d["gateway"]
           m == [r EXCEPT !.legacy = @ \ {"routing"}]
<1>1. Present(d, "gateway") /\ r \in Roots /\ d["slack"].kind = "absent"
  BY DEF DetectV1, DetectV2, WellTyped, Present, NoFile, Torn
<1>2. DOMAIN d = AllFiles
  BY DEF WellTyped, Seeded, RuleFiles, AllFiles
<1>3. RootOf(d, "gateway") = r
  BY <1>1 DEF RootOf
<1> HIDE DEF r
<1>4. /\ m.kind = r.kind /\ m.legacy = r.legacy \ {"routing"} /\ m.rules = r.rules
      /\ m.owner = r.owner /\ m.enabled = r.enabled /\ r.kind = "root"
  BY <1>1 DEF Roots
<1>5. \A f \in AllFiles : TargetV2(d)[f] = IF f = "gateway" THEN m ELSE d[f]
  BY <1>2, <1>3 DEF TargetV2
<1> HIDE DEF m
<1>6. e["gateway"] = m /\ \A f \in AllFiles \ {"gateway"} : e[f] = d[f]
  BY <1>5 DEF AllFiles
<1>7. /\ RootDoc(e) = m /\ RootDoc(d) = r /\ AgentsOf(e) = AgentsOf(d)
      /\ (Present(e, "agents") <=> Present(d, "agents"))
  BY <1>1, <1>3, <1>4, <1>6 DEF RootDoc, RootOf, Anchor, AgentsOf, Present, AllFiles
<1>8. ~DetectV1(e)
  <2>1. e["slack"] = d["slack"] /\ e["agents"] = d["agents"]
    BY <1>6 DEF AllFiles
  <2>2. "configuration" \notin m.legacy
    BY <1>1, <1>4 DEF DetectV1, r
  <2>3. QED
    BY <1>1, <1>6, <2>1, <2>2 DEF DetectV1, Present
<1>9. \A f \in {"workflow", "unfurl", "other"} : OwnerOf(e, f) = OwnerOf(d, f)
  BY <1>6 DEF OwnerOf, Present, AllFiles
<1>10. Means(e) = Means(d)
  BY <1>4, <1>7, <1>9, MeansEqual DEF ChatOf, RuleOf, ProfilesOf
<1>11. QED
  BY <1>8, <1>10

Writable == [file : {"gateway", "slack"}, doc : Roots \cup {NoFile}]
            \cup [file : {"agents"}, doc : AgentFiles]
            \cup [file : RuleFiles, doc : OwnedFiles]

\* The writes that are left make of d the directory goal.
Keeps(todo, goal) == \A i \in 1..Len(todo) : todo[i].doc = goal[todo[i].file]
Touched(todo)     == {todo[i].file : i \in 1..Len(todo)}
Converting(d, todo, goal) ==
    Keeps(todo, goal) /\ \A f \in AllFiles : d[f] = goal[f] \/ f \in Touched(todo)

LEMMA TodoConcat ==
    ASSUME NEW a \in Seq(Writable), NEW b \in Seq(Writable), NEW goal
    PROVE  /\ a \o b \in Seq(Writable)
           /\ Keeps(a, goal) /\ Keeps(b, goal) => Keeps(a \o b, goal)
           /\ \A f : f \in Touched(a) \/ f \in Touched(b) => f \in Touched(a \o b)
<1>1. /\ a \o b \in Seq(Writable) /\ Len(a) \in Nat /\ Len(b) \in Nat
      /\ Len(a \o b) = Len(a) + Len(b)
      /\ \A i \in 1..Len(a \o b) : (a \o b)[i] = IF i <= Len(a) THEN a[i] ELSE b[i - Len(a)]
  OBVIOUS
<1>2. ASSUME Keeps(a, goal), Keeps(b, goal), NEW i \in 1..Len(a \o b)
      PROVE  (a \o b)[i].doc = goal[(a \o b)[i].file]
  <2>1. CASE i <= Len(a)
    BY <1>1, <1>2, <2>1 DEF Keeps
  <2>2. CASE ~(i <= Len(a))
    <3>1. i - Len(a) \in 1..Len(b) /\ (a \o b)[i] = b[i - Len(a)]
      BY <1>1, <2>2
    <3>2. QED
      BY <1>2, <3>1 DEF Keeps
  <2>3. QED
    BY <2>1, <2>2
<1>3. ASSUME NEW i \in 1..Len(a) PROVE a[i].file \in Touched(a \o b)
  <2>1. i \in 1..Len(a \o b) /\ (a \o b)[i] = a[i]
    BY <1>1
  <2>2. QED
    BY <2>1 DEF Touched
<1>4. ASSUME NEW i \in 1..Len(b) PROVE b[i].file \in Touched(a \o b)
  <2>1. Len(a) + i \in 1..Len(a \o b) /\ (a \o b)[Len(a) + i] = b[i]
    BY <1>1
  <2>2. QED
    BY <2>1 DEF Touched
<1>5. QED
  BY <1>1, <1>2, <1>3, <1>4 DEF Keeps, Touched

LEMMA TodoOne ==
    ASSUME NEW f, NEW doc, WriteOf(f, doc) \in Writable, NEW goal, doc = goal[f]
    PROVE  /\ <<WriteOf(f, doc)>> \in Seq(Writable) /\ Keeps(<<WriteOf(f, doc)>>, goal)
           /\ f \in Touched(<<WriteOf(f, doc)>>)
<1> DEFINE w == WriteOf(f, doc)
<1>1. w.file = f /\ w.doc = doc
  BY DEF WriteOf
<1> HIDE DEF w
<1>2. <<w>> \in Seq(Writable) /\ Len(<<w>>) = 1 /\ <<w>>[1] = w
  BY DEF w
<1>3. Keeps(<<w>>, goal) /\ f \in Touched(<<w>>)
  BY <1>1, <1>2 DEF Keeps, Touched
<1>4. QED
  BY <1>2, <1>3 DEF w

LEMMA TodoTwo ==
    ASSUME NEW x \in Writable, NEW y \in Writable, NEW goal,
           x.doc = goal[x.file], y.doc = goal[y.file]
    PROVE  /\ <<x, y>> \in Seq(Writable) /\ Keeps(<<x, y>>, goal)
           /\ x.file \in Touched(<<x, y>>) /\ y.file \in Touched(<<x, y>>)
<1>1. /\ <<x, y>> \in Seq(Writable) /\ Len(<<x, y>>) = 2
      /\ <<x, y>>[1] = x /\ <<x, y>>[2] = y
  OBVIOUS
<1>2. QED
  BY <1>1 DEF Keeps, Touched

LEMMA TodoNone ==
    ASSUME NEW goal PROVE <<>> \in Seq(Writable) /\ Keeps(<<>>, goal)
  BY DEF Keeps

\* The writes of the first transform.
LEMMA FirstWrites ==
    ASSUME NEW d, WellTyped(d)
    PROVE  ApplyV1(d) \in Seq(Writable) /\ Converting(d, ApplyV1(d), TargetV1(d))
<1> DEFINE r == RootOf(d, Anchor(d))
           T == TargetV1(d)
           m == MigrateRoot(r, AgentsOf(d))
           n == MigrateAgents(AgentsOf(d))
           a == IF "workflow" \in r.rules THEN <<WriteOf("workflow", Owned("user"))>> ELSE <<>>
           b == IF "unfurl" \in r.rules THEN <<WriteOf("unfurl", Owned("user"))>> ELSE <<>>
           g == <<WriteOf("gateway", m), WriteOf("agents", n)>>
           e == IF d["slack"].kind # "absent" THEN <<WriteOf("slack", NoFile)>> ELSE <<>>
<1>1. m \in Roots /\ n \in AgentFiles /\ r \in Roots
  BY DocsTyped, RootMigrates, AgentsMigrate
<1>2. DOMAIN d = AllFiles
  BY DEF WellTyped, Seeded, RuleFiles, AllFiles
<1>3. /\ T["gateway"] = m /\ T["agents"] = n /\ T["slack"] = NoFile /\ T["other"] = d["other"]
      /\ T["stamp"] = d["stamp"]
      /\ T["workflow"] = IF "workflow" \in r.rules THEN Owned("user") ELSE d["workflow"]
      /\ T["unfurl"] = IF "unfurl" \in r.rules THEN Owned("user") ELSE d["unfurl"]
  <2>1. T = [f \in AllFiles |->
                         CASE f = "gateway" -> m
                           [] f = "agents"  -> n
                           [] f = "slack"   -> NoFile
                           [] OTHER         -> IF f \in r.rules THEN Owned("user") ELSE d[f]]
    BY <1>2 DEF TargetV1
  <2> HIDE DEF r, m, n, T, a, b, e, g
  <2>2. \A f \in AllFiles :
          T[f] = CASE f = "gateway" -> m
                   [] f = "agents"  -> n
                   [] f = "slack"   -> NoFile
                   [] OTHER         -> IF f \in r.rules THEN Owned("user") ELSE d[f]
    BY <2>1
  <2>3. {"gateway", "agents", "slack", "other", "stamp", "workflow", "unfurl"} \subseteq AllFiles
    BY DEF AllFiles
  <2>4. T["gateway"] = m /\ T["agents"] = n /\ T["slack"] = NoFile
    BY <2>2, <2>3
  <2>5. \A f \in {"other", "stamp", "workflow", "unfurl"} :
          T[f] = IF f \in r.rules THEN Owned("user") ELSE d[f]
    BY <2>2, <2>3
  <2>6. "other" \notin r.rules /\ "stamp" \notin r.rules
    BY <1>1 DEF Roots, RuleFiles
  <2>7. QED
    BY <2>4, <2>5, <2>6
<1>4. \A f \in RuleFiles : WriteOf(f, Owned("user")) \in Writable
  BY DEF WriteOf, Owned, Writable, OwnedFiles, Owners
<1>5. WriteOf("gateway", m) \in Writable /\ WriteOf("agents", n) \in Writable
      /\ WriteOf("slack", NoFile) \in Writable
  BY <1>1 DEF WriteOf, Writable
<1>6. ApplyV1(d) = a \o b \o g \o e
  BY DEF ApplyV1
<1> HIDE DEF T, r, m, n
<1>7. /\ a \in Seq(Writable) /\ Keeps(a, T)
      /\ "workflow" \in r.rules => "workflow" \in Touched(a)
  BY <1>3, <1>4, TodoOne, TodoNone DEF RuleFiles
<1>8. /\ b \in Seq(Writable) /\ Keeps(b, T)
      /\ "unfurl" \in r.rules => "unfurl" \in Touched(b)
  BY <1>3, <1>4, TodoOne, TodoNone DEF RuleFiles
<1>9. /\ g \in Seq(Writable) /\ Keeps(g, T)
      /\ "gateway" \in Touched(g) /\ "agents" \in Touched(g)
  <2> DEFINE x == WriteOf("gateway", m)
             y == WriteOf("agents", n)
  <2>1. x.file = "gateway" /\ x.doc = m /\ y.file = "agents" /\ y.doc = n
    BY DEF WriteOf
  <2>2. x \in Writable /\ y \in Writable
    BY <1>5
  <2>3. g = <<x, y>>
    OBVIOUS
  <2> HIDE DEF x, y, g
  <2>4. QED
    BY <1>3, <2>1, <2>2, <2>3, TodoTwo
<1>10. /\ e \in Seq(Writable) /\ Keeps(e, T)
       /\ d["slack"].kind # "absent" => "slack" \in Touched(e)
  BY <1>3, <1>5, TodoOne, TodoNone
<1>11. d["slack"].kind = "absent" => d["slack"] = NoFile
  BY DEF WellTyped, Roots, NoFile, Torn
<1> HIDE DEF a, b, e, g
<1> DEFINE s == ApplyV1(d)
<1>12. /\ s \in Seq(Writable) /\ Keeps(s, T)
       /\ \A f : f \in Touched(a) \/ f \in Touched(b) \/ f \in Touched(g)
                  \/ f \in Touched(e) => f \in Touched(s)
  <2>1. /\ a \o b \in Seq(Writable) /\ Keeps(a \o b, T)
        /\ \A f : f \in Touched(a) \/ f \in Touched(b) => f \in Touched(a \o b)
    BY <1>7, <1>8, TodoConcat
  <2> DEFINE p == a \o b
             t == p \o g
  <2> HIDE DEF p
  <2>2. /\ t \in Seq(Writable) /\ Keeps(t, T)
        /\ \A f : f \in Touched(p) \/ f \in Touched(g) => f \in Touched(t)
    BY <1>9, <2>1, TodoConcat DEF p
  <2> HIDE DEF t
  <2>3. /\ t \o e \in Seq(Writable) /\ Keeps(t \o e, T)
        /\ \A f : f \in Touched(t) \/ f \in Touched(e) => f \in Touched(t \o e)
    BY <1>10, <2>2, TodoConcat
  <2>4. s = t \o e
    BY <1>6 DEF t, p
  <2> HIDE DEF s
  <2>5. QED
    BY <2>1, <2>2, <2>3, <2>4 DEF p
<1>13. ASSUME NEW f \in AllFiles PROVE d[f] = T[f] \/ f \in Touched(s)
  <2> HIDE DEF s
  <2>1. QED
    BY <1>3, <1>7, <1>8, <1>9, <1>10, <1>11, <1>12 DEF AllFiles
<1>14. QED
  BY <1>12, <1>13 DEF Converting, T

LEMMA SecondWrites ==
    ASSUME NEW d, WellTyped(d)
    PROVE  ApplyV2(d) \in Seq(Writable) /\ Converting(d, ApplyV2(d), TargetV2(d))
<1> DEFINE m == [RootOf(d, "gateway") EXCEPT !.legacy = @ \ {"routing"}]
           T == TargetV2(d)
<1>1. m \in Roots
  <2>1. RootOf(d, "gateway") \in Roots
    BY DocsTyped
  <2>2. QED
    BY <2>1 DEF Roots
<1>2. DOMAIN d = AllFiles
  BY DEF WellTyped, Seeded, RuleFiles, AllFiles
<1>3. T["gateway"] = m /\ \A f \in AllFiles : f # "gateway" => T[f] = d[f]
  BY <1>2 DEF TargetV2, AllFiles
<1>4. ApplyV2(d) = <<WriteOf("gateway", m)>>
  BY DEF ApplyV2
<1> HIDE DEF m, T
<1>5. WriteOf("gateway", m) \in Writable
  BY <1>1 DEF WriteOf, Writable
<1>6. /\ <<WriteOf("gateway", m)>> \in Seq(Writable) /\ Keeps(<<WriteOf("gateway", m)>>, T)
      /\ "gateway" \in Touched(<<WriteOf("gateway", m)>>)
  BY <1>3, <1>5, TodoOne
<1>7. QED
  BY <1>3, <1>4, <1>6 DEF Converting, T

(* The invariant.  A migration that runs is the first thing that happened to *)
(* the directory, so it starts from a whole one and its backup is that one;  *)
(* what is still to be written of it makes of the directory what the whole   *)
(* transform makes of the backup.                                            *)

Phases == {"idle", "detect", "clear", "copy", "apply", "stamp", "restore", "refill", "drop",
           "bootstrap", "tool"}
Pendings == {<<>>, <<1, 2>>, <<2>>}
Migrators == [at : Phases, kind : {"start", "migrate", "setup", "none"}, pending : Pendings,
              todo : Seq(Writable)]

MigrationTypeOK ==
    /\ migrator \in Migrators /\ crashes \in Nat
    /\ WellTyped(dir) /\ WellTyped(backup)
    /\ migrator.at \in {"clear", "copy", "apply", "stamp"} => migrator.pending # <<>>

During == {"apply", "restore", "refill"}
MigrationsLeft == migrator.at \in {"detect", "clear", "copy"} /\ migrator.pending # <<>>

\* Nothing was killed before a migration that runs.
FirstOfAll == MigrationsLeft \/ migrator.at \in During \cup {"stamp", "drop"} => crashes = 0
\* Between the transforms the directory is whole and of one schema.
WholeOutside == migrator.at \notin During /\ crashes = 0 => Means(dir) = want /\ OfOneSchema(dir)
\* During one the backup is what there was, and the stamp is the old one.
BackedUp == migrator.at \in During => /\ Means(backup) = want /\ OfOneSchema(backup)
                                     /\ Version(backup) < 2 /\ Version(dir) < 2
SomewhereWhole == Means(dir) = want \/ Means(backup) = want
CurrentIsWhole == Version(dir) >= 2 => Means(dir) = want /\ ~DetectV1(dir)
InOrder  == MigrationsLeft => Version(dir) = Head(migrator.pending) - 1
Stamping == migrator.at = "stamp" => ~DetectV1(dir) /\ Version(dir) < 2
Detected == migrator.at \in {"clear", "copy"} => Detect(Head(migrator.pending), dir)
\* The writes that are left make of the directory what the transform makes of the backup.
Converts == migrator.at = "apply" =>
              LET v == Head(migrator.pending) IN
              /\ Detect(v, backup) /\ Version(backup) = v - 1
              /\ Converting(dir, migrator.todo, Target(v, backup))

SafeInv == /\ FirstOfAll /\ WholeOutside /\ BackedUp /\ SomewhereWhole /\ CurrentIsWhole
           /\ InOrder /\ Stamping /\ Detected /\ Converts

MigrationInv == MigrationTypeOK /\ (~rerun => SafeInv)

\* What the single steps do to a well typed directory.

LEMMA VersionTyped == ASSUME NEW d, WellTyped(d) PROVE Version(d) \in Nat
  BY DEF WellTyped, Version, Present, Stamps, NoFile, Torn

LEMMA EmptyTyped == WellTyped(Empty) /\ Version(Empty) = 0
  BY DEF WellTyped, Empty, Version, Present, NoFile, RuleFiles, Seeded

LEMMA PendingTyped ==
    ASSUME NEW d, WellTyped(d)
    PROVE  /\ PendingVersions(d) \in Pendings
           /\ PendingVersions(d) # <<>> => Version(d) < 2 /\ Version(d) = Head(PendingVersions(d)) - 1
<1> DEFINE v == Version(d)
           p == [i \in 1 .. 2 - v |-> v + i]
<1>1. v \in Nat
  BY VersionTyped
<1> HIDE DEF v
<1>2. CASE v = 0
  <2>1. p = <<1, 2>>
    BY <1>2
  <2>2. QED
    BY <1>2, <2>1 DEF PendingVersions, CurrentVersion, Pendings, v
<1>3. CASE v = 1
  <2>1. p = <<2>>
    BY <1>3
  <2>2. QED
    BY <1>3, <2>1 DEF PendingVersions, CurrentVersion, Pendings, v
<1>4. CASE v >= 2
  <2>1. p = <<>>
    BY <1>1, <1>4
  <2>2. QED
    BY <2>1 DEF PendingVersions, CurrentVersion, Pendings, v
<1>5. QED
  BY <1>1, <1>2, <1>3, <1>4

LEMMA PendingFacts ==
    ASSUME NEW p \in Pendings, p # <<>>
    PROVE  /\ Head(p) \in {1, 2} /\ Tail(p) \in Pendings
           /\ Tail(p) # <<>> => Head(Tail(p)) = Head(p) + 1
<1>1. CASE p = <<1, 2>>
  <2>1. Head(<<1, 2>>) = 1 /\ Tail(<<1, 2>>) = <<2>> /\ Head(<<2>>) = 2
    OBVIOUS
  <2>2. QED
    BY <1>1, <2>1 DEF Pendings
<1>2. CASE p = <<2>>
  <2>1. Head(<<2>>) = 2 /\ Tail(<<2>>) = <<>>
    OBVIOUS
  <2>2. QED
    BY <1>2, <2>1 DEF Pendings
<1>3. QED
  BY <1>1, <1>2 DEF Pendings

Replace(d, f, x) == [d EXCEPT ![f] = x]

\* One file of a well typed directory is replaced.
LEMMA FileReplaced ==
    ASSUME NEW d, WellTyped(d), NEW w \in Writable, NEW x \in {w.doc, d[w.file], Torn}
    PROVE  /\ WellTyped(Replace(d, w.file, x)) /\ Replace(d, w.file, x)[w.file] = x
           /\ Version(Replace(d, w.file, x)) = Version(d)
           /\ \A f \in AllFiles : f # w.file => Replace(d, w.file, x)[f] = d[f]
<1> DEFINE e == Replace(d, w.file, x)
<1>1. DOMAIN d = AllFiles /\ DOMAIN e = AllFiles
  BY DEF Replace, WellTyped, Seeded, RuleFiles, AllFiles
<1>2. w.file \in AllFiles \ {"stamp"}
  BY DEF Writable, AllFiles, RuleFiles
<1>3. e[w.file] = x /\ \A f \in AllFiles : f # w.file => e[f] = d[f]
  BY <1>1, <1>2 DEF Replace
<1> HIDE DEF e
<1>4. /\ w.file \in {"slack", "gateway"} => x \in Roots \cup {NoFile, Torn}
      /\ w.file = "agents" => x \in AgentFiles \cup {NoFile, Torn}
      /\ w.file \in RuleFiles => x \in OwnedFiles \cup {NoFile, Torn}
      /\ w.file # "other"
  BY DEF Writable, WellTyped, RuleFiles
<1>5. WellTyped(e)
  BY <1>1, <1>2, <1>3, <1>4 DEF WellTyped, AllFiles, RuleFiles, Seeded
<1>6. Version(e) = Version(d)
  BY <1>2, <1>3 DEF Version, Present, AllFiles
<1>7. QED
  BY <1>3, <1>5, <1>6 DEF e

LEMMA FileWritten ==
    ASSUME NEW d, WellTyped(d), NEW w \in Writable
    PROVE  WellTyped([d EXCEPT ![w.file] = w.doc]) /\ Version([d EXCEPT ![w.file] = w.doc]) = Version(d)
<1>1. w.doc \in {w.doc, d[w.file], Torn}
  OBVIOUS
<1>2. WellTyped(Replace(d, w.file, w.doc)) /\ Version(Replace(d, w.file, w.doc)) = Version(d)
  BY <1>1, FileReplaced
<1>3. QED
  BY <1>2 DEF Replace

LEMMA TodoHead ==
    ASSUME NEW todo \in Seq(Writable), todo # <<>>
    PROVE  /\ Head(todo) \in Writable /\ Tail(todo) \in Seq(Writable)
           /\ Head(todo) = todo[1] /\ Len(todo) \in Nat \ {0}
           /\ Len(Tail(todo)) = Len(todo) - 1
           /\ \A i \in 1..Len(Tail(todo)) : Tail(todo)[i] = todo[i + 1]
  OBVIOUS

\* A write of the transform brings the directory nearer to the goal.
LEMMA WriteConverts ==
    ASSUME NEW d, WellTyped(d), NEW todo \in Seq(Writable), todo # <<>>,
           NEW goal, Converting(d, todo, goal)
    PROVE  Converting([d EXCEPT ![Head(todo).file] = Head(todo).doc], Tail(todo), goal)
<1> DEFINE w == Head(todo)
           e == [d EXCEPT ![w.file] = w.doc]
<1>1. w \in Writable /\ w = todo[1] /\ Len(todo) \in Nat \ {0}
      /\ Len(Tail(todo)) = Len(todo) - 1
      /\ \A i \in 1..Len(Tail(todo)) : Tail(todo)[i] = todo[i + 1]
  BY TodoHead
<1>2. e[w.file] = w.doc /\ \A f \in AllFiles : f # w.file => e[f] = d[f]
  <2>1. \A y \in Writable : LET z == Replace(d, y.file, y.doc) IN
          z[y.file] = y.doc /\ \A f \in AllFiles : f # y.file => z[f] = d[f]
    BY FileReplaced
  <2>2. e = Replace(d, w.file, w.doc) /\ w \in Writable
    BY <1>1 DEF Replace
  <2> HIDE DEF w, e
  <2>3. QED
    BY <2>1, <2>2, Zenon
<1>3. w.doc = goal[w.file]
  BY <1>1 DEF Converting, Keeps
<1>4. Keeps(Tail(todo), goal)
  <2> SUFFICES ASSUME NEW i \in 1..Len(Tail(todo))
               PROVE  Tail(todo)[i].doc = goal[Tail(todo)[i].file]
    BY DEF Keeps
  <2>1. i + 1 \in 1..Len(todo)
    BY <1>1
  <2>2. QED
    BY <1>1, <2>1 DEF Converting, Keeps
<1> HIDE DEF e, w
<1>5. ASSUME NEW f \in AllFiles, f # w.file, f \in Touched(todo)
      PROVE  f \in Touched(Tail(todo))
  <2>1. PICK i \in 1..Len(todo) : todo[i].file = f
    BY <1>5 DEF Touched
  <2>2. i # 1 /\ i - 1 \in 1..Len(Tail(todo))
    BY <1>1, <1>5, <2>1
  <2>3. Tail(todo)[i - 1] = todo[(i - 1) + 1] /\ (i - 1) + 1 = i
    BY <1>1, <2>2
  <2>4. Tail(todo)[i - 1].file = f
    BY <2>1, <2>3
  <2>5. QED
    BY <2>2, <2>4 DEF Touched
<1>6. \A f \in AllFiles : e[f] = goal[f] \/ f \in Touched(Tail(todo))
  BY <1>2, <1>3, <1>5 DEF Converting
<1>7. QED
  BY <1>4, <1>6 DEF Converting, e, w

LEMMA Converted ==
    ASSUME NEW d, NEW goal, Converting(d, <<>>, goal)
    PROVE  \A f \in AllFiles : d[f] = goal[f]
<1>1. Len(<<>>) = 0 /\ 1..Len(<<>>) = {}
  OBVIOUS
<1>2. Touched(<<>>) = {}
  BY <1>1 DEF Touched
<1>3. QED
  BY <1>2 DEF Converting

\* A transform that got through kept what the directory means.
LEMMA TransformKeeps ==
    ASSUME NEW d, WellTyped(d), OfOneSchema(d), NEW v \in {1, 2}, Version(d) = v - 1,
           Detect(v, d), NEW e, Converting(e, <<>>, Target(v, d))
    PROVE  Means(e) = Means(d) /\ ~DetectV1(e)
<1>1. \A f \in AllFiles : e[f] = Target(v, d)[f]
  BY Converted
<1>2. CASE v = 1
  BY <1>1, <1>2, FirstTransform DEF Detect, Target
<1>3. CASE v = 2
  <2>1. ~DetectV1(d) /\ DetectV2(d)
    BY <1>3 DEF OfOneSchema, Detect
  <2>2. QED
    BY <1>1, <1>3, <2>1, SecondTransform DEF Target
<1>4. QED
  BY <1>2, <1>3

LEMMA TransformWrites ==
    ASSUME NEW d, WellTyped(d), NEW v \in {1, 2}
    PROVE  Apply(v, d) \in Seq(Writable) /\ Converting(d, Apply(v, d), Target(v, d))
  BY FirstWrites, SecondWrites DEF Apply, Target

LEMMA StampReplaced ==
    ASSUME NEW d, WellTyped(d), NEW x, x \in Stamps \cup {Torn}
    PROVE  LET e == [d EXCEPT !["stamp"] = x] IN
           /\ WellTyped(e) /\ Means(e) = Means(d) /\ (DetectV1(e) <=> DetectV1(d))
           /\ Version(e) = IF x = Torn THEN 0 ELSE x.version
<1> DEFINE e == [d EXCEPT !["stamp"] = x]
<1>1. DOMAIN d = AllFiles /\ DOMAIN e = AllFiles
  BY DEF WellTyped, Seeded, RuleFiles, AllFiles
<1>2. e["stamp"] = x /\ \A f \in AllFiles \ {"stamp"} : e[f] = d[f]
  BY <1>1 DEF AllFiles
<1> HIDE DEF e
<1>3. WellTyped(e)
  BY <1>1, <1>2 DEF WellTyped, AllFiles, RuleFiles, Seeded
<1>4. Means(e) = Means(d) /\ (DetectV1(e) <=> DetectV1(d))
  BY <1>2, StampIsNoMatter
<1>5. Version(e) = IF x = Torn THEN 0 ELSE x.version
  BY <1>2 DEF Version, Present, Stamps, Torn
<1>6. QED
  BY <1>3, <1>4, <1>5 DEF e

LEMMA SeedWritten ==
    ASSUME NEW d, WellTyped(d), NEW f \in Seeded, d[f].kind = "absent",
           NEW x \in {Seed(f), Torn}
    PROVE  LET e == [d EXCEPT ![f] = x] IN
           /\ WellTyped(e) /\ Means(e) = Means(d) /\ (DetectV1(e) => DetectV1(d))
           /\ Version(e) = Version(d) /\ (OfOneSchema(d) => OfOneSchema(e))
<1> DEFINE e == [d EXCEPT ![f] = x]
<1>1. DOMAIN d = AllFiles /\ DOMAIN e = AllFiles /\ f \in AllFiles \ {"stamp", "slack"}
  BY DEF WellTyped, Seeded, RuleFiles, AllFiles
<1>2. e[f] = x /\ \A g \in AllFiles \ {f} : e[g] = d[g]
  BY <1>1
<1>3. /\ f = "gateway" => Seed(f) \in Roots
      /\ f = "agents" => Seed(f) \in AgentFiles
      /\ f \in RuleFiles \cup {"other"} => Seed(f) \in OwnedFiles
  BY DEF Seed, Root, Agents, Owned, Roots, AgentFiles, OwnedFiles, Owners, RuleFiles
<1> HIDE DEF e
<1>4. WellTyped(e)
  BY <1>1, <1>2, <1>3 DEF WellTyped, AllFiles, RuleFiles, Seeded
<1>5. /\ Means(e) = Means(d) /\ (DetectV1(e) => DetectV1(d)) /\ Version(e) = Version(d)
      /\ Present(e, "agents") => AgentsOf(e).settings # "user" \/ e["agents"] = d["agents"]
  BY <1>2, SeedMeansNothing
<1>6. OfOneSchema(d) => OfOneSchema(e)
  <2>1. e["agents"] = d["agents"] => (Present(e, "agents") <=> Present(d, "agents"))
    BY DEF Present
  <2>2. Present(e, "agents") => AgentsOf(e) = e["agents"]
    BY DEF AgentsOf
  <2>3. QED
    BY <1>5, <2>1, <2>2 DEF OfOneSchema
<1>7. QED
  BY <1>4, <1>5, <1>6 DEF e

\* The setup tool's agents.yaml in a directory of the current schema.
LEMMA AgentsReplaced ==
    ASSUME NEW d, WellTyped(d)
    PROVE  LET e == [d EXCEPT !["agents"] = Agents("none", "user", "nested", TRUE)] IN
           WellTyped(e) /\ Version(e) = Version(d)
<1> DEFINE x == Agents("none", "user", "nested", TRUE)
           e == [d EXCEPT !["agents"] = x]
<1>1. DOMAIN d = AllFiles /\ DOMAIN e = AllFiles /\ "agents" \in AllFiles
  BY DEF WellTyped, Seeded, RuleFiles, AllFiles
<1>2. e["agents"] = x /\ \A g \in AllFiles \ {"agents"} : e[g] = d[g]
  BY <1>1
<1>3. x \in AgentFiles
  BY DEF Agents, AgentFiles, Owners
<1> HIDE DEF e, x
<1>4. /\ e["gateway"] = d["gateway"] /\ e["other"] = d["other"] /\ e["stamp"] = d["stamp"]
      /\ e["workflow"] = d["workflow"] /\ e["unfurl"] = d["unfurl"] /\ e["slack"] = d["slack"]
  BY <1>2 DEF AllFiles
<1>5. WellTyped(e)
  BY <1>1, <1>2, <1>3, <1>4 DEF WellTyped, AllFiles, RuleFiles, Seeded
<1>6. Version(e) = Version(d)
  BY <1>4 DEF Version, Present
<1>7. QED
  BY <1>5, <1>6 DEF e, x

LEMMA SetupMeans ==
    ASSUME NEW d, WellTyped(d), ~DetectV1(d)
    PROVE  LET e == [d EXCEPT !["agents"] = Agents("none", "user", "nested", TRUE)] IN
           /\ WellTyped(e) /\ Version(e) = Version(d) /\ ~DetectV1(e)
           /\ Means(e) = [Means(d) EXCEPT !.agents = "user", !.settings = "user"]
<1> DEFINE x == Agents("none", "user", "nested", TRUE)
           e == [d EXCEPT !["agents"] = x]
<1>1. DOMAIN d = AllFiles /\ DOMAIN e = AllFiles /\ "agents" \in AllFiles
  BY DEF WellTyped, Seeded, RuleFiles, AllFiles
<1>2. e["agents"] = x /\ \A g \in AllFiles \ {"agents"} : e[g] = d[g]
  BY <1>1
<1>3. x \in AgentFiles /\ x.kind = "agents" /\ x.runtime = "none" /\ x.settings = "user"
      /\ x.backend = "nested"
  BY DEF Agents, AgentFiles, Owners
<1> HIDE DEF e, x
<1>4. /\ e["gateway"] = d["gateway"] /\ e["other"] = d["other"] /\ e["stamp"] = d["stamp"]
      /\ e["workflow"] = d["workflow"] /\ e["unfurl"] = d["unfurl"] /\ e["slack"] = d["slack"]
  BY <1>2 DEF AllFiles
<1>5. WellTyped(e)
  BY <1>1, <1>2, <1>3, <1>4 DEF WellTyped, AllFiles, RuleFiles, Seeded
<1>6. Version(e) = Version(d)
  BY <1>4 DEF Version, Present
<1>7. ~DetectV1(e)
  BY <1>2, <1>3, <1>4 DEF DetectV1, Present
<1>8. RootDoc(e) = RootDoc(d) /\ AgentsOf(e) = x
  BY <1>2, <1>3, <1>4 DEF RootDoc, RootOf, Anchor, AgentsOf, Present
<1>9. \A f \in {"workflow", "unfurl", "other"} : OwnerOf(e, f) = OwnerOf(d, f)
  BY <1>4 DEF OwnerOf, Present
<1>10. AgentsOf(d).runtime = "none"
  BY DEF AgentsOf, Agents, DetectV1
<1>11. ChatOf(e) = ChatOf(d)
  BY <1>3, <1>8, <1>10 DEF ChatOf
<1>12. [f \in RuleFiles |-> RuleOf(e, f)] = [f \in RuleFiles |-> RuleOf(d, f)]
  BY <1>8, <1>9 DEF RuleOf, RuleFiles
<1>13. UserOr(AgentsOf(e).settings) = "user" /\ ProfilesOf(e) = "user"
  BY <1>3, <1>8 DEF UserOr, ProfilesOf
<1>14. Means(e) = [root |-> UserOr(RootDoc(d).owner), chat |-> ChatOf(d),
                   rules |-> [f \in RuleFiles |-> RuleOf(d, f)],
                   settings |-> "user", agents |-> "user",
                   other |-> UserOr(OwnerOf(d, "other"))]
  BY <1>8, <1>9, <1>11, <1>12, <1>13, MeansIs, Zenon
<1>15. Means(e) = [Means(d) EXCEPT !.agents = "user", !.settings = "user"]
  <2> DEFINE r == UserOr(RootDoc(d).owner)
             c == ChatOf(d)
             u == [f \in RuleFiles |-> RuleOf(d, f)]
             s == UserOr(AgentsOf(d).settings)
             p == ProfilesOf(d)
             o == UserOr(OwnerOf(d, "other"))
  <2>1. Means(d) = [root |-> r, chat |-> c, rules |-> u, settings |-> s, agents |-> p, other |-> o]
    BY MeansIs, Zenon
  <2>2. Means(e) = [root |-> r, chat |-> c, rules |-> u, settings |-> "user", agents |-> "user",
                    other |-> o]
    BY <1>14
  <2> HIDE DEF r, c, u, s, p, o
  <2> DEFINE M == Means(d)
             q == [M EXCEPT !.agents = "user"]
             z == [q EXCEPT !.settings = "user"]
  <2>3. q = [root |-> r, chat |-> c, rules |-> u, settings |-> s, agents |-> "user", other |-> o]
    BY <2>1
  <2>4. z = [root |-> r, chat |-> c, rules |-> u, settings |-> "user", agents |-> "user",
             other |-> o]
    <3> HIDE DEF q, M
    <3>1. QED
      BY <2>3
  <2>5. z = [M EXCEPT !.agents = "user", !.settings = "user"]
    <3> HIDE DEF M
    <3>1. QED
      BY Zenon
  <2>6. QED
    BY <2>2, <2>4, <2>5, Zenon
<1>16. QED
  BY <1>5, <1>6, <1>7, <1>15 DEF e, x

\* The steps, one lemma for each.

LEMMA MigratorFields ==
    ASSUME NEW m \in Migrators
    PROVE  m.at \in Phases /\ m.pending \in Pendings /\ m.todo \in Seq(Writable)
  BY DEF Migrators

LEMMA GoesTo ==
    ASSUME migrator \in Migrators, NEW s \in Phases, GoTo(s)
    PROVE  /\ migrator' \in Migrators /\ migrator'.at = s
           /\ migrator'.pending = migrator.pending /\ migrator'.todo = migrator.todo
  BY DEF GoTo, Migrators

LEMMA NotRunningTyped == NotRunning \in Migrators /\ NotRunning.at = "idle" /\ NotRunning.pending = <<>>
<1>1. <<>> \in Seq(Writable) /\ <<>> \in Pendings
  BY TodoNone DEF Pendings
<1>2. QED
  BY <1>1 DEF NotRunning, Migrators, Phases

LEMMA MigrationStarts == MigrationInit => MigrationInv
<1> SUFFICES ASSUME MigrationInit PROVE MigrationInv
  OBVIOUS
<1>1. WellTyped(dir) /\ OfOneSchema(dir) /\ Means(dir) = want
  BY MigrationAssumption DEF MigrationInit
<1>2. MigrationTypeOK
  BY <1>1, NotRunningTyped, EmptyTyped DEF MigrationInit, MigrationTypeOK
<1>3. migrator.at = "idle"
  BY NotRunningTyped DEF MigrationInit
<1>4. Version(dir) \in Nat /\ (Version(dir) >= 2 => ~DetectV1(dir))
  BY <1>1, VersionTyped DEF OfOneSchema
<1>5. SafeInv
  BY <1>1, <1>3, <1>4 DEF MigrationInit, SafeInv, FirstOfAll, WholeOutside, BackedUp, SomewhereWhole,
     CurrentIsWhole, InOrder, Stamping, Detected, Converts, MigrationsLeft, During
<1>6. QED
  BY <1>2, <1>5 DEF MigrationInv

\* The directory and its backup are untouched and the process goes on to a phase that
\* asks for nothing new.
LEMMA Quiet ==
    ASSUME MigrationInv, migrator' \in Migrators,
           UNCHANGED <<dir, backup, want>>, rerun => rerun',
           crashes' \in Nat, crashes' = 0 => crashes = 0,
           migrator.at \notin During \/ crashes' # 0,
           migrator'.at \in {"idle", "bootstrap", "tool"}
    PROVE  MigrationInv'
<1>1. MigrationTypeOK'
  BY DEF MigrationInv, MigrationTypeOK
<1>2. ASSUME ~rerun' PROVE SafeInv'
  BY <1>2 DEF MigrationInv, SafeInv, FirstOfAll, WholeOutside, BackedUp, SomewhereWhole,
     CurrentIsWhole, InOrder, Stamping, Detected, Converts, MigrationsLeft, During
<1>3. QED
  BY <1>1, <1>2 DEF MigrationInv

LEMMA InvokeStep == ASSUME MigrationInv, NEW k \in {"start", "migrate", "setup"}, Invoke(k) PROVE MigrationInv'
<1>1. migrator \in Migrators /\ migrator.at = "idle" /\ UNCHANGED <<dir, backup, want, crashes>>
  BY DEF MigrationInv, MigrationTypeOK, Invoke, MigratorAt
<1>2. <<>> \in Seq(Writable) /\ <<>> \in Pendings /\ PendingVersions(dir) \in Pendings
  BY TodoNone, PendingTyped DEF Pendings, MigrationInv, MigrationTypeOK
<1>3. /\ migrator' \in Migrators /\ migrator'.at = IF k = "setup" THEN "bootstrap" ELSE "detect"
      /\ migrator'.pending = IF k = "setup" THEN <<>> ELSE PendingVersions(dir)
  BY <1>2 DEF Invoke, Migrators, Phases
<1>4. CASE k = "setup"
  BY <1>1, <1>3, <1>4, Quiet DEF Invoke, During, MigrationInv, MigrationTypeOK
<1>5. CASE k # "setup"
  <2>1. MigrationTypeOK'
    BY <1>1, <1>3, <1>5 DEF MigrationInv, MigrationTypeOK
  <2>2. ASSUME ~rerun' PROVE SafeInv'
    <3>1. ~rerun /\ SafeInv /\ ~(crashes > 0 /\ Version(dir) < 2)
      BY <1>5, <2>2 DEF Invoke, MigrationInv, Unmigrated, CurrentVersion
    <3>2. PendingVersions(dir) # <<>> =>
            Version(dir) < 2 /\ Version(dir) = Head(PendingVersions(dir)) - 1
      BY PendingTyped DEF MigrationInv, MigrationTypeOK
    <3>3. crashes \in Nat
      BY DEF MigrationInv, MigrationTypeOK
    <3>4. QED
      BY <1>1, <1>3, <1>5, <3>1, <3>2, <3>3 DEF SafeInv, FirstOfAll, WholeOutside, BackedUp,
         SomewhereWhole, CurrentIsWhole, InOrder, Stamping, Detected, Converts, MigrationsLeft, During
  <2>3. QED
    BY <2>1, <2>2 DEF MigrationInv
<1>6. QED
  BY <1>4, <1>5

LEMMA MigratedStep == ASSUME MigrationInv, Migrated PROVE MigrationInv'
<1>1. migrator \in Migrators /\ migrator.at = "detect" /\ crashes \in Nat
  BY DEF MigrationInv, MigrationTypeOK, Migrated, MigratorAt
<1>2. migrator' \in Migrators /\ migrator'.at \in {"idle", "bootstrap"}
  BY <1>1, GoesTo, NotRunningTyped DEF Migrated, Phases
<1>3. QED
  BY <1>1, <1>2, Quiet DEF Migrated, During

LEMMA BootstrappedStep == ASSUME MigrationInv, Bootstrapped PROVE MigrationInv'
<1>1. migrator \in Migrators /\ migrator.at = "bootstrap" /\ crashes \in Nat
  BY DEF MigrationInv, MigrationTypeOK, Bootstrapped, MigratorAt
<1>2. migrator' \in Migrators /\ migrator'.at \in {"idle", "tool"}
  BY <1>1, GoesTo, NotRunningTyped DEF Bootstrapped, Phases
<1>3. QED
  BY <1>1, <1>2, Quiet DEF Bootstrapped, During

LEMMA CrashStep == ASSUME MigrationInv, Crash PROVE MigrationInv'
<1>1. crashes \in Nat /\ crashes' = crashes + 1 /\ migrator' = NotRunning
  BY DEF MigrationInv, MigrationTypeOK, Crash
<1>2. crashes' \in Nat /\ crashes' # 0
  BY <1>1
<1>3. QED
  BY <1>1, <1>2, NotRunningTyped, Quiet DEF Crash

LEMMA DetectStep == ASSUME MigrationInv, DetectNext PROVE MigrationInv'
<1> DEFINE v == Head(migrator.pending)
<1>1. migrator \in Migrators /\ migrator.at = "detect" /\ migrator.pending # <<>>
      /\ UNCHANGED <<dir, backup, want, rerun, crashes>>
  BY DEF MigrationInv, MigrationTypeOK, DetectNext, MigratorAt
<1>2. /\ migrator' \in Migrators /\ migrator'.pending = migrator.pending
      /\ migrator'.at = IF Detect(v, dir) THEN "clear" ELSE "stamp"
  <2> DEFINE s == IF Detect(v, dir) THEN "clear" ELSE "stamp"
  <2>1. s \in Phases /\ GoTo(s)
    BY DEF DetectNext, Phases
  <2> HIDE DEF s
  <2>2. migrator' \in Migrators /\ migrator'.pending = migrator.pending /\ migrator'.at = s
    BY <1>1, <2>1, GoesTo
  <2>3. QED
    BY <2>2 DEF s
<1>3. MigrationTypeOK'
  BY <1>1, <1>2 DEF MigrationInv, MigrationTypeOK
<1>4. ASSUME ~rerun' PROVE SafeInv'
  <2>1. SafeInv /\ crashes = 0 /\ Version(dir) = v - 1 /\ v \in {1, 2}
    BY <1>1, <1>4, MigratorFields, PendingFacts DEF MigrationInv, SafeInv, FirstOfAll, InOrder, MigrationsLeft
  <2>2. Means(dir) = want /\ OfOneSchema(dir)
    BY <1>1, <2>1 DEF SafeInv, WholeOutside, During
  <2>3. ~Detect(v, dir) => ~DetectV1(dir) /\ Version(dir) < 2
    BY <2>1, <2>2 DEF Detect, OfOneSchema
  <2> HIDE DEF v
  <2>4. /\ migrator'.at = "clear" => Detect(v, dir)
        /\ migrator'.at \in {"clear", "stamp"}
        /\ migrator'.at = "stamp" => ~Detect(v, dir)
    BY <1>2
  <2>5. Head(migrator'.pending) = v /\ migrator'.pending # <<>>
    BY <1>1, <1>2 DEF v
  <2>6. QED
    BY <1>1, <2>1, <2>2, <2>3, <2>4, <2>5 DEF SafeInv, FirstOfAll, WholeOutside, BackedUp,
       SomewhereWhole, CurrentIsWhole, InOrder, Stamping, Detected, Converts, MigrationsLeft, During
<1>5. QED
  BY <1>3, <1>4 DEF MigrationInv

LEMMA ClearStep == ASSUME MigrationInv, Clear PROVE MigrationInv'
<1>1. migrator \in Migrators /\ migrator.at = "clear" /\ migrator.pending # <<>>
      /\ backup' = Empty /\ UNCHANGED <<dir, want, rerun, crashes>>
  BY DEF MigrationInv, MigrationTypeOK, Clear, MigratorAt
<1>2. migrator' \in Migrators /\ migrator'.pending = migrator.pending /\ migrator'.at = "copy"
  BY <1>1, GoesTo DEF Clear, Phases
<1>3. MigrationTypeOK'
  BY <1>1, <1>2, EmptyTyped DEF MigrationInv, MigrationTypeOK
<1>4. ASSUME ~rerun' PROVE SafeInv'
  <2>1. SafeInv /\ crashes = 0 /\ Means(dir) = want /\ OfOneSchema(dir)
    BY <1>1, <1>4 DEF MigrationInv, SafeInv, FirstOfAll, WholeOutside, MigrationsLeft, During
  <2>2. QED
    BY <1>1, <1>2, <2>1 DEF SafeInv, FirstOfAll, WholeOutside, BackedUp,
       SomewhereWhole, CurrentIsWhole, InOrder, Stamping, Detected, Converts, MigrationsLeft, During
<1>5. QED
  BY <1>3, <1>4 DEF MigrationInv

LEMMA CopyStep == ASSUME MigrationInv, Copy PROVE MigrationInv'
<1> DEFINE v == Head(migrator.pending)
<1>1. migrator \in Migrators /\ migrator.at = "copy" /\ migrator.pending # <<>>
      /\ UNCHANGED <<dir, want, rerun, crashes>> /\ WellTyped(dir) /\ crashes \in Nat
  BY DEF MigrationInv, MigrationTypeOK, Copy, MigratorAt
<1>2. v \in {1, 2}
  BY <1>1, MigratorFields, PendingFacts
<1>3. CASE /\ backup' = CopyBackup(dir)
           /\ migrator' = [migrator EXCEPT !.at = "apply", !.todo = Apply(v, dir)]
  <2> DEFINE t == Apply(v, dir)
  <2>1. t \in Seq(Writable) /\ Converting(dir, t, Target(v, dir))
    BY <1>1, <1>2, TransformWrites
  <2> HIDE DEF v, t
  <2>2. /\ migrator' \in Migrators /\ migrator'.pending = migrator.pending
        /\ migrator'.at = "apply" /\ migrator'.todo = t
    <3>1. migrator' = [migrator EXCEPT !.at = "apply", !.todo = t]
      BY <1>3 DEF t
    <3>2. QED
      BY <1>1, <2>1, <3>1 DEF Migrators, Phases
  <2>3. MigrationTypeOK'
    BY <1>1, <1>3, <2>2 DEF MigrationInv, MigrationTypeOK, CopyBackup
  <2>4. ASSUME ~rerun' PROVE SafeInv'
    <3>1. /\ SafeInv /\ crashes = 0 /\ Means(dir) = want /\ OfOneSchema(dir)
          /\ Version(dir) = v - 1 /\ Detect(v, dir)
      BY <1>1, <2>4 DEF MigrationInv, SafeInv, FirstOfAll, WholeOutside, MigrationsLeft, During, InOrder,
         Detected, v
    <3>2. Head(migrator'.pending) = v /\ backup' = dir
      BY <1>3, <2>2 DEF v, CopyBackup
    <3>3. Version(dir) < 2
      BY <1>2, <3>1
    <3>4. Converts'
      BY <1>1, <2>1, <2>2, <3>1, <3>2 DEF Converts
    <3>5. QED
      BY <1>1, <2>2, <3>1, <3>2, <3>3, <3>4 DEF SafeInv, FirstOfAll, WholeOutside, BackedUp,
         SomewhereWhole, CurrentIsWhole, InOrder, Stamping, Detected, MigrationsLeft, During
  <2>5. QED
    BY <2>3, <2>4 DEF MigrationInv
<1>4. CASE migrator' = NotRunning /\ UNCHANGED backup
  BY <1>1, <1>4, NotRunningTyped, Quiet DEF During
<1>5. QED
  BY <1>3, <1>4 DEF Copy

LEMMA PutStep == ASSUME MigrationInv, PutFile PROVE MigrationInv'
<1> DEFINE w == Head(migrator.todo)
           v == Head(migrator.pending)
<1>1. /\ migrator \in Migrators /\ migrator.at = "apply" /\ migrator.pending # <<>>
      /\ migrator.todo # <<>> /\ migrator.todo \in Seq(Writable)
      /\ UNCHANGED <<backup, want, rerun, crashes>> /\ WellTyped(dir) /\ crashes \in Nat
  BY MigratorFields DEF MigrationInv, MigrationTypeOK, PutFile, MigratorAt
<1>2. w \in Writable /\ Tail(migrator.todo) \in Seq(Writable) /\ <<>> \in Seq(Writable)
  BY <1>1, TodoHead, TodoNone
<1>3. CASE /\ dir' = [dir EXCEPT ![w.file] = w.doc]
           /\ migrator' = [migrator EXCEPT !.todo = Tail(@)]
  <2>1. WellTyped(dir') /\ Version(dir') = Version(dir)
    <3>1. WellTyped(dir) /\ w \in Writable
      BY <1>1, <1>2
    <3>2. \A y \in Writable : /\ WellTyped([dir EXCEPT ![y.file] = y.doc])
                              /\ Version([dir EXCEPT ![y.file] = y.doc]) = Version(dir)
      BY <3>1, FileWritten
    <3> HIDE DEF w
    <3>3. QED
      BY <1>3, <3>1, <3>2, Zenon
  <2>2. /\ migrator' \in Migrators /\ migrator'.pending = migrator.pending
        /\ migrator'.at = "apply" /\ migrator'.todo = Tail(migrator.todo)
    BY <1>1, <1>2, <1>3 DEF Migrators
  <2>3. MigrationTypeOK'
    BY <1>1, <2>1, <2>2 DEF MigrationInv, MigrationTypeOK
  <2>4. ASSUME ~rerun' PROVE SafeInv'
    <3>1. /\ SafeInv /\ crashes = 0 /\ Means(backup) = want /\ OfOneSchema(backup)
          /\ Version(backup) < 2 /\ Version(dir) < 2 /\ Version(dir) \in Nat
          /\ Detect(v, backup) /\ Version(backup) = v - 1
          /\ Converting(dir, migrator.todo, Target(v, backup))
      BY <1>1, <2>4, VersionTyped DEF MigrationInv, SafeInv, FirstOfAll, BackedUp, During, Converts
    <3>2. Converting(dir', Tail(migrator.todo), Target(v, backup))
      BY <1>1, <1>3, <3>1, WriteConverts
    <3>3. Converts'
      BY <1>1, <2>2, <3>1, <3>2 DEF Converts
    <3>4. QED
      BY <1>1, <2>1, <2>2, <3>1, <3>3 DEF SafeInv, FirstOfAll, WholeOutside, BackedUp,
         SomewhereWhole, CurrentIsWhole, InOrder, Stamping, Detected, MigrationsLeft, During
  <2>5. QED
    BY <2>3, <2>4 DEF MigrationInv
<1>4. CASE /\ dir' = [dir EXCEPT ![w.file] = IF w.doc = NoFile THEN @ ELSE Torn]
           /\ migrator' = [migrator EXCEPT !.at = "restore", !.todo = <<>>]
  <2>1. WellTyped(dir') /\ Version(dir') = Version(dir)
    <3>1. dir' = Replace(dir, w.file, dir[w.file]) \/ dir' = Replace(dir, w.file, Torn)
      BY <1>4 DEF Replace
    <3>2. /\ dir[w.file] \in {w.doc, dir[w.file], Torn} /\ Torn \in {w.doc, dir[w.file], Torn}
          /\ WellTyped(dir) /\ w \in Writable
      BY <1>1, <1>2
    <3> HIDE DEF w
    <3>3. QED
      BY <3>1, <3>2, FileReplaced
  <2>2. /\ migrator' \in Migrators /\ migrator'.pending = migrator.pending
        /\ migrator'.at = "restore"
    BY <1>1, <1>2, <1>4 DEF Migrators, Phases
  <2>3. MigrationTypeOK'
    BY <1>1, <2>1, <2>2 DEF MigrationInv, MigrationTypeOK
  <2>4. ASSUME ~rerun' PROVE SafeInv'
    <3>1. /\ SafeInv /\ crashes = 0 /\ Means(backup) = want /\ OfOneSchema(backup)
          /\ Version(backup) < 2 /\ Version(dir) < 2 /\ Version(dir) \in Nat
      BY <1>1, <2>4, VersionTyped DEF MigrationInv, SafeInv, FirstOfAll, BackedUp, During
    <3>2. QED
      BY <1>1, <2>1, <2>2, <3>1 DEF SafeInv, FirstOfAll, WholeOutside, BackedUp,
         SomewhereWhole, CurrentIsWhole, InOrder, Stamping, Detected, Converts, MigrationsLeft, During
  <2>5. QED
    BY <2>3, <2>4 DEF MigrationInv
<1>5. QED
  BY <1>3, <1>4 DEF PutFile

LEMMA ValidateStep == ASSUME MigrationInv, Validate PROVE MigrationInv'
<1> DEFINE v == Head(migrator.pending)
<1>1. /\ migrator \in Migrators /\ migrator.at = "apply" /\ migrator.pending # <<>>
      /\ migrator.todo = <<>> /\ UNCHANGED <<dir, backup, want, rerun, crashes>>
      /\ WellTyped(dir) /\ WellTyped(backup) /\ crashes \in Nat
  BY DEF MigrationInv, MigrationTypeOK, Validate, MigratorAt
<1>2. /\ migrator' \in Migrators /\ migrator'.pending = migrator.pending
      /\ migrator'.at \in {"stamp", "restore"}
  <2> DEFINE s == IF Structural(dir) THEN "stamp" ELSE "restore"
  <2>1. s \in Phases /\ GoTo(s) /\ s \in {"stamp", "restore"}
    BY DEF Validate, Phases
  <2> HIDE DEF s
  <2>2. migrator' \in Migrators /\ migrator'.pending = migrator.pending /\ migrator'.at = s
    BY <1>1, <2>1, GoesTo
  <2>3. QED
    BY <2>1, <2>2
<1>3. MigrationTypeOK'
  BY <1>1, <1>2 DEF MigrationInv, MigrationTypeOK
<1>4. ASSUME ~rerun' PROVE SafeInv'
  <2>1. /\ SafeInv /\ crashes = 0 /\ Means(backup) = want /\ OfOneSchema(backup)
        /\ Version(backup) < 2 /\ Version(dir) < 2 /\ Version(dir) \in Nat
        /\ Detect(v, backup) /\ Version(backup) = v - 1
        /\ Converting(dir, <<>>, Target(v, backup))
    BY <1>1, <1>4, VersionTyped DEF MigrationInv, SafeInv, FirstOfAll, BackedUp, During, Converts
  <2>2. v \in {1, 2}
    BY <1>1, MigratorFields, PendingFacts
  <2> HIDE DEF v
  <2>3. Means(dir) = want /\ ~DetectV1(dir)
    BY <1>1, <2>1, <2>2, TransformKeeps
  <2>4. OfOneSchema(dir)
    BY <2>3 DEF OfOneSchema
  <2>5. QED
    BY <1>1, <1>2, <2>1, <2>3, <2>4 DEF SafeInv, FirstOfAll, WholeOutside, BackedUp,
       SomewhereWhole, CurrentIsWhole, InOrder, Stamping, Detected, Converts, MigrationsLeft, During
<1>5. QED
  BY <1>3, <1>4 DEF MigrationInv

LEMMA StampStep == ASSUME MigrationInv, StampVersion PROVE MigrationInv'
<1> DEFINE v == Head(migrator.pending)
<1>1. /\ migrator \in Migrators /\ migrator.at = "stamp" /\ migrator.pending # <<>>
      /\ UNCHANGED <<backup, want, rerun, crashes>>
      /\ WellTyped(dir) /\ WellTyped(backup) /\ crashes \in Nat
  BY DEF MigrationInv, MigrationTypeOK, StampVersion, MigratorAt
<1>2. /\ v \in {1, 2} /\ Tail(migrator.pending) \in Pendings
      /\ Tail(migrator.pending) # <<>> => Head(Tail(migrator.pending)) = v + 1
  BY <1>1, MigratorFields, PendingFacts
<1>3. ~rerun' => /\ SafeInv /\ crashes = 0 /\ Means(dir) = want /\ ~DetectV1(dir)
  BY <1>1 DEF MigrationInv, SafeInv, FirstOfAll, WholeOutside, During, Stamping
<1>4. CASE /\ dir' = [dir EXCEPT !["stamp"] = StampedAs(v)]
           /\ migrator' = [migrator EXCEPT !.at = "detect", !.pending = Tail(@)]
  <2>1. StampedAs(v) \in Stamps /\ StampedAs(v) # Torn /\ StampedAs(v).version = v
    BY <1>2 DEF StampedAs, Stamps, Torn
  <2>2. /\ WellTyped(dir') /\ Means(dir') = Means(dir) /\ (DetectV1(dir') <=> DetectV1(dir))
        /\ Version(dir') = v
    BY <1>1, <1>4, <2>1, StampReplaced
  <2>3. /\ migrator' \in Migrators /\ migrator'.pending = Tail(migrator.pending)
        /\ migrator'.at = "detect"
    BY <1>1, <1>2, <1>4 DEF Migrators, Phases
  <2>4. MigrationTypeOK'
    BY <1>1, <2>2, <2>3 DEF MigrationInv, MigrationTypeOK
  <2>5. ASSUME ~rerun' PROVE SafeInv'
    <3>1. Means(dir') = want' /\ ~DetectV1(dir') /\ OfOneSchema(dir') /\ crashes' = 0
      BY <1>1, <1>3, <2>2, <2>5 DEF OfOneSchema
    <3>2. migrator'.pending # <<>> => Version(dir') = Head(migrator'.pending) - 1
      BY <1>2, <2>2, <2>3
    <3>3. QED
      BY <2>3, <3>1, <3>2 DEF SafeInv, FirstOfAll, WholeOutside, BackedUp,
         SomewhereWhole, CurrentIsWhole, InOrder, Stamping, Detected, Converts, MigrationsLeft, During
  <2>6. QED
    BY <2>4, <2>5 DEF MigrationInv
<1>5. CASE migrator' = NotRunning /\ dir' = [dir EXCEPT !["stamp"] = Torn]
  <2>1. /\ WellTyped(dir') /\ Means(dir') = Means(dir) /\ (DetectV1(dir') <=> DetectV1(dir))
        /\ Version(dir') = 0
    BY <1>1, <1>5, StampReplaced
  <2>2. MigrationTypeOK'
    BY <1>1, <1>5, <2>1, NotRunningTyped DEF MigrationInv, MigrationTypeOK
  <2>3. ASSUME ~rerun' PROVE SafeInv'
    <3>1. Means(dir') = want' /\ ~DetectV1(dir') /\ OfOneSchema(dir') /\ crashes' = 0
      BY <1>1, <1>3, <2>1, <2>3 DEF OfOneSchema
    <3>2. QED
      BY <1>5, <2>1, <3>1, NotRunningTyped DEF SafeInv, FirstOfAll, WholeOutside, BackedUp,
         SomewhereWhole, CurrentIsWhole, InOrder, Stamping, Detected, Converts, MigrationsLeft, During
  <2>4. QED
    BY <2>2, <2>3 DEF MigrationInv
<1>6. QED
  BY <1>4, <1>5 DEF StampVersion

LEMMA RestoreStep == ASSUME MigrationInv, Wipe \/ Refill \/ Drop PROVE MigrationInv'
<1>1. /\ migrator \in Migrators /\ UNCHANGED <<want, rerun, crashes>> /\ crashes \in Nat
      /\ WellTyped(dir) /\ WellTyped(backup)
  BY DEF MigrationInv, MigrationTypeOK, Wipe, Refill, Drop
<1>2. CASE Wipe
  <2>1. migrator.at = "restore" /\ dir' = Empty /\ backup' = backup
    BY <1>2 DEF Wipe, MigratorAt
  <2>2. /\ migrator' \in Migrators /\ migrator'.pending = migrator.pending /\ migrator'.at = "refill"
    BY <1>1, <1>2, GoesTo DEF Wipe, Phases
  <2>3. MigrationTypeOK'
    BY <1>1, <2>1, <2>2, EmptyTyped DEF MigrationInv, MigrationTypeOK
  <2>4. ASSUME ~rerun' PROVE SafeInv'
    <3>1. /\ crashes = 0 /\ Means(backup) = want /\ OfOneSchema(backup) /\ Version(backup) < 2
      BY <1>1, <2>1, <2>4 DEF MigrationInv, SafeInv, FirstOfAll, BackedUp, During
    <3>2. QED
      BY <1>1, <2>1, <2>2, <3>1, EmptyTyped DEF SafeInv, FirstOfAll, WholeOutside, BackedUp,
         SomewhereWhole, CurrentIsWhole, InOrder, Stamping, Detected, Converts, MigrationsLeft, During
  <2>5. QED
    BY <2>3, <2>4 DEF MigrationInv
<1>3. CASE Refill
  <2>1. migrator.at = "refill" /\ dir' = backup /\ backup' = backup
    BY <1>3 DEF Refill, MigratorAt
  <2>2. /\ migrator' \in Migrators /\ migrator'.pending = migrator.pending /\ migrator'.at = "drop"
    BY <1>1, <1>3, GoesTo DEF Refill, Phases
  <2>3. MigrationTypeOK'
    BY <1>1, <2>1, <2>2 DEF MigrationInv, MigrationTypeOK
  <2>4. ASSUME ~rerun' PROVE SafeInv'
    <3>1. /\ crashes = 0 /\ Means(backup) = want /\ OfOneSchema(backup) /\ Version(backup) < 2
          /\ Version(backup) \in Nat
      BY <1>1, <2>1, <2>4, VersionTyped DEF MigrationInv, SafeInv, FirstOfAll, BackedUp, During
    <3>2. QED
      BY <1>1, <2>1, <2>2, <3>1 DEF SafeInv, FirstOfAll, WholeOutside, BackedUp,
         SomewhereWhole, CurrentIsWhole, InOrder, Stamping, Detected, Converts, MigrationsLeft, During
  <2>5. QED
    BY <2>3, <2>4 DEF MigrationInv
<1>4. CASE Drop
  <2>1. migrator.at = "drop" /\ dir' = dir /\ backup' = Empty /\ migrator' = NotRunning
    BY <1>4 DEF Drop, MigratorAt
  <2>2. MigrationTypeOK'
    BY <1>1, <2>1, EmptyTyped, NotRunningTyped DEF MigrationInv, MigrationTypeOK
  <2>3. ASSUME ~rerun' PROVE SafeInv'
    <3>1. SafeInv /\ crashes = 0 /\ Means(dir) = want /\ OfOneSchema(dir)
      BY <1>1, <2>1, <2>3 DEF MigrationInv, SafeInv, FirstOfAll, WholeOutside, During
    <3>2. QED
      BY <1>1, <2>1, <3>1, NotRunningTyped DEF SafeInv, FirstOfAll, WholeOutside, BackedUp,
         SomewhereWhole, CurrentIsWhole, InOrder, Stamping, Detected, Converts, MigrationsLeft, During
  <2>4. QED
    BY <2>2, <2>3 DEF MigrationInv
<1>5. QED
  BY <1>2, <1>3, <1>4

LEMMA SeedStep == ASSUME MigrationInv, NEW f \in Seeded, SeedOne(f) PROVE MigrationInv'
<1>1. /\ migrator \in Migrators /\ migrator.at = "bootstrap" /\ crashes \in Nat
      /\ UNCHANGED <<backup, want, rerun, crashes>> /\ WellTyped(dir) /\ WellTyped(backup)
  BY DEF MigrationInv, MigrationTypeOK, SeedOne, MigratorAt
<1>2. PICK x \in {Seed(f), Torn} : dir' = [dir EXCEPT ![f] = x]
  BY DEF SeedOne
<1>3. dir[f].kind = "absent"
  BY DEF SeedOne, MissingFiles
<1>4. /\ WellTyped(dir') /\ Means(dir') = Means(dir) /\ (DetectV1(dir') => DetectV1(dir))
      /\ Version(dir') = Version(dir) /\ (OfOneSchema(dir) => OfOneSchema(dir'))
  BY <1>1, <1>2, <1>3, SeedWritten
<1>5. migrator' = migrator \/ migrator' = NotRunning
  BY DEF SeedOne
<1>6. migrator' \in Migrators /\ migrator'.at \in {"bootstrap", "idle"}
  BY <1>1, <1>5, NotRunningTyped
<1>7. MigrationTypeOK'
  BY <1>1, <1>4, <1>6 DEF MigrationInv, MigrationTypeOK
<1>8. ASSUME ~rerun' PROVE SafeInv'
  <2>1. SafeInv
    BY <1>1, <1>8 DEF MigrationInv
  <2>2. QED
    BY <1>1, <1>4, <1>6, <2>1 DEF SafeInv, FirstOfAll, WholeOutside, BackedUp,
       SomewhereWhole, CurrentIsWhole, InOrder, Stamping, Detected, Converts, MigrationsLeft, During
<1>9. QED
  BY <1>7, <1>8 DEF MigrationInv

LEMMA SetupStep == ASSUME MigrationInv, SetupAgents PROVE MigrationInv'
<1>1. /\ migrator.at = "tool" /\ migrator' = NotRunning /\ crashes \in Nat
      /\ dir' = [dir EXCEPT !["agents"] = Agents("none", "user", "nested", TRUE)]
      /\ UNCHANGED <<backup, crashes>> /\ WellTyped(dir) /\ WellTyped(backup)
      /\ want' = [want EXCEPT !.agents = "user", !.settings = "user"]
  BY DEF MigrationInv, MigrationTypeOK, SetupAgents, MigratorAt
<1>2. WellTyped(dir') /\ Version(dir') = Version(dir)
  BY <1>1, AgentsReplaced
<1>3. MigrationTypeOK'
  BY <1>1, <1>2, NotRunningTyped DEF MigrationInv, MigrationTypeOK
<1>4. ASSUME ~rerun' PROVE SafeInv'
  <2>1. SafeInv /\ ~(Version(dir) < 2) /\ Version(dir) \in Nat
    BY <1>1, <1>4, VersionTyped DEF MigrationInv, SetupAgents, Unmigrated, CurrentVersion
  <2>2. Means(dir) = want /\ ~DetectV1(dir)
    BY <2>1 DEF SafeInv, CurrentIsWhole
  <2>3. ~DetectV1(dir') /\ Means(dir') = want'
    BY <1>1, <2>2, SetupMeans
  <2>4. OfOneSchema(dir')
    BY <2>3 DEF OfOneSchema
  <2>5. QED
    BY <1>1, <2>3, <2>4, NotRunningTyped DEF SafeInv, FirstOfAll, WholeOutside, BackedUp,
       SomewhereWhole, CurrentIsWhole, InOrder, Stamping, Detected, Converts, MigrationsLeft, During
<1>5. QED
  BY <1>3, <1>4 DEF MigrationInv

LEMMA MigrationStep == MigrationInv /\ [MigrationNext]_migrationVars => MigrationInv'
<1> SUFFICES ASSUME MigrationInv, [MigrationNext]_migrationVars PROVE MigrationInv'
  OBVIOUS
<1>1. CASE UNCHANGED migrationVars
  BY <1>1 DEF migrationVars, MigrationInv, MigrationTypeOK, SafeInv, FirstOfAll, WholeOutside, BackedUp,
     SomewhereWhole, CurrentIsWhole, InOrder, Stamping, Detected, Converts, MigrationsLeft
<1>2. CASE MigrationNext
  BY <1>2, InvokeStep, MigratedStep, DetectStep, ClearStep, CopyStep, PutStep, ValidateStep, StampStep,
     RestoreStep, SeedStep, BootstrappedStep, SetupStep, CrashStep DEF MigrationNext
<1>3. QED
  BY <1>1, <1>2

\* Whatever fails or is killed on the way, what the user had configured can be read from the
\* directory or from the backup of the last migration, until a later run starts from a
\* half-converted directory; and from the directory itself when nothing was killed
\* (migrate.Run, backupConfigDir, restoreConfigDir, the bootstrap and the setup tools).
THEOREM ConfigIsNotLost == MigrationSpec => []ConfigSurvives
<1>1. MigrationInv => ConfigSurvives
  BY DEF MigrationInv, SafeInv, SomewhereWhole, WholeOutside, During, ConfigSurvives, Recoverable,
     SettledConfigKept, MigratorAt
<1>2. QED
  BY <1>1, MigrationStarts, MigrationStep, PTL DEF MigrationSpec
=============================================================================
