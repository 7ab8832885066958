----------------------- MODULE PricingPoliciesProofs -----------------------
(***************************************************************************)
(* For any number of policies and requests, a tenant that has a policy has *)
(* exactly one active policy.  The committed rows alone are not inductive: *)
(* the invariant also says what every open transaction has written, what   *)
(* it has found in the unique index, and that two transactions never hold  *)
(* the same row.                                                           *)
(***************************************************************************)
EXTENDS PricingPolicies, TLAPS

\* A row is written by one open transaction at most.
Locks ==
    \A v, w \in Workers : v # w =>
        \A p \in Policies : pending[v][p] = None \/ pending[w][p] = None

\* What a transaction has written at each of its statements.
Stage(w) ==
    /\ req[w].pc \in {"idle", "begin", "deactivate"} =>
          \A p \in Policies : pending[w][p] = None
    /\ \A p \in Policies : pending[w][p] = "active" =>
          req[w].pc \in {"index", "commit"} /\ p = req[w].row
    /\ req[w].pc \in {"begin", "deactivate", "index"} => req[w].activate
    /\ (req[w].pc \in {"index", "commit"} /\ req[w].activate) =>
          req[w].row \in Policies /\ pending[w][req[w].row] = "active"

\* A create that does not activate has seen an active policy, and its only
\* effect is a new inactive row.
Plain(w) ==
    (req[w].pc \in {"write", "commit"} /\ ~req[w].activate) =>
        /\ Active # {}
        /\ req[w].pc = "write" =>
              req[w].row = None /\ \A p \in Policies : pending[w][p] = None
        /\ \A p \in Policies : pending[w][p] # None =>
              pending[w][p] = "inactive" /\ policies[p] = "none"

\* The transaction has passed the unique index with an active row.
Entered(w) == At(w, "commit") /\ req[w].activate

\* One transaction passes at a time, and it has deactivated all other rows.
Exclusive ==
    /\ \A v, w \in Workers : Entered(v) /\ Entered(w) => v = w
    /\ \A w \in Workers : Entered(w) =>
          \A q \in Active : q = req[w].row \/ pending[w][q] = "inactive"

Inv ==
    /\ TypeOK
    /\ Locks
    /\ \A w \in Workers : Stage(w) /\ Plain(w)
    /\ Exclusive
    /\ ExactlyOneActive

LEMMA InitInv == Init => Inv
<1> SUFFICES ASSUME Init PROVE Inv
  OBVIOUS
<1>1. TypeOK
  BY DEF Init, TypeOK, Idle, Request, Status, Unwritten
<1>2. Locks
  BY DEF Init, Locks, Unwritten
<1>3. \A w \in Workers : Stage(w) /\ Plain(w)
  BY NoneAssumption DEF Init, Stage, Plain, Idle, Unwritten, Status
<1>4. Exclusive
  BY DEF Init, Exclusive, Entered, At, Idle
<1>5. ExactlyOneActive
  BY DEF Init, ExactlyOneActive
<1> QED
  BY <1>1, <1>2, <1>3, <1>4, <1>5 DEF Inv

-----------------------------------------------------------------------------
\* A step of w that changes neither table: only its own locals have to be
\* looked at, when it does not enter the index.
LEMMA LocalStep ==
    ASSUME Inv, NEW w \in Workers, NEW locals \in Request,
           req' = [req EXCEPT ![w] = locals],
           UNCHANGED <<policies, pending>>,
           Stage(w)', Plain(w)', ~Entered(w)'
    PROVE  Inv'
<1>1. TypeOK'
  BY DEF Inv, TypeOK
<1>2. Locks'
  BY DEF Inv, Locks
<1>3. ASSUME NEW v \in Workers PROVE Stage(v)' /\ Plain(v)'
  <2>1. CASE v = w
    BY <2>1
  <2>2. CASE v # w
    <3>1. req'[v] = req[v]
      BY <2>2 DEF Inv, TypeOK
    <3> QED
      BY <3>1 DEF Inv, Stage, Plain, Active
  <2> QED
    BY <2>1, <2>2
<1>4. Exclusive'
  <2>1. ASSUME NEW v \in Workers, Entered(v)' PROVE Entered(v) /\ req'[v] = req[v]
    BY <2>1 DEF Inv, TypeOK, Entered, At
  <2> QED
    BY <2>1 DEF Inv, Exclusive, Active
<1>5. ExactlyOneActive'
  BY DEF Inv, ExactlyOneActive, Active
<1> QED
  BY <1>1, <1>2, <1>3, <1>4, <1>5 DEF Inv

LEMMA IdleType == Idle \in Request
  BY DEF Idle, Request

LEMMA CreateKeeps ==
    ASSUME Inv, NEW w \in Workers, NEW isActive \in BOOLEAN, CreatePolicy(w, isActive)
    PROVE  Inv'
<1> DEFINE locals == [Idle EXCEPT
                  !.pc = IF ShouldActivate(isActive) THEN "begin" ELSE "write",
                  !.activate = ShouldActivate(isActive),
                  !.requested = isActive]
<1>1. ShouldActivate(isActive) \in BOOLEAN
  BY DEF ShouldActivate
<1>2. locals \in Request
  BY <1>1 DEF Idle, Request
<1>3. req' = [req EXCEPT ![w] = locals] /\ UNCHANGED <<policies, pending>>
  BY DEF CreatePolicy, Goto
<1>4. req'[w] = locals
  BY <1>3 DEF Inv, TypeOK
<1>5. \A p \in Policies : pending'[w][p] = None
  BY <1>3 DEF Inv, Stage, CreatePolicy, At
<1>6. Stage(w)'
  BY <1>1, <1>4, <1>5, NoneAssumption DEF Stage, Idle, Status
<1>7. ~ShouldActivate(isActive) => Active' # {}
  BY <1>3 DEF ShouldActivate, Active
<1>8. Plain(w)'
  BY <1>4, <1>5, <1>7 DEF Plain, Idle
<1>9. ~Entered(w)'
  BY <1>4 DEF Entered, At, Idle
<1> QED
  BY <1>2, <1>3, <1>6, <1>8, <1>9, LocalStep

LEMMA ActivateKeeps ==
    ASSUME Inv, NEW w \in Workers, NEW p \in Policies, ActivatePolicy(w, p)
    PROVE  Inv'
<1> DEFINE locals == [Idle EXCEPT !.pc = "begin", !.activate = TRUE,
                                  !.requested = TRUE, !.row = p]
<1>1. locals \in Request
  BY DEF Idle, Request
<1>2. req' = [req EXCEPT ![w] = locals] /\ UNCHANGED <<policies, pending>>
  BY DEF ActivatePolicy, Goto
<1>3. req'[w] = locals
  BY <1>2 DEF Inv, TypeOK
<1>4. \A q \in Policies : pending'[w][q] = None
  BY <1>2 DEF Inv, Stage, ActivatePolicy, At
<1>5. Stage(w)' /\ Plain(w)' /\ ~Entered(w)'
  BY <1>3, <1>4, NoneAssumption DEF Stage, Plain, Entered, At, Idle, Status
<1> QED
  BY <1>1, <1>2, <1>5, LocalStep

LEMMA BeginKeeps ==
    ASSUME Inv, NEW w \in Workers, DeactivateBegin(w)
    PROVE  Inv'
<1> DEFINE locals == [req[w] EXCEPT
                        !.pc = IF Active = {} THEN "write" ELSE "deactivate",
                        !.matched = Active]
<1>1. locals \in Request
  BY DEF Inv, TypeOK, Request, Active
<1>2. req' = [req EXCEPT ![w] = locals] /\ UNCHANGED <<policies, pending>>
  BY DEF DeactivateBegin, Goto
<1>3. req'[w] = locals
  BY <1>2 DEF Inv, TypeOK
<1>4. req[w].activate /\ \A p \in Policies : pending'[w][p] = None
  BY <1>2 DEF Inv, Stage, DeactivateBegin, At
<1>5. req'[w].activate /\ req'[w].pc \in {"write", "deactivate"}
  BY <1>3, <1>4 DEF Inv, TypeOK, Request
<1>6. Stage(w)' /\ Plain(w)' /\ ~Entered(w)'
  BY <1>4, <1>5, NoneAssumption DEF Stage, Plain, Entered, At, Status
<1> QED
  BY <1>1, <1>2, <1>6, LocalStep

-----------------------------------------------------------------------------
\* A step of w that writes rows nobody else holds and stays outside the index.
LEMMA WriteStep ==
    ASSUME Inv, NEW w \in Workers, NEW locals \in Request,
           NEW rows \in [Policies -> {None, "inactive", "active"}],
           req' = [req EXCEPT ![w] = locals],
           pending' = [pending EXCEPT ![w] = rows],
           UNCHANGED policies,
           \A v \in Workers \ {w}, p \in Policies :
               rows[p] = None \/ pending[v][p] = None,
           Stage(w)', Plain(w)', ~Entered(w)'
    PROVE  Inv'
<1>1. TypeOK'
  BY DEF Inv, TypeOK
<1>2. \A v \in Workers : v # w => req'[v] = req[v] /\ pending'[v] = pending[v]
  BY DEF Inv, TypeOK
<1>3. pending'[w] = rows
  BY DEF Inv, TypeOK
<1>4. Locks'
  BY <1>2, <1>3 DEF Inv, Locks
<1>5. ASSUME NEW v \in Workers PROVE Stage(v)' /\ Plain(v)'
  <2>1. CASE v = w
    BY <2>1
  <2>2. CASE v # w
    BY <1>2, <2>2 DEF Inv, Stage, Plain, Active
  <2> QED
    BY <2>1, <2>2
<1>6. Exclusive'
  <2>1. ASSUME NEW v \in Workers, Entered(v)'
        PROVE  Entered(v) /\ req'[v] = req[v] /\ pending'[v] = pending[v]
    BY <1>2, <2>1 DEF Entered, At
  <2> QED
    BY <2>1 DEF Inv, Exclusive, Active
<1>7. ExactlyOneActive'
  BY DEF Inv, ExactlyOneActive, Active
<1> QED
  BY <1>1, <1>4, <1>5, <1>6, <1>7 DEF Inv

LEMMA DeactivateKeeps ==
    ASSUME Inv, NEW w \in Workers, DeactivateOthers(w)
    PROVE  Inv'
<1> DEFINE rows == [p \in Policies |-> IF p \in req[w].matched \cap Active
                                         THEN "inactive" ELSE pending[w][p]]
           locals == [req[w] EXCEPT !.pc = "write"]
<1>1. locals \in Request
  BY DEF Inv, TypeOK, Request
<1>2. \A p \in Policies : pending[w][p] = None
  BY DEF Inv, Stage, DeactivateOthers, At
<1>3. rows \in [Policies -> {None, "inactive", "active"}]
  BY <1>2
<1>4. /\ req' = [req EXCEPT ![w] = locals]
      /\ pending' = [pending EXCEPT ![w] = rows]
      /\ UNCHANGED policies
  BY DEF DeactivateOthers, Goto
<1>5. ASSUME NEW v \in Workers \ {w}, NEW p \in Policies, rows[p] # None
      PROVE  pending[v][p] = None
  <2>1. p \in req[w].matched
    BY <1>2, <1>5
  <2>2. UNION {Holders(w, q) : q \in req[w].matched} = {}
    BY DEF DeactivateOthers, WaitsFor, At
  <2>3. v \notin Holders(w, p)
    BY <2>1, <2>2
  <2> QED
    BY <2>3 DEF Holders
<1>6. req'[w].pc = "write" /\ req'[w].activate
  BY <1>4 DEF Inv, TypeOK, Request, Stage, DeactivateOthers, At
<1>7. \A p \in Policies : pending'[w][p] # "active"
  <2>1. pending'[w] = rows
    BY <1>4 DEF Inv, TypeOK
  <2> QED
    BY <2>1, <1>2, NoneAssumption DEF Status
<1>8. Stage(w)' /\ Plain(w)' /\ ~Entered(w)'
  BY <1>6, <1>7 DEF Stage, Plain, Entered, At
<1> HIDE DEF rows, locals
<1> QED
  BY <1>1, <1>3, <1>4, <1>5, <1>8, WriteStep

LEMMA WriteKeeps ==
    ASSUME Inv, NEW w \in Workers, WritePolicy(w)
    PROVE  Inv'
<1> PICK p \in Policies :
        /\ IF req[w].row # None
             THEN p = req[w].row
             ELSE policies[p] = "none" /\ Holders(w, p) = {}
        /\ pending' = [pending EXCEPT ![w][p] =
                          IF req[w].activate THEN "active" ELSE "inactive"]
        /\ Goto(w, [req[w] EXCEPT !.row = p,
                       !.pc = IF req[w].activate THEN "index" ELSE "commit"])
  BY DEF WritePolicy
<1> DEFINE rows == [pending[w] EXCEPT ![p] =
                      IF req[w].activate THEN "active" ELSE "inactive"]
           locals == [req[w] EXCEPT !.row = p,
                        !.pc = IF req[w].activate THEN "index" ELSE "commit"]
<1>1. locals \in Request /\ rows \in [Policies -> {None, "inactive", "active"}]
  BY DEF Inv, TypeOK, Request
<1>2. /\ req' = [req EXCEPT ![w] = locals]
      /\ pending' = [pending EXCEPT ![w] = rows]
      /\ UNCHANGED policies
  BY DEF WritePolicy, Goto
<1>3. /\ req'[w] = locals
      /\ pending'[w] = rows
  BY <1>2 DEF Inv, TypeOK
<1>4. Holders(w, p) = {}
  BY DEF WritePolicy, WaitsFor, At
<1>5. ASSUME NEW v \in Workers \ {w}, NEW q \in Policies, rows[q] # None
      PROVE  pending[v][q] = None
  <2>1. CASE q = p
    BY <1>4, <2>1 DEF Holders
  <2>2. CASE q # p
    <3>1. pending[w][q] # None
      BY <1>5, <2>2 DEF Inv, TypeOK
    <3> QED
      BY <3>1 DEF Inv, Locks
  <2> QED
    BY <2>1, <2>2
<1>6. req[w].pc = "write" /\ \A q \in Policies : pending[w][q] # "active"
  BY DEF Inv, Stage, WritePolicy, At
<1>7. /\ req'[w].row = p
      /\ req'[w].activate = req[w].activate
      /\ req'[w].pc = IF req[w].activate THEN "index" ELSE "commit"
  BY <1>3 DEF Inv, TypeOK, Request
<1>8. \A q \in Policies : pending'[w][q] =
          IF q = p THEN IF req[w].activate THEN "active" ELSE "inactive"
                   ELSE pending[w][q]
  BY <1>3 DEF Inv, TypeOK
<1>9. Stage(w)'
  BY <1>6, <1>7, <1>8 DEF Stage
<1>10. Plain(w)'
  <2>1. CASE req[w].activate
    BY <1>7, <2>1 DEF Plain
  <2>2. CASE ~req[w].activate
    <3>1. /\ Active # {} /\ req[w].row = None
          /\ \A q \in Policies : pending[w][q] = None
      BY <1>6, <2>2 DEF Inv, Plain
    <3>2. policies[p] = "none"
      BY <3>1
    <3> QED
      BY <1>2, <1>7, <1>8, <2>2, <3>1, <3>2 DEF Plain, Active
  <2> QED
    BY <2>1, <2>2
<1>11. ~Entered(w)'
  BY <1>7 DEF Entered, At
<1>12. \A v \in Workers \ {w}, q \in Policies : rows[q] = None \/ pending[v][q] = None
  BY <1>5
<1> HIDE DEF rows, locals
<1> QED
  BY <1>1, <1>2, <1>9, <1>10, <1>11, <1>12, WriteStep

LEMMA RollbackKeeps ==
    ASSUME Inv, NEW w \in Workers, Rollback(w)
    PROVE  Inv'
<1>1. /\ req' = [req EXCEPT ![w] = Idle]
      /\ pending' = [pending EXCEPT ![w] = Unwritten]
      /\ UNCHANGED policies
  BY DEF Rollback, Goto
<1>2. Unwritten \in [Policies -> {None, "inactive", "active"}]
  BY DEF Unwritten
<1>3. \A p \in Policies : Unwritten[p] = None
  BY DEF Unwritten
<1>4. req'[w] = Idle /\ pending'[w] = Unwritten
  BY <1>1 DEF Inv, TypeOK
<1>5. Stage(w)' /\ Plain(w)' /\ ~Entered(w)'
  BY <1>3, <1>4, NoneAssumption DEF Stage, Plain, Entered, At, Idle, Status
<1> QED
  BY <1>1, <1>2, <1>3, <1>5, IdleType, WriteStep

-----------------------------------------------------------------------------
\* An active row passes the unique index: nobody else has passed it, and every
\* row that is still active has been deactivated by this transaction.
LEMMA EnterKeeps ==
    ASSUME Inv, NEW w \in Workers, EnterIndex(w)
    PROVE  Inv'
<1>1. /\ req' = [req EXCEPT ![w] = [req[w] EXCEPT !.pc = "commit"]]
      /\ UNCHANGED <<policies, pending>>
      /\ req[w].pc = "index"
  BY DEF EnterIndex, Goto, At
<1>2. /\ \A v \in Workers : v # w => req'[v] = req[v]
      /\ req'[w].pc = "commit"
      /\ req'[w].activate = req[w].activate
      /\ req'[w].row = req[w].row
  BY <1>1 DEF Inv, TypeOK, Request
<1>3. req[w].activate /\ req[w].row \in Policies /\ pending[w][req[w].row] = "active"
  BY <1>1 DEF Inv, Stage
<1>4. TypeOK'
  BY <1>1 DEF Inv, TypeOK, Request
<1>5. Locks'
  BY <1>1 DEF Inv, Locks
<1>6. ASSUME NEW v \in Workers PROVE Stage(v)' /\ Plain(v)'
  <2>1. CASE v # w
    BY <1>1, <1>2, <2>1 DEF Inv, Stage, Plain, Active
  <2>2. CASE v = w
    BY <1>1, <1>2, <1>3, <2>2 DEF Inv, Stage, Plain
  <2> QED
    BY <2>1, <2>2
<1>7. ASSUME NEW v \in Workers, v # w, Entered(v) PROVE FALSE
  <2>1. IndexHolders(w) = {}
    BY <1>1 DEF EnterIndex, WaitsFor, At
  <2>2. req[v].row \in Policies /\ pending[v][req[v].row] = "active"
    BY <1>7 DEF Inv, Stage, Entered, At
  <2>3. req[v].row # req[w].row
    BY <1>3, <1>7, <2>2, NoneAssumption DEF Inv, Locks, Status
  <2>4. v \in IndexHolders(w)
    BY <1>7, <2>2, <2>3 DEF IndexHolders, Entered
  <2> QED
    BY <2>1, <2>4
<1>8. ASSUME NEW q \in Active, q # req[w].row PROVE pending[w][q] = "inactive"
  <2>1. q \in Policies /\ pending[w][q] # None
    BY <1>8 DEF EnterIndex, Duplicate, Active
  <2>2. pending[w][q] # "active"
    BY <1>8, <2>1 DEF Inv, Stage
  <2> QED
    BY <2>1, <2>2 DEF Inv, TypeOK
<1>9. \A v \in Workers : Entered(v)' => v = w
  BY <1>2, <1>7 DEF Entered, At
<1>10. Active' = Active
  BY <1>1 DEF Active
<1>11. Exclusive'
  BY <1>1, <1>2, <1>8, <1>9, <1>10 DEF Exclusive
<1>12. ExactlyOneActive'
  BY <1>1 DEF Inv, ExactlyOneActive, Active
<1> QED
  BY <1>4, <1>5, <1>6, <1>11, <1>12 DEF Inv

\* What a commit makes of the table, for the transaction that entered the
\* index and for one that only adds an inactive row.
LEMMA CommitActive ==
    ASSUME Inv, NEW w \in Workers, Commit(w)
    PROVE  /\ req[w].activate => Active' = {req[w].row}
           /\ ~req[w].activate => Active' = Active /\ Active # {}
<1> USE DEF Active
<1>1. \A p \in Policies : policies'[p] =
          IF pending[w][p] = None THEN policies[p] ELSE pending[w][p]
  BY DEF Commit
<1>2. At(w, "commit")
  BY DEF Commit
<1>3. CASE req[w].activate
  <2>1. req[w].row \in Policies /\ pending[w][req[w].row] = "active"
    BY <1>2, <1>3 DEF Inv, Stage, At
  <2>2. policies'[req[w].row] = "active"
    BY <1>1, <2>1, NoneAssumption DEF Status
  <2>3. ASSUME NEW q \in Policies, q # req[w].row PROVE policies'[q] # "active"
    <3>1. pending[w][q] # "active"
      BY <2>3 DEF Inv, Stage
    <3>2. policies[q] = "active" => pending[w][q] = "inactive"
      BY <1>2, <1>3, <2>3 DEF Inv, Exclusive, Entered
    <3> QED
      BY <1>1, <3>1, <3>2, NoneAssumption DEF Status
  <2> QED
    BY <1>3, <2>1, <2>2, <2>3
<1>4. CASE ~req[w].activate
  <2>1. /\ Active # {}
        /\ \A p \in Policies : pending[w][p] # None =>
              pending[w][p] = "inactive" /\ policies[p] = "none"
    BY <1>2, <1>4 DEF Inv, Plain, At
  <2>2. \A p \in Policies : policies'[p] = "active" <=> policies[p] = "active"
    BY <1>1, <2>1
  <2> QED
    BY <1>4, <2>1, <2>2
<1> QED
  BY <1>3, <1>4

LEMMA CommitKeeps ==
    ASSUME Inv, NEW w \in Workers, Commit(w)
    PROVE  Inv'
<1>1. /\ req' = [req EXCEPT ![w] = Idle]
      /\ pending' = [pending EXCEPT ![w] = Unwritten]
      /\ policies' = [p \in Policies |-> IF pending[w][p] = None
                                           THEN policies[p] ELSE pending[w][p]]
      /\ At(w, "commit")
  BY DEF Commit, Goto
<1>2. /\ req'[w] = Idle
      /\ \A p \in Policies : pending'[w][p] = None
      /\ \A v \in Workers : v # w => req'[v] = req[v] /\ pending'[v] = pending[v]
  BY <1>1 DEF Inv, TypeOK, Unwritten
<1>3. Active' # {}
  BY CommitActive
<1>4. TypeOK'
  <2>1. policies' \in [Policies -> Status]
    BY <1>1 DEF Inv, TypeOK, Status
  <2>2. pending' \in [Workers -> [Policies -> {None, "inactive", "active"}]]
    BY <1>1 DEF Inv, TypeOK, Unwritten
  <2>3. req' \in [Workers -> Request]
    BY <1>1, IdleType DEF Inv, TypeOK
  <2> QED
    BY <2>1, <2>2, <2>3 DEF TypeOK
<1>5. Locks'
  BY <1>2 DEF Inv, Locks
<1>6. ASSUME NEW v \in Workers PROVE Stage(v)'
  <2>1. CASE v = w
    BY <1>2, <2>1, NoneAssumption DEF Stage, Idle, Status
  <2>2. CASE v # w
    BY <1>2, <2>2 DEF Inv, Stage
  <2> QED
    BY <2>1, <2>2
<1>7. ASSUME NEW v \in Workers PROVE Plain(v)'
  <2>1. CASE v = w
    BY <1>2, <2>1 DEF Plain, Idle
  <2>2. CASE v # w
    <3>1. \A p \in Policies : pending[v][p] # None => policies'[p] = policies[p]
      BY <1>1, <2>2 DEF Inv, Locks
    <3> QED
      BY <1>2, <1>3, <2>2, <3>1 DEF Inv, Plain
  <2> QED
    BY <2>1, <2>2
<1>8. Exclusive'
  <2>1. ASSUME NEW v \in Workers, Entered(v)'
        PROVE  v # w /\ Entered(v) /\ req'[v] = req[v] /\ pending'[v] = pending[v]
    BY <1>2, <2>1 DEF Entered, At, Idle
  <2>2. ASSUME NEW v \in Workers, Entered(v)' PROVE Active' = Active
    <3>1. ~Entered(w)
      BY <2>1, <2>2 DEF Inv, Exclusive
    <3> QED
      BY <1>1, <3>1, CommitActive DEF Entered
  <2> QED
    BY <2>1, <2>2 DEF Inv, Exclusive
<1>9. ExactlyOneActive'
  <2>1. CASE req[w].activate
    <3>1. Active' = {req[w].row} /\ req[w].row \in Policies
      BY <1>1, <2>1, CommitActive DEF Inv, Stage, At
    <3> QED
      BY <3>1 DEF ExactlyOneActive
  <2>2. CASE ~req[w].activate
    <3>1. Active' = Active /\ Active # {}
      BY <2>2, CommitActive
    <3>2. \E p \in Policies : policies[p] # "none"
      BY <3>1 DEF Active
    <3> QED
      BY <3>1, <3>2 DEF Inv, ExactlyOneActive
  <2> QED
    BY <2>1, <2>2
<1> QED
  BY <1>4, <1>5, <1>6, <1>7, <1>8, <1>9 DEF Inv

LEMMA NextKeeps == Inv /\ [Next]_vars => Inv'
<1> SUFFICES ASSUME Inv, [Next]_vars PROVE Inv'
  OBVIOUS
<1>1. ASSUME NEW w \in Workers, Call(w) PROVE Inv'
  BY <1>1, CreateKeeps, ActivateKeeps DEF Call
<1>2. ASSUME NEW w \in Workers, Step(w) \/ Lose(w) PROVE Inv'
  BY <1>2, BeginKeeps, DeactivateKeeps, WriteKeeps, EnterKeeps, CommitKeeps,
     RollbackKeeps DEF Step, Lose, Collide, AbortDeadlocked
<1>3. CASE UNCHANGED vars
  BY <1>3 DEF vars, Inv, TypeOK, Locks, Stage, Plain, Exclusive, Entered, At,
     ExactlyOneActive, Active
<1> QED
  BY <1>1, <1>2, <1>3 DEF Next

\* PricingService.create and activate, run by any number of requests, leave a
\* tenant that has a policy with exactly one active policy, whatever the
\* snapshots of updateMany miss and whichever transactions are rolled back.
THEOREM OneActivePolicyPerTenant == Spec => []ExactlyOneActive
<1>1. Inv => ExactlyOneActive
  BY DEF Inv
<1> QED
  BY InitInv, NextKeeps, <1>1, PTL DEF Spec

\* No two open transactions have written the same policy, and nobody else may
\* pass the unique index between a transaction's check and its commit.
THEOREM IndexIsExclusive == Spec => [](TypeOK /\ Locks /\ Exclusive)
<1>1. Inv => TypeOK /\ Locks /\ Exclusive
  BY DEF Inv
<1> QED
  BY InitInv, NextKeeps, <1>1, PTL DEF Spec
=============================================================================
