-------------------------- MODULE PricingPolicies --------------------------
(***************************************************************************)
(* Meter pricing policies of one tenant: PricingService.create and         *)
(* PricingService.activate, each one database transaction, run by several  *)
(* requests at once on PostgreSQL.                                         *)
(*                                                                         *)
(* A transaction sees what is committed and its own writes (READ           *)
(* COMMITTED).  What it has written and not yet committed is pending[w]; a *)
(* pending row is locked.  A partial unique index keeps two rows of a      *)
(* tenant from being active together; a statement that would collide with  *)
(* an uncommitted row waits for the other transaction to end.              *)
(***************************************************************************)
EXTENDS Naturals, FiniteSets

CONSTANTS
    Policies,   \* policy ids (bound: how many policies can be created)
    Workers,    \* requests that can be in flight together (bound)
    None

Status == {"none", "inactive", "active"}

ASSUME NoneAssumption == None \notin Policies \cup Status

VARIABLES
    policies,   \* committed rows: "none", "inactive" or "active"
    pending,    \* rows written by a transaction that has not committed
    req         \* locals of the requests in flight

vars == <<policies, pending, req>>

Unwritten == [p \in Policies |-> None]

\* activate: shouldActivate of create, TRUE for activate; requested: whether
\* the caller asked for it; row: the row to update, or the row inserted;
\* matched: what the snapshot of updateMany found active.
Idle == [pc |-> "idle", activate |-> FALSE, requested |-> FALSE,
         row |-> None, matched |-> {}]
Request == [pc : {"idle", "begin", "deactivate", "write", "index", "commit"},
            activate : BOOLEAN, requested : BOOLEAN,
            row : Policies \cup {None}, matched : SUBSET Policies]

TypeOK ==
    /\ policies \in [Policies -> Status]
    /\ pending \in [Workers -> [Policies -> {None, "inactive", "active"}]]
    /\ req \in [Workers -> Request]

Init ==
    /\ policies = [p \in Policies |-> "none"]
    /\ pending  = [w \in Workers |-> Unwritten]
    /\ req      = [w \in Workers |-> Idle]

-----------------------------------------------------------------------------
Active == {p \in Policies : policies[p] = "active"}

At(w, step) == req[w].pc = step
Goto(w, locals) == req' = [req EXCEPT ![w] = locals]

\* Who holds the lock of row p.
Holders(w, p) == {v \in Workers \ {w} : pending[v][p] # None}

\* Who keeps the unique index undecided for w: a transaction that has entered
\* an active row, or has deactivated the active row and may still roll back.
IndexHolders(w) ==
    {v \in Workers \ {w} : \E q \in Policies \ {req[w].row} :
        \/ pending[v][q] = "active" /\ At(v, "commit")
        \/ policies[q] = "active" /\ pending[v][q] # None}

\* The transactions whose end the current statement of w waits for.
WaitsFor(w) ==
    CASE At(w, "deactivate") -> UNION {Holders(w, p) : p \in req[w].matched}
      [] At(w, "write") /\ req[w].row # None -> Holders(w, req[w].row)
      [] At(w, "index") -> IndexHolders(w)
      [] OTHER -> {}

\* Mutant: the index on (tenantId) WHERE isActive is not there.
Duplicate_NoIndex(w) == FALSE

\* The unique index: a committed active row that w has not deactivated.
Duplicate(w) ==
    \E q \in Active \ {req[w].row} : pending[w][q] = None

-----------------------------------------------------------------------------
ShouldActivate(isActive) == isActive \/ Active = {}

\* create: the count is read before, and outside, the transaction.
CreatePolicy(w, isActive) ==
    /\ At(w, "idle")
    /\ Goto(w, [Idle EXCEPT
                  !.pc = IF ShouldActivate(isActive) THEN "begin" ELSE "write",
                  !.activate = ShouldActivate(isActive),
                  !.requested = isActive])
    /\ UNCHANGED <<policies, pending>>

\* activate: a policy that is read active already is answered at once.
ActivatePolicy(w, p) ==
    /\ At(w, "idle")
    /\ policies[p] = "inactive"
    /\ Goto(w, [Idle EXCEPT !.pc = "begin", !.activate = TRUE,
                            !.requested = TRUE, !.row = p])
    /\ UNCHANGED <<policies, pending>>

\* updateMany starts: its snapshot decides which rows it visits.
DeactivateBegin(w) ==
    /\ At(w, "begin")
    /\ Goto(w, [req[w] EXCEPT !.pc = IF Active = {} THEN "write" ELSE "deactivate",
                              !.matched = Active])
    /\ UNCHANGED <<policies, pending>>

\* updateMany waits for the lock of the row it matched (at most one is active)
\* and then looks at the row again: a row that is no longer active is skipped,
\* and a row that became active since the snapshot is never visited.
DeactivateOthers(w) ==
    /\ At(w, "deactivate")
    /\ WaitsFor(w) = {}
    /\ pending' = [pending EXCEPT ![w] =
            [p \in Policies |-> IF p \in req[w].matched \cap Active
                                  THEN "inactive" ELSE pending[w][p]]]
    /\ Goto(w, [req[w] EXCEPT !.pc = "write"])
    /\ UNCHANGED policies

\* create inserts a new row; activate waits for the lock of its row and updates
\* it.  An active row has yet to pass the unique index.
WritePolicy(w) ==
    /\ At(w, "write")
    /\ WaitsFor(w) = {}
    /\ \E p \in Policies :
        /\ IF req[w].row # None
             THEN p = req[w].row
             ELSE policies[p] = "none" /\ Holders(w, p) = {}
        /\ pending' = [pending EXCEPT ![w][p] =
                          IF req[w].activate THEN "active" ELSE "inactive"]
        /\ Goto(w, [req[w] EXCEPT !.row = p,
                       !.pc = IF req[w].activate THEN "index" ELSE "commit"])
    /\ UNCHANGED policies

EnterIndex(w) ==
    /\ At(w, "index")
    /\ WaitsFor(w) = {}
    /\ ~Duplicate(w)
    /\ Goto(w, [req[w] EXCEPT !.pc = "commit"])
    /\ UNCHANGED <<policies, pending>>

\* Mutant: the commit also writes the rows the transaction has not set.
Commit_UnsetRows(w) ==
    /\ At(w, "commit")
    /\ policies' = pending[w]
    /\ pending' = [pending EXCEPT ![w] = Unwritten]
    /\ Goto(w, Idle)

Commit(w) ==
    /\ At(w, "commit")
    /\ policies' = [p \in Policies |-> IF pending[w][p] = None
                                         THEN policies[p] ELSE pending[w][p]]
    /\ pending' = [pending EXCEPT ![w] = Unwritten]
    /\ Goto(w, Idle)

Rollback(w) ==
    /\ pending' = [pending EXCEPT ![w] = Unwritten]
    /\ Goto(w, Idle)
    /\ UNCHANGED policies

\* Mutant: a collision is retried until it succeeds.
Collide_Retry(w) ==
    /\ At(w, "index")
    /\ WaitsFor(w) = {}
    /\ Duplicate(w)
    /\ pending' = [pending EXCEPT ![w] = Unwritten]
    /\ Goto(w, [req[w] EXCEPT !.pc = "begin",
              !.row = IF policies[@] = "none" THEN None ELSE @])
    /\ UNCHANGED policies

\* P2002, the unique constraint failed.
Collide(w) ==
    /\ At(w, "index")
    /\ WaitsFor(w) = {}
    /\ Duplicate(w)
    /\ Rollback(w)

\* PostgreSQL finds transactions that wait for each other and aborts one.
Deadlocked(w) ==
    \E group \in SUBSET Workers :
        /\ w \in group
        /\ \A v \in group : WaitsFor(v) \cap group # {}

AbortDeadlocked(w) == Deadlocked(w) /\ Rollback(w)

\* The connection or the process is lost before the commit.
Lose(w) == ~At(w, "idle") /\ Rollback(w)

Step(w) ==
    \/ DeactivateBegin(w) \/ DeactivateOthers(w)
    \/ WritePolicy(w) \/ EnterIndex(w) \/ Collide(w)
    \/ AbortDeadlocked(w) \/ Commit(w)

\* A create is called only while an id is left (bound).
Call(w) ==
    \/ \E isActive \in BOOLEAN :
          /\ Cardinality({v \in Workers \ {w} : req[v].pc # "idle"})
               < Cardinality({p \in Policies : policies[p] = "none"})
          /\ CreatePolicy(w, isActive)
    \/ \E p \in Policies : ActivatePolicy(w, p)

Next == \E w \in Workers : Call(w) \/ Step(w) \/ Lose(w)

Spec == Init /\ [][Next]_vars

(***************************************************************************)
(* Node and PostgreSQL run every request to its end, and PostgreSQL grants *)
(* a lock to its waiters in turn: strong fairness.                         *)
(***************************************************************************)
FairSpec == Spec /\ \A w \in Workers : SF_vars(Step(w))

-----------------------------------------------------------------------------
\* Once a tenant has a policy, exactly one of its policies is active: rides can
\* always be priced and never by two policies, although the count is stale, the
\* deactivation may miss a newly activated row and any transaction may be lost.
ExactlyOneActive ==
    (\E p \in Policies : policies[p] # "none")
        => \E p \in Policies : Active = {p}

\* No set of requests waits on each other for good: whatever locks they take on
\* rows and in the unique index, every request ends.
EveryRequestEnds == \A w \in Workers : ~At(w, "idle") ~> At(w, "idle")
=============================================================================
