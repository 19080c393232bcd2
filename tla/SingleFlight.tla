---------------------------- MODULE SingleFlight ----------------------------
(***************************************************************************)
(* singleflight.Group (singleflight/singlefight.go): concurrent Do calls   *)
(* for one key share one execution of fn.  A goroutine is a stack of the   *)
(* calls it leads, innermost last, because fn (a Getter) may itself call   *)
(* Do for other keys.  A call object lives until its leader and its last   *)
(* waiter have left it; then its identifier may be allocated again.        *)
(***************************************************************************)
EXTENDS Integers, Sequences, FiniteSets

CONSTANTS
    Goroutines,
    Keys,
    Calls,      \* identifiers of call objects, numbers
    Nil,        \* the nil pointer
    Needs,      \* Needs[k]: the other keys that fn for key k may load
    Rank        \* a number for each key that decreases along Needs

ASSUME CallsAssumption == Calls \subseteq Nat
ASSUME NeedsAssumption == Needs \in [Keys -> SUBSET Keys]

\* Getters have no cyclic dependency between different keys: the code does not
\* detect those across goroutines and leaves them to the caller
\* (geecache.go:25-27).
ASSUME RankAssumption ==
    /\ Rank \in [Keys -> Nat]
    /\ \A k \in Keys : \A j \in Needs[k] : Rank[j] < Rank[k]

VARIABLES
    m,      \* m[k]: the call in flight for key k, or Nil
    call,   \* the fields of each call object
    stack,  \* stack[g]: the calls g leads, innermost last
    pc,     \* pc[g]: "run" in fn or outside Do, "wait", or a step of doCall
    awaits  \* awaits[g]: the call g is blocked on in wait, or Nil

vars == <<m, call, stack, pc, awaits>>

\* "nil" is the pair (nil, nil) of a call whose fn has not returned, "returned"
\* the value or the error it returned, "panicked" the error made of a panic.
Results == {"nil", "returned", "panicked"}

CallRecord == [key : Keys, leader : Goroutines, open : BOOLEAN, res : Results]

ASSUME NilAssumption == Nil \notin Calls \cup CallRecord

TypeOK ==
    /\ m \in [Keys -> Calls \cup {Nil}]
    /\ call \in [Calls -> CallRecord \cup {Nil}]
    /\ stack \in [Goroutines -> Seq(Calls)]
    /\ pc \in [Goroutines -> {"run", "wait", "unlink", "notify"}]
    /\ awaits \in [Goroutines -> Calls \cup {Nil}]

Init ==
    /\ m = [k \in Keys |-> Nil]
    /\ call = [c \in Calls |-> Nil]
    /\ stack = [g \in Goroutines |-> <<>>]
    /\ pc = [g \in Goroutines |-> "run"]
    /\ awaits = [g \in Goroutines |-> Nil]

Leading(g) == {stack[g][i] : i \in 1..Len(stack[g])}
Top(g) == stack[g][Len(stack[g])]

Waiters(c) == {g \in Goroutines : awaits[g] = c}

\* The allocator hands out the lowest identifier not in use: identifiers carry
\* no meaning, so nothing is lost by fixing the choice.
Free(c) == call[c] = Nil /\ \A d \in Calls : d < c => call[d] # Nil

-----------------------------------------------------------------------------
(* Do, up to the point where it runs fn or waits *)

\* Application code calls Do for any key; fn calls it for a key that its own
\* key needs or, by mistake, for one that this goroutine is already loading.
Calling(g, k) ==
    /\ pc[g] = "run"
    /\ stack[g] # <<>> => \/ k \in Needs[call[Top(g)].key]
                          \/ \E c \in Leading(g) : call[c].key = k

\* Mutant: a call whose fn has returned is not taken for one in flight.
AbsentOrReturned(k) == m[k] # Nil => call[m[k]].res # "nil"

Absent(k) == m[k] = Nil

\* The call is registered with its wait count at one before g.mu is released.
Lead(g, k) ==
    /\ Calling(g, k)
    /\ Absent(k)
    /\ \E c \in Calls :
          /\ Free(c)
          /\ call' = [call EXCEPT ![c] = [key |-> k, leader |-> g,
                                          open |-> TRUE, res |-> "nil"]]
          /\ m' = [m EXCEPT ![k] = c]
          /\ stack' = [stack EXCEPT ![g] = Append(@, c)]
    /\ UNCHANGED <<pc, awaits>>

\* Mutant: only the innermost call of the goroutine is compared.
ReentersTop(g, k) == stack[g] # <<>> /\ Top(g) = m[k]

\* c.leader, read before g.mu is released, is the calling goroutine.
Reenters(g, k) == call[m[k]].leader = g

\* ErrReentrant, without waiting.
Reentrant(g, k) ==
    /\ Calling(g, k)
    /\ m[k] # Nil
    /\ Reenters(g, k)
    /\ UNCHANGED vars

Join(g, k) ==
    /\ Calling(g, k)
    /\ m[k] # Nil
    /\ ~Reenters(g, k)
    /\ pc' = [pc EXCEPT ![g] = "wait"]
    /\ awaits' = [awaits EXCEPT ![g] = m[k]]
    /\ UNCHANGED <<m, call, stack>>

Wake(g) ==
    /\ pc[g] = "wait"
    /\ ~call[awaits[g]].open
    /\ pc' = [pc EXCEPT ![g] = "run"]
    /\ awaits' = [awaits EXCEPT ![g] = Nil]
    /\ call' = [call EXCEPT ![awaits[g]] =
                   IF Waiters(awaits[g]) = {g} THEN Nil ELSE @]
    /\ UNCHANGED <<m, stack>>

-----------------------------------------------------------------------------
(* doCall *)

\* Mutant: a panic leaves the fields of the call as they were.
ResultUnlessPanic(r) == IF r = "panicked" THEN "nil" ELSE r

\* What the deferred function leaves in the call: a panic becomes an error.
ResultOf(r) == r

\* fn returns a value or an error, or panics.
Finish(g) ==
    /\ pc[g] = "run"
    /\ stack[g] # <<>>
    /\ \E r \in {"returned", "panicked"} :
          call' = [call EXCEPT ![Top(g)].res = ResultOf(r)]
    /\ pc' = [pc EXCEPT ![g] = "unlink"]
    /\ UNCHANGED <<m, stack, awaits>>

\* delete(g.m, key), under g.mu.
Unlink(g) ==
    /\ pc[g] = "unlink"
    /\ m' = [m EXCEPT ![call[Top(g)].key] = Nil]
    /\ pc' = [pc EXCEPT ![g] = "notify"]
    /\ UNCHANGED <<call, stack, awaits>>

\* Mutant: a panic skips c.wg.Done().
DoneUnlessPanic(c) == [c EXCEPT !.open = (c.res = "panicked")]

Done(c) == [c EXCEPT !.open = FALSE]

\* c.wg.Done(); then Do returns, or the panic is raised again in the code that
\* called Do, which may be the fn of an outer call and may recover.
Notify(g) ==
    /\ pc[g] = "notify"
    /\ call' = [call EXCEPT ![Top(g)] = IF Waiters(Top(g)) = {} THEN Nil ELSE Done(@)]
    /\ stack' = [stack EXCEPT ![g] = SubSeq(@, 1, Len(@) - 1)]
    /\ pc' = [pc EXCEPT ![g] = "run"]
    /\ UNCHANGED <<m, awaits>>

Next ==
    \E g \in Goroutines :
       \/ \E k \in Keys : Lead(g, k) \/ Reentrant(g, k) \/ Join(g, k)
       \/ Wake(g)
       \/ Finish(g)
       \/ Unlink(g)
       \/ Notify(g)

Spec == Init /\ [][Next]_vars

\* The scheduler runs every runnable goroutine, and every fn terminates: at
\* whatever depth a goroutine is, it does not load other keys for ever.
Fairness ==
    \A g \in Goroutines :
       /\ WF_vars(Wake(g) \/ Unlink(g) \/ Notify(g))
       /\ \A d \in 1..Cardinality(Keys) : SF_vars(Len(stack[g]) = d /\ Finish(g))

FairSpec == Spec /\ Fairness

-----------------------------------------------------------------------------
(* Properties *)

\* The i-th call of g's stack has not been deleted from the map yet.
Linked(g, i) == i < Len(stack[g]) \/ pc[g] # "notify"

\* At any time at most one goroutine runs fn for a key, and the map entry is
\* its call: an entry is never overwritten by, or deleted for, another flight.
OneFlightPerKey ==
    \A g \in Goroutines : \A i \in 1..Len(stack[g]) :
       Linked(g, i) => m[call[stack[g][i]].key] = stack[g][i]

\* A Do that finds an entry never gets a call that was already over: the key
\* is deleted before the waiters are released (singlefight.go:77-78).
EntryIsOpen ==
    \A k \in Keys : m[k] # Nil => call[m[k]] # Nil /\ call[m[k]].open

\* A waiter is released or another goroutine still holds the call it waits
\* for and will release it; a panic of fn loses no waiter.
BlockedOn(g) == {h \in Goroutines : awaits[g] \in Leading(h)}

NoLostWaiter ==
    \A g \in Goroutines :
       pc[g] = "wait" /\ call[awaits[g]].open => BlockedOn(g) \ {g} # {}

\* No set of goroutines wait for one another, and none waits for itself, as
\* long as different keys do not need each other cyclically.
NoDeadlock ==
    \A S \in (SUBSET Goroutines) \ {{}} :
       \E g \in S : ~(pc[g] = "wait" /\ BlockedOn(g) \cap S # {})

\* No waiter is released with (nil, nil), which it would take for a value, even
\* when fn panicked (singlefight.go:73).
NeverEmptyResult ==
    \A g \in Goroutines :
       pc[g] = "wait" /\ ~call[awaits[g]].open => call[awaits[g]].res # "nil"

\* The inductive invariant, of which OneFlightPerKey is a part.  A call on a
\* stack is open and led by that goroutine, and it is there only once.
FramesOpen ==
    \A g \in Goroutines : \A i \in 1..Len(stack[g]) :
       /\ call[stack[g][i]] # Nil
       /\ call[stack[g][i]].leader = g
       /\ call[stack[g][i]].open
       /\ \A j \in 1..Len(stack[g]) : stack[g][i] = stack[g][j] => i = j

\* Conversely, an open call is on the stack of its leader.
OpenIsLed ==
    \A c \in Calls : call[c] # Nil /\ call[c].open => c \in Leading(call[c].leader)

\* An entry of the map is the call of a flight for its key that is not unlinked.
EntriesLinked ==
    \A k \in Keys : m[k] # Nil =>
       /\ call[m[k]] # Nil
       /\ call[m[k]].key = k
       /\ \E g \in Goroutines : \E i \in 1..Len(stack[g]) :
             stack[g][i] = m[k] /\ Linked(g, i)

\* doCall runs for the top of a stack, whose result it has stored.
StagesFit ==
    \A g \in Goroutines :
       /\ pc[g] = "wait" <=> awaits[g] # Nil
       /\ pc[g] \in {"unlink", "notify"} =>
             stack[g] # <<>> /\ call[Top(g)].res # "nil"

\* A goroutine waits only for calls of others, and they outlive its waiting.
WaitersHold ==
    \A g \in Goroutines : pc[g] = "wait" =>
       call[awaits[g]] # Nil /\ call[awaits[g]].leader # g

ClosedHasResult ==
    \A c \in Calls : call[c] # Nil /\ ~call[c].open => call[c].res # "nil"

\* Ranks decrease along a stack and on to the call its goroutine waits for.
RanksDecrease ==
    \A g \in Goroutines : \A i \in 1..Len(stack[g]) :
       /\ \A j \in 1..Len(stack[g]) :
             i < j => Rank[call[stack[g][j]].key] < Rank[call[stack[g][i]].key]
       /\ pc[g] = "wait" => Rank[call[awaits[g]].key] < Rank[call[stack[g][i]].key]

IInv ==
    /\ TypeOK
    /\ FramesOpen
    /\ OneFlightPerKey
    /\ OpenIsLed
    /\ EntriesLinked
    /\ StagesFit
    /\ WaitersHold
    /\ ClosedHasResult
    /\ RanksDecrease

\* Every Do returns, that of a leader and that of a waiter.
DoReturns ==
    \A g \in Goroutines :
       stack[g] # <<>> \/ pc[g] = "wait" ~> stack[g] = <<>> /\ pc[g] = "run"
=============================================================================
