----------------------------- MODULE Snowflake -----------------------------
(***************************************************************************)
(* The 64-bit ids of messages, chats and reports (pkg/ids/ids.go): a       *)
(* generator per pod, its node number taken from the host name, the time   *)
(* from a clock that may step back.                                        *)
(***************************************************************************)
EXTENDS FiniteSets, Integers

CONSTANTS Pods,
          NodeNumbers,
          MaxStep,  \* the largest step within a millisecond (4095 in the code)
          MaxMilli, \* bound: the clock
          MaxIds,   \* bound: ids a pod has made
          MaxClockFaults \* bound: backward steps of a clock and restarts

ASSUME IdAssumption == {MaxStep, MaxMilli, MaxIds, MaxClockFaults} \subseteq Nat

VARIABLES nodeOf,  \* NodeFromHostname of each pod: two names may hash to one number
          milli,   \* the wall clock of each pod
          gen,     \* its generator: last and step
          made,    \* ids made: clock, node and step, and by whom
          life,    \* how often the pod has restarted
          clockFaults

idVars == <<nodeOf, milli, gen, made, life, clockFaults>>

IdTypeOK ==
  /\ nodeOf \in [Pods -> NodeNumbers] /\ milli \in [Pods -> 0..MaxMilli]
  /\ gen \in [Pods -> [last : -1..MaxMilli, step : 0..MaxStep]]
  /\ \A id \in made : id.step \in 0..MaxStep /\ id.pod \in Pods
  /\ clockFaults \in 0..MaxClockFaults

NewSnowflake == [last |-> -1, step |-> 0]

IdInit ==
  /\ nodeOf \in [Pods -> NodeNumbers]
  /\ milli = [p \in Pods |-> 0] /\ gen = [p \in Pods |-> NewSnowflake]
  /\ made = {} /\ life = [p \in Pods |-> 0] /\ clockFaults = 0

\* The id made of the clock, the node number and a step; "last" is kept.
Make(p, step) ==
  /\ Cardinality({id \in made : id.pod = p}) < MaxIds
  /\ gen' = [gen EXCEPT ![p] = [last |-> milli[p], step |-> step]]
  /\ made' = made \union {[milli |-> milli[p], node |-> nodeOf[p], step |-> step,
                           pod |-> p, life |-> life[p],
                           n |-> Cardinality({id \in made : id.pod = p})]}
  /\ UNCHANGED <<nodeOf, milli, life, clockFaults>>

\* Mutant of NextInMilli: the step wraps without waiting for the clock.
NextInMilliWraps(p) ==
  /\ milli[p] = gen[p].last
  /\ Make(p, (gen[p].step + 1) % (MaxStep + 1))

\* Next within a millisecond.  When the step wraps to zero the call waits, with
\* the lock held, until the clock has moved: it then makes what NextMilli makes.
NextInMilli(p) ==
  /\ milli[p] = gen[p].last
  /\ gen[p].step < MaxStep
  /\ Make(p, gen[p].step + 1)

\* Next in a later millisecond; a clock behind the last id is waited for.
NextMilli(p) == milli[p] > gen[p].last /\ Make(p, 0)

ClockTicks(p) ==
  /\ milli[p] < MaxMilli
  /\ milli' = [milli EXCEPT ![p] = @ + 1]
  /\ UNCHANGED <<nodeOf, gen, made, life, clockFaults>>

ClockStepsBack(p) ==
  /\ clockFaults < MaxClockFaults /\ milli[p] > 0
  /\ milli' = [milli EXCEPT ![p] = @ - 1]
  /\ clockFaults' = clockFaults + 1
  /\ UNCHANGED <<nodeOf, gen, made, life>>

\* The pod restarts under the same name: the generator forgets its last id.
RestartPod(p) ==
  /\ clockFaults < MaxClockFaults
  /\ gen' = [gen EXCEPT ![p] = NewSnowflake]
  /\ life' = [life EXCEPT ![p] = @ + 1]
  /\ clockFaults' = clockFaults + 1
  /\ UNCHANGED <<nodeOf, milli, made>>

IdNext == \E p \in Pods : \/ NextInMilli(p) \/ NextMilli(p)
                          \/ ClockTicks(p) \/ ClockStepsBack(p) \/ RestartPod(p)

IdSpec == IdInit /\ [][IdNext]_idVars

(***************************************************************************)
(* Properties.                                                             *)
(***************************************************************************)
Value(id) == <<id.milli, id.node, id.step>>
Below(a, b) == a.milli < b.milli \/ (a.milli = b.milli /\ a.step < b.step)

\* "It never returns a duplicate and never goes backwards, even if the wall
\* clock steps back": the ids of one generator are strictly increasing in the
\* order they were made.
IdsGrow == \A a, b \in made :
             a.pod = b.pod /\ a.life = b.life /\ a.n < b.n => Below(a, b)

\* Two ids are the same only if the pods' names hash to one node number, or if
\* a pod restarted while its clock had not passed its last id.
DuplicatesExplained ==
  \A a, b \in made : a # b /\ Value(a) = Value(b) =>
    \/ a.pod # b.pod /\ nodeOf[a.pod] = nodeOf[b.pod]
    \/ a.pod = b.pod /\ a.life # b.life

\* Ids of one generator grow, and the named accidents are the only duplicates.
IdsDistinct == IdTypeOK /\ IdsGrow /\ DuplicatesExplained
=============================================================================
