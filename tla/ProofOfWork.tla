----------------------------- MODULE ProofOfWork -----------------------------
(***************************************************************************)
(* The pq step of the handshake: the server's semiprime (GeneratePQ,       *)
(* VerifyPQ) and the client's search for its factors (FactorPQ, brent).    *)
(***************************************************************************)
EXTENDS Integers, SequencesExt

CONSTANTS Primes,       \* what randomPrime31 draws from
          MaxSteps,     \* of one round of brent
          MaxConstant,  \* the rounds take constants below it; 64 in the code
          PqWidth       \* bits of the products; 64 in the code

ASSUME PrimesAssumption ==
  \A p \in Primes : /\ p > 2 /\ \A d \in 2..p - 1 : p % d # 0
                    /\ \A q \in Primes : p * q < 2 ^ PqWidth

VARIABLES
  pq,              \* the semiprime the server sent
  round, paces,    \* brent's constant c and loop counter
  slow, fast,      \* its x and y
  factors          \* FactorPQ's answer: <<>> while it searches, <<0, 0>> for its error

pqVars == <<pq, round, paces, slow, fast, factors>>

\* GeneratePQ draws again when the primes are equal.
GeneratePQ == {p * q : <<p, q>> \in {d \in Primes \X Primes : d[1] # d[2]}}

PqInit == /\ pq \in GeneratePQ /\ factors = <<>>
          /\ round = 1 /\ paces = 0 /\ slow = 2 /\ fast = 2

VerifyPQ(p, q) == /\ p > 1 /\ q > 1 /\ p # pq /\ q # pq
                  /\ (p * q) % 2 ^ PqWidth = pq

Walk(v) == (v * v + round) % pq
Abs(n) == IF n < 0 THEN -n ELSE n
GCD(a, b) == Max({d \in 1..b : a % d = 0 /\ b % d = 0})

\* Mutant of NextRound: a cycle without a factor ends the search.
NextRoundNone == factors' = <<0, 0>> /\ UNCHANGED <<round, paces, slow, fast>>

\* brent returned nil: the next constant, or the error.
NextRound == IF round + 1 < MaxConstant
             THEN round' = round + 1 /\ paces' = 0 /\ slow' = 2 /\ fast' = 2 /\ UNCHANGED factors
             ELSE factors' = <<0, 0>> /\ UNCHANGED <<round, paces, slow, fast>>

\* One step of the loop of brent.
Brent ==
  /\ factors = <<>> /\ paces < MaxSteps
  /\ LET x1 == Walk(slow)
         y1 == Walk(Walk(fast))
         d == GCD(Abs(x1 - y1), pq) IN
       \/ x1 = y1 /\ NextRound
       \/ /\ x1 # y1 /\ d > 1
          /\ factors' = IF d > pq \div d THEN <<pq \div d, d>> ELSE <<d, pq \div d>>
          /\ UNCHANGED <<round, paces, slow, fast>>
       \/ /\ x1 # y1 /\ d = 1 /\ slow' = x1 /\ fast' = y1 /\ paces' = paces + 1
          /\ UNCHANGED <<round, factors>>
  /\ UNCHANGED pq

OutOfSteps == factors = <<>> /\ paces = MaxSteps /\ NextRound /\ UNCHANGED pq

PqNext == Brent \/ OutOfSteps
PqSpec == PqInit /\ [][PqNext]_pqVars
-----------------------------------------------------------------------------
PqTypeOK == /\ round \in 1..MaxConstant - 1 /\ paces \in 0..MaxSteps
            /\ {slow, fast} \subseteq 0..pq /\ pq \in GeneratePQ

\* FactorPQ "splits a semiprime": for every one the server may send it ends, within
\* its rounds and paces, with the two primes in order, which VerifyPQ accepts.
FactorsAreFound ==
  /\ PqTypeOK
  /\ factors # <<>> => /\ Range(factors) \subseteq Primes /\ factors[1] < factors[2]
                       /\ VerifyPQ(factors[1], factors[2])
=============================================================================
