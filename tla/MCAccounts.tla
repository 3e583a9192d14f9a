----------------------------- MODULE MCAccounts -----------------------------
(***************************************************************************)
(* Accounts and what a client meets on the way to one, for TLC: the bytes  *)
(* of its connection, the proof of work of the handshake, the rate limits  *)
(* and the ids of what it makes.  The parts share no variable: a behaviour *)
(* is one of one part, and the variables of the others stay as they were.  *)
(***************************************************************************)
EXTENDS Accounts, Framing, ProofOfWork, RateLimiter, Snowflake, TLC

CONSTANTS p1, c1, c2, u1, u2, k1, k2, w1, w2

VARIABLE part

Symmetric == Permutations({w1, w2}) \union Permutations({u1, u2})
             \union Permutations({k1, k2}) \union Permutations({c1, c2})

\* Only the part that runs starts in each of its initial states.
MCInit ==
  /\ AccountInit /\ FrameInit /\ PqInit /\ LimitInit /\ IdInit
  /\ part \in {"accounts", "frames", "pq", "limit", "ids"}
  /\ part # "frames" => framing = "full"
  /\ part # "pq" => pq = Min(GeneratePQ)
  /\ part # "ids" => \A p, q \in Pods : nodeOf[p] = nodeOf[q] /\ nodeOf[p] = 1

MCNext ==
  /\ UNCHANGED part
  /\ IF part = "accounts" THEN AccountNext ELSE UNCHANGED accountVars
  /\ IF part = "frames" THEN FrameNext ELSE UNCHANGED frameVars
  /\ IF part = "pq" THEN PqNext ELSE UNCHANGED pqVars
  /\ IF part = "limit" THEN LimitNext ELSE UNCHANGED limitVars
  /\ IF part = "ids" THEN IdNext ELSE UNCHANGED idVars

MCSpec == MCInit /\ [][MCNext]_<<accountVars, frameVars, pqVars, limitVars, idVars, part>>
=============================================================================
