------------------------------- MODULE MCChat --------------------------------
(***************************************************************************)
(* The message pipeline and the parts around it, for TLC.  They share no   *)
(* variable: a behaviour is one of one part, and the variables of the      *)
(* others stay as they were.                                               *)
(***************************************************************************)
EXTENDS MCMessagePipeline, Dialogs, ReadState, History, Notifications, Media, MediaAccess

CONSTANTS p1, p2

VARIABLE part

MCOrder == <<p1, p2>>

chatVars == <<vars, dialogVars, pointerVars, pageVars, pushVars, mediaVars, accessVars, part>>

\* Only the part that runs starts in each of its initial states.
MCInit ==
  /\ Init /\ DialogInit /\ ReadInit /\ HistInit /\ PushInit /\ MediaInit /\ AccessInit
  /\ part \in {"pipeline", "dialogs", "read", "history", "push", "media", "access"}
  /\ part # "dialogs" => pairIndex
  /\ part # "history" => hstored = {}
  /\ part # "push" => loggedOut = {} /\ online /\ muted
  /\ part # "access" => \A p \in Persons : inside[p] = {}

MCNext ==
  /\ UNCHANGED part
  /\ IF part = "pipeline" THEN Next ELSE UNCHANGED vars
  /\ IF part = "dialogs" THEN DialogNext ELSE UNCHANGED dialogVars
  /\ IF part = "read" THEN ReadNext ELSE UNCHANGED pointerVars
  /\ IF part = "history" THEN HistNext ELSE UNCHANGED pageVars
  /\ IF part = "push" THEN PushNext ELSE UNCHANGED pushVars
  /\ IF part = "media" THEN MediaNext ELSE UNCHANGED mediaVars
  /\ IF part = "access" THEN AccessNext ELSE UNCHANGED accessVars

MCSpec == MCInit /\ [][MCNext]_chatVars
=============================================================================
