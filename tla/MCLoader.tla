------------------------------ MODULE MCLoader ------------------------------
(***************************************************************************)
(* Loader for TLC: the trigger for schools, with one document in each      *)
(* INSERT, or the one for lots, with up to two.  A behaviour is one of the *)
(* two (part), with tables and sessions of its own; the other stands still.*)
(***************************************************************************)
EXTENDS Loader

CONSTANTS LotsSessions, LotsMaxRows

VARIABLES part, lots, lotsLoad, lotsBak, lotsIndex, lotsTx

Lots == INSTANCE Loader WITH
          Sessions <- LotsSessions, MaxRows <- LotsMaxRows, Indexed <- FALSE,
          main <- lots, load <- lotsLoad, bak <- lotsBak, index <- lotsIndex, tx <- lotsTx

lotsVars == <<lots, lotsLoad, lotsBak, lotsIndex, lotsTx>>
vars_p == <<vars, part, lotsVars>>

Init_p == part \in {"schools", "lots"} /\ Init /\ Lots!Init

LoadsSchools == part = "schools" /\ UNCHANGED <<part, lotsVars>>
LoadsLots == part = "lots" /\ UNCHANGED <<part, vars>>

Next_p ==
  \/ LoadsSchools /\ Next
  \/ LoadsLots /\ Lots!Next

FairSpec_p ==
  /\ Init_p /\ [][Next_p]_vars_p
  /\ \A s \in Sessions : SF_vars_p(LoadsSchools /\ Statement(s))
  /\ \A s \in LotsSessions : SF_vars_p(LoadsLots /\ Lots!Statement(s))
-----------------------------------------------------------------------------
\* Every load that is started ends, of schools and of lots, whoever waits for whom.
LoadsTerminate == /\ part = "schools" => LoadTerminates
                  /\ part = "lots" => Lots!LoadTerminates
=============================================================================
