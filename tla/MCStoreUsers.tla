---------------------------- MODULE MCStoreUsers ----------------------------
(***************************************************************************)
(* TLC instance of three users of the SQLite file that run in several      *)
(* threads each: the bar cache, a cached panel, and generation.  They      *)
(* share no row and no lock, so steps of two of them commute, and a        *)
(* behaviour has the threads of one of them only.                          *)
(***************************************************************************)
EXTENDS BarCache, DisplayCaches, Generation

CONSTANTS a, b, c, x, y

Worded(rule, wording) == [key |-> rule, wording |-> wording]

\* No item, repeats within a response and across responses, more than were
\* asked for, invalid items alone and beside valid ones, the seed itself.
Menu ==
    {<<>>, <<Worded(b, x), Worded(a, y)>>, <<Worded(a, x), Invalid>>, <<Invalid>>,
     <<Worded(c, x), Worded(a, y), Worded(b, y), Worded(c, y)>>}
OneSeed == <<Worded(b, x)>>

VARIABLE user   \* the user of this behaviour

StoreTypeOK ==
    /\ CacheTypeOK /\ DisplayTypeOK /\ GenerationTypeOK
    /\ user \in {"bars", "panel", "generation"}

StoreInit ==
    /\ user \in {"bars", "panel", "generation"}
    /\ Init /\ DisplayInit /\ GenerationInit
    /\ user # "bars" => phase = "pre"

StoreNext ==
    /\ \/ user = "bars" /\ Next /\ UNCHANGED <<displayVars, genVars>>
       \/ user = "panel" /\ DisplayNext /\ UNCHANGED <<vars, genVars>>
       \/ user = "generation" /\ GenerationNext /\ UNCHANGED <<vars, displayVars>>
    /\ UNCHANGED user

StoreSpec == StoreInit /\ [][StoreNext]_<<vars, displayVars, genVars, user>>
=============================================================================
