------------------------------- MODULE MCFarSide ------------------------------
(* What otto's calls leave on a host's far side, for TLC: the shells of    *)
(* src/otto/host/session.py and the impairments of src/otto/link/manage.py,*)
(* in five scenes of one run.                                              *)
(*   names      callers of the default session and of a named one          *)
(*   pool       callers of exec                                            *)
(*   shell      the commands of one session                                *)
(*   one end    a link is impaired on one end, with timers                 *)
(*   both ends  on both, without timers from before                        *)
EXTENDS SessionManager, ShellSession, LinkImpair

CONSTANTS t1, t2, n1, n2, p1, p2

VARIABLE scene

MCInit ==
    /\ Init /\ ShellInit /\ LinkInit
    /\ scene \in {"names", "pool", "shell", "one end", "both ends"}

NobodyExecs == \A t \in Tasks : task'[t].name # Pool
AllExec == \A t \in Tasks : task'[t] = Idle \/ task'[t].name = Pool

(* The callers are alike.  They call in the first two scenes only, and what*)
(* must eventually happen is of the third, where no caller calls: the      *)
(* symmetry takes nothing from CallEnds.                                   *)
Alike == Permutations({t1, t2})

(* The selectors are alike: the first call has p1, or none.                *)
FirstIsP1 == calls' = 1 => op'.scope # p2

OneEnd ==
    /\ op'.kind = "impair" => op'.last = 1
    /\ op'.level <= 1
    /\ calls' = 1 => op'.expire
    /\ calls' < MaxCalls => linkFaults' = 0

BothEnds ==
    /\ op'.first = 1 /\ op'.last = Placements
    /\ calls' <= 2
    /\ calls' = 1 => ~op'.expire

MCNext ==
    /\ UNCHANGED scene
    /\ \/ scene = "names" /\ Next /\ NobodyExecs /\ UNCHANGED <<lineVars, linkVars>>
       \/ scene = "pool" /\ Next /\ AllExec /\ UNCHANGED <<lineVars, linkVars>>
       \/ scene = "shell" /\ ShellNext /\ UNCHANGED <<vars, linkVars>>
       \/ scene = "one end" /\ LinkNext /\ FirstIsP1 /\ OneEnd /\ UNCHANGED <<vars, lineVars>>
       \/ scene = "both ends" /\ LinkNext /\ FirstIsP1 /\ BothEnds /\ UNCHANGED <<vars, lineVars>>

MCSpec ==
    /\ MCInit /\ [][MCNext]_<<vars, lineVars, linkVars, scene>>
    /\ ShellFairness

(* Every variable of the modules keeps its type.                           *)
MCTypeOK == TypeOK /\ ShellTypeOK /\ LinkTypeOK
=============================================================================
