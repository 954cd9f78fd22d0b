----------------------------- MODULE PackBuild -----------------------------
(***************************************************************************)
(* What compiling a pack promises, with no recursion, no stack and no set  *)
(* of files in progress: files become available one at a time, a file only *)
(* after all the files it declares; the build succeeds exactly with the    *)
(* files the root reaches, and fails only if the pack has a defect.        *)
(***************************************************************************)
EXTENDS PackGraph

VARIABLES
    disk,       \* the file system, fixed
    root,       \* the root of the current pack
    loaded,     \* the files available to the passes after parsing
    outcome     \* "idle" | "building" | "ok" | "error"

vars == <<disk, root, loaded, outcome>>

Init ==
    /\ disk \in Disks
    /\ root = NoPath
    /\ loaded = {}
    /\ outcome = "idle"

Start(r) ==
    /\ outcome # "building"
    /\ root' = r
    /\ loaded' = {}
    /\ outcome' = "building"
    /\ UNCHANGED disk

Load(p) ==
    /\ outcome = "building"
    /\ p \in Reach(disk, root) \ loaded
    /\ Loadable(disk, p)
    /\ Children(disk, p) \subseteq loaded
    /\ loaded' = loaded \cup {p}
    /\ UNCHANGED <<disk, root, outcome>>

Succeed ==
    /\ outcome = "building"
    /\ loaded = Reach(disk, root)
    /\ outcome' = "ok"
    /\ UNCHANGED <<disk, root, loaded>>

Fail ==
    /\ outcome = "building"
    /\ ~WellFormed(disk, root)
    /\ outcome' = "error"
    /\ UNCHANGED <<disk, root, loaded>>

Next ==
    \/ \E r \in Path : Start(r)
    \/ \E p \in Path : Load(p)
    \/ Succeed
    \/ Fail

Spec == Init /\ [][Next]_vars
=============================================================================
