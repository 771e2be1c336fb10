------------------------------- MODULE Impact -------------------------------
(***************************************************************************)
(* How the sentinel classifies an action: the translation of               *)
(* springtale-sentinel/src/impact.rs (classify_impact) over the action     *)
(* variants of springtale-core/src/rule/action.rs.                         *)
(*                                                                         *)
(* An action is abstracted to what the gates tell apart: its variant, the  *)
(* connector and action name of a RunConnector, the manifest hints found   *)
(* for it in the registry, and for a Chain the set of variants reachable   *)
(* through its steps (the impact of a chain is the maximum over them, so   *)
(* nesting does not matter).                                               *)
(***************************************************************************)
EXTENDS Naturals, FiniteSets

\* WriteFile is split in two by delete_source, the only field that counts.
LeafKinds ==
    {"RunConnector", "WriteFile", "WriteFileDelete", "RunShell", "Transform",
     "Delay", "AiComplete", "Extract", "Dedupe", "SendMessage", "Notify"}

Kinds == LeafKinds \cup {"Chain"}

\* Option<ActionHints>: None, read_only, destructive = Some(false),
\* Some(true) and None. read_only is tested first, so it absorbs the others.
Hints == {"none", "read_only", "safe", "destructive", "unknown"}

\* The enum's Ord: ReadOnly < Reversible < Destructive.
ReadOnly    == 0
Reversible  == 1
Destructive == 2

LeafImpact(kind, hints) ==
    CASE kind = "RunConnector" ->
            (CASE hints = "read_only" -> ReadOnly
               [] hints = "safe"      -> Reversible
               [] OTHER               -> Destructive)
      [] kind \in {"WriteFileDelete", "RunShell"} -> Destructive
      [] kind \in {"SendMessage", "Notify", "WriteFile"} -> Reversible
      [] OTHER -> ReadOnly

\* A Chain hands its own hints (always None: the dispatcher looks hints up for
\* a RunConnector only) to every step, and an empty chain is ReadOnly.
classify_impact(a) ==
    IF a.kind # "Chain"
    THEN LeafImpact(a.kind, a.hints)
    ELSE IF a.steps = {}
         THEN ReadOnly
         ELSE CHOOSE i \in {LeafImpact(k, a.hints) : k \in a.steps} :
                 \A k \in a.steps : LeafImpact(k, a.hints) <= i
=============================================================================
