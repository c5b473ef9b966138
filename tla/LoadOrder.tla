----------------------------- MODULE LoadOrder -----------------------------
(***************************************************************************)
(* What a module loader promises (docs/LANGUAGE_SPEC.md, section 17.6, as   *)
(* the interface of include/module.h has it): it puts files out one by one, *)
(* each once and after everything it imports; it accepts when the root is   *)
(* out, and rejects only a program that deserves the diagnostic.            *)
(***************************************************************************)
EXTENDS SourceTree

VARIABLES text, kind,   \* the disk: each file's imports, and its condition
          out,          \* the files put out so far
          verdict       \* "loading", "ok", or the diagnostic of the refusal

disk == <<text, kind>>
vars == <<disk, out, verdict>>

Init == /\ text \in [File -> Seq(Import)] /\ kind \in [File -> Kind]
        /\ out = <<>> /\ verdict = "loading"

Emit(f) == /\ verdict = "loading"
           /\ kind[f] = "fine" /\ f \in Reach(text) \ Members(out)
           /\ Children(text, f) \subseteq Members(out)
           /\ out' = Append(out, f)
           /\ verdict' = IF f = FileOf[Root] THEN "ok" ELSE "loading"
           /\ UNCHANGED disk

Deserved(code) == \/ code = "E27" /\ Missing(text, kind)
                  \/ code = "E28" /\ (Cyclic(text) \/ TooDeep(text, Members(out)))
                  \/ code = "syntax" /\ Broken(text, kind)

Reject(code) == /\ verdict = "loading" /\ Deserved(code)
                /\ verdict' = code
                /\ UNCHANGED <<disk, out>>

Next == \/ \E f \in File : Emit(f)
        \/ \E code \in {"E27", "E28", "syntax"} : Reject(code)

Spec == Init /\ [][Next]_vars

Once == Unique(out)

\* The imported file comes first.
DependenciesFirst == \A n \in DOMAIN out :
  Children(text, out[n]) \subseteq {out[m] : m \in 1..(n - 1)}

\* An accepted program is whole: every file the root leads to is out and
\* nothing else is, each of them fine, none of them missing, none on a cycle.
Whole == verdict = "ok" => /\ Members(out) = Reach(text)
                           /\ ~Missing(text, kind) /\ ~Broken(text, kind)
                           /\ ~Cyclic(text)
=============================================================================
