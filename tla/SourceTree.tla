----------------------------- MODULE SourceTree -----------------------------
(***************************************************************************)
(* The files the two module loaders read (src/module.c and                  *)
(* src/tiq/module.tiq), and the vocabulary of their specifications.  A path *)
(* is a spelling; FileOf is what the file system resolves it to.  A file's  *)
(* import operand resolves first against the importing file's directory     *)
(* (near) and then against the working directory (cwd).                     *)
(*                                                                          *)
(* The disk does not change during a load, and all spellings of one file    *)
(* lie in one directory, so that near does not depend on the spelling.      *)
(***************************************************************************)
EXTENDS Integers, Sequences, FiniteSets

CONSTANTS File, Path, NoFile,
          FileOf,     \* what a path denotes: a file, or nothing
          Root,       \* the path given on the command line
          MaxDepth    \* TIQ_MAX_IMPORT_DEPTH

ASSUME TreeAssumption ==
  /\ IsFiniteSet(File) /\ NoFile \notin File
  /\ FileOf \in [Path -> File \cup {NoFile}]
  /\ Root \in Path
  /\ MaxDepth \in Nat \ {0}

Import == [near : Path, cwd : Path]

\* A file that does not parse is broken; "operand" singles out one that lexes
\* and whose last import has an operand that is not a string.
Kind == {"fine", "unreadable", "broken", "operand"}
Unsound == {"broken", "operand"}

\* The two steps of the resolution.
Spelling(i) == IF FileOf[i.near] # NoFile THEN i.near ELSE i.cwd
Child(i) == FileOf[Spelling(i)]
FromCwd(i) == FileOf[i.near] = NoFile /\ FileOf[i.cwd] # NoFile

Imports(text, f) == {text[f][n] : n \in DOMAIN text[f]}
Children(text, f) == {Child(i) : i \in Imports(text, f)}

\* The files the root leads to: the least set that holds the root's file and
\* is closed under imports.
Closed(text, S) == \A f \in S : Children(text, f) \cap File \subseteq S
Reach(text) == {f \in File :
  \A S \in SUBSET File : FileOf[Root] \in S /\ Closed(text, S) => f \in S}

\* What may be wrong with the program, by the diagnostic that says so.
Missing(text, kind) ==
  \/ FileOf[Root] = NoFile
  \/ \E f \in Reach(text) : kind[f] = "unreadable" \/ NoFile \in Children(text, f)
Cyclic(text) == \E C \in SUBSET Reach(text) :
  C # {} /\ \A f \in C : Children(text, f) \cap C # {}
\* A chain of imports is too long only by files that are not done yet.
TooDeep(text, done) == \E chain \in [1..(MaxDepth + 1) -> Reach(text) \ done] :
  \A n \in 1..MaxDepth : chain[n + 1] \in Children(text, chain[n])
Broken(text, kind) == \E f \in Reach(text) : kind[f] \in Unsound

Unique(s) == \A m, n \in DOMAIN s : s[m] = s[n] => m = n
Members(s) == {s[n] : n \in DOMAIN s}
=============================================================================
