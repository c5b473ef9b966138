------------------------------- MODULE Semver -------------------------------
(***************************************************************************)
(* Versions and version constraints (src/tiq/manifest.tiq): mf_semver       *)
(* folds major.minor.patch into one integer, and every comparison of the    *)
(* installer is made on that integer.  The parts are unbounded digit runs   *)
(* (mf_valid_version); they are taken here below the width of an i64.       *)
(***************************************************************************)
EXTENDS Integers

Versions == [major : Nat, minor : Nat, patch : Nat]

\* mf_semver of a version that mf_valid_version accepts.
Encode(v) == v.major * 1000000 + v.minor * 1000 + v.patch

Operator == {"=", ">=", "<=", ">", "<", "!="}

\* mf_ver_match.
Match(v, op, target) ==
  CASE op = "="  -> v = target
    [] op = ">=" -> v >= target
    [] op = "<=" -> v <= target
    [] op = ">"  -> v > target
    [] op = "<"  -> v < target
    [] OTHER     -> v # target

\* A constraint is a set of clauses, all of which must hold.
Clause == [op : Operator, at : Versions]

\* mf_ver_satisfies; no constraint at all admits every version.
Satisfies(v, constraint) ==
  \A c \in constraint : Match(Encode(v), c.op, Encode(c.at))

-----------------------------------------------------------------------------
\* What major.minor.patch means.

Precedes(v, w) ==
  \/ v.major < w.major
  \/ v.major = w.major /\ v.minor < w.minor
  \/ v.major = w.major /\ v.minor = w.minor /\ v.patch < w.patch

Meets(v, constraint) ==
  \A c \in constraint :
    CASE c.op = "="  -> v = c.at
      [] c.op = ">=" -> ~Precedes(v, c.at)
      [] c.op = "<=" -> ~Precedes(c.at, v)
      [] c.op = ">"  -> Precedes(c.at, v)
      [] c.op = "<"  -> Precedes(v, c.at)
      [] OTHER       -> v # c.at
=============================================================================
