----------------------------- MODULE MCRegistry -----------------------------
(* Instances of Registry for TLC: a few tools and one server. *)
EXTENDS Registry

CONSTANTS s1, ann, bob, yan, ivy, git, src

V(x, y, z) == [major |-> x, minor |-> y, patch |-> z]

\* 1.9.0 and 1.10.0, which sort the other way round as text.
Nine == V(1, 9, 0)
Ten == V(1, 10, 0)
NineAndTen == {Nine, Ten}

Ask(op, v, s, wanted) ==
  [op |-> op, version |-> v, source |-> s, wanted |-> wanted]

OneHome == [c \in Client |-> s1]

\* Ann and Bob publish, Yan yanks what Ann published, and Ivy installs what is
\* older than 2.0.0.
Below2 == {[op |-> "<", at |-> V(2, 0, 0)]}
Mixed == [c \in Client |->
  CASE c = ann -> Ask("publish", Ten, git, {})
    [] c = bob -> Ask("publish", Nine, src, {})
    [] c = yan -> Ask("yank", Ten, git, {})
    [] OTHER -> Ask("install", Ten, git, Below2)]

\* Ann may try twice, the others try once.
AnnTwice == [c \in Client |-> IF c = ann THEN 2 ELSE 1]

\* Who takes part, how often Ann has tried before, and how many of the two
\* faults have happened elsewhere.
Casts == {[who |-> {ann, bob, yan}, tried |-> 0, spent |-> 1],
          [who |-> {ann, yan, ivy}, tried |-> 0, spent |-> 1],
          [who |-> {ann, bob, ivy}, tried |-> 0, spent |-> 1],
          [who |-> {ann, yan, ivy}, tried |-> 1, spent |-> 0]}

\* Registry's Init but for the runs of those who do not take part.
MCInit ==
  \E cast \in Casts :
    /\ file = [v \in Version |-> Absent] /\ index = {}
    /\ phase = [s \in Server |-> "accept"]
    /\ serving = [s \in Server |-> Nobody]
    /\ held = [s \in Server |-> {}]
    /\ answer = [s \in Server |-> None]
    /\ queue = [s \in Server |-> <<>>]
    /\ stage = [c \in Client |-> "idle"]
    /\ dials = [c \in Client |-> 0]
    /\ runs = [c \in Client |-> CASE c \notin cast.who -> MaxRuns[c]
                                  [] c = ann -> cast.tried
                                  [] OTHER -> 0]
    /\ reply = [c \in Client |-> None]
    /\ chosen = [c \in Client |-> {}] /\ got = [c \in Client |-> Absent]
    /\ outcome = [c \in Client |-> "none"]
    /\ acks = [v \in Version |-> {}] /\ stable = [c \in Client |-> {}]
    /\ disturbed = {} /\ lost = {} /\ faults = cast.spent

MCSpec == /\ MCInit /\ [][Next]_vars
          /\ \A s \in Server : WF_vars(Serve(s))
          /\ \A c \in Client : WF_vars(Run(c))
=============================================================================
