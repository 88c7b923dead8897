----------------------------- MODULE VaultKeys -----------------------------
(***************************************************************************)
(* The pure part of `keynv init` (apps/cli/src/init): where a project      *)
(* starts, which .env files are found below it and in what order, what an  *)
(* entry is taken for, and under which vault key it is stored when several *)
(* directories of a monorepo define the same name.                         *)
(*                                                                         *)
(* A path is the sequence of its segments.  A file is the directory it     *)
(* lies in and the suffix after ".env." ("" for a plain .env).  A source   *)
(* entry is a record [file, env, name, value].  A resolved entry has its   *)
(* vault key as well, the file in which its name was first seen, and the   *)
(* first file of its directory for its environment: the entries of a plan  *)
(* are a set, and these files give their order.                            *)
(***************************************************************************)
EXTENDS Integers, Sequences, SequencesExt, FiniteSets, FiniteSetsExt

CONSTANTS
  Tree,            \* the .env* files on the disk
  Markers,         \* directories that hold a package.json, .git, ...
  Home,            \* the user's home directory
  IgnoreDirs,      \* directory names that are not entered
  HiddenDirs,      \* directory names that start with a dot
  NotEnv,          \* suffixes of examples and of init's own backups
  MaxDepth, MaxResults,
  Paths, Words,    \* directories, and suffixes and names, in the order of localeCompare
  FrameworkManaged, PlainNames, SecretNames,   \* the name tables of heuristics
  Shape,           \* what the value tests of heuristics see of a value
  Joined,          \* a relative directory |-> its segments in lower case, joined by "-"
  Coerced          \* <<slug, name>> that is no alias key |-> what toAliasKey makes of it

(* localeCompare orders all that is on the disk. *)
OrderAssumption ==
  /\ IsFiniteSet(Tree)
  /\ Paths \in Seq(ToSet(Paths)) /\ Words \in Seq(ToSet(Words))
  /\ \A f \in Tree : /\ f = [dir |-> f.dir, suffix |-> f.suffix]
                    /\ f.dir \in ToSet(Paths)
                    /\ f.suffix \in ToSet(Words) \cup {""}
ASSUME OrderAssumption

Rank(order, x) == CHOOSE i \in DOMAIN order : order[i] = x

(* The nearest directory at or above start with a marker, never the home   *)
(* directory or one above it; start itself when there is none.             *)
FindProjectRoot(start) ==
  LET up == {n \in 0 .. Len(start) :
               LET dir == SubSeq(start, 1, n)
               IN dir \in Markers /\ ~IsPrefix(dir, Home)}
  IN IF up = {} THEN start ELSE SubSeq(start, 1, Max(up))

(* A path below the root, as the slugs and the depth see it. *)
RelativeDir(root, dir) == SubSeq(dir, Len(root) + 1, Len(dir))

(* A file is reached when it is not too deep and no directory on the way   *)
(* to it is ignored or hidden.                                             *)
Reached(root, file) ==
  /\ IsPrefix(root, file.dir)
  /\ LET rel == RelativeDir(root, file.dir)
     IN /\ Len(rel) < MaxDepth
        /\ \A i \in DOMAIN rel : rel[i] \notin IgnoreDirs \cup HiddenDirs
  /\ file.suffix \notin NotEnv

(* Files of the root come first, then by directory; within a directory the *)
(* plain .env comes before the suffixed ones.                              *)
DirRank(root, dir) == IF dir = root THEN 0 ELSE Rank(Paths, dir)
SuffixRank(suffix) == IF suffix = "" THEN 0 ELSE Rank(Words, suffix)

Earlier(root, a, b) ==
  \/ DirRank(root, a.dir) < DirRank(root, b.dir)
  \/ DirRank(root, a.dir) = DirRank(root, b.dir) /\ SuffixRank(a.suffix) < SuffixRank(b.suffix)

FirstFiles(root, files) == {f \in files : \A g \in files : ~Earlier(root, g, f)}

(* The walk goes level by level and stops when it has enough; which files  *)
(* of one level it meets first is up to the file system.                   *)
FindEnvFiles(root, present) ==
  LET found == {f \in Tree \cap present : Reached(root, f)}
  IN {hits \in SUBSET found :
        /\ Cardinality(hits) = Min({MaxResults, Cardinality(found)})
        /\ \A f \in hits, g \in found \ hits : Len(f.dir) <= Len(g.dir)}

SuggestedEnv(suffix) ==
  CASE suffix \in {"", "local", "development", "dev"} -> "dev"
    [] suffix \in {"production", "prod"}              -> "prod"
    [] suffix \in {"staging", "stage"}                -> "staging"
    [] OTHER                                          -> suffix

(* The first test that speaks decides: names the shell or the framework    *)
(* manages, names that are never secret, empty values, the value's shape,  *)
(* the name's ending, the value's entropy.                                 *)
ClassifyEntry(name, value) ==
  CASE name \in FrameworkManaged -> "skip"
    [] name \in PlainNames       -> "literal"
    [] Shape[value] = "empty"    -> "literal"
    [] Shape[value] = "token"    -> "secret"
    [] name \in SecretNames      -> "secret"
    [] Shape[value] = "random"   -> "secret"
    [] OTHER                     -> "ambiguous"

IsAlias(value) == Shape[value] = "alias"

-----------------------------------------------------------------------------
(* planVaultKeys: three passes over the entries of all files. *)

SameDir(a, b)   == a.env = b.env /\ a.file.dir = b.file.dir
SameSlot(a, b)  == SameDir(a, b) /\ a.name = b.name
SameGroup(a, b) == a.env = b.env /\ a.name = b.name

(* The first file of a directory that maps to an environment. *)
Opened(root, e, sources) ==
  CHOOSE f \in FirstFiles(root, {x.file : x \in {x \in sources : SameDir(x, e)}}) : TRUE

(* Within a directory the last file that maps to an environment wins, in   *)
(* the place where the name was first seen.                                *)
LastWins(root, sources) ==
  {[file |-> p[2].file, first |-> p[1].file, opened |-> Opened(root, p[1], sources),
    env |-> p[2].env, name |-> p[2].name, value |-> p[2].value] :
     p \in {q \in sources \X sources :
             /\ SameSlot(q[1], q[2])
             /\ \A e \in sources : SameSlot(e, q[1]) =>
                  ~Earlier(root, e.file, q[1].file) /\ ~Earlier(root, q[2].file, e.file)}}

(* A directory's names for one environment come together, in the order in  *)
(* which they were first seen: by file, then within it.                    *)
SeenBefore(root, a, b) ==
  \/ Earlier(root, a.opened, b.opened)
  \/ a.opened = b.opened /\ Earlier(root, a.first, b.first)
  \/ a.first = b.first /\ Rank(Words, a.name) < Rank(Words, b.name)

(* The entries of one name and environment come together, in the place of  *)
(* the first of them.                                                      *)
Group(e, entries) == {x \in entries : SameGroup(x, e)}

PlanBefore(root, entries, a, b) ==
  IF SameGroup(a, b) THEN SeenBefore(root, a, b)
  ELSE \E x \in Group(a, entries) : \A y \in Group(b, entries) : SeenBefore(root, x, y)

(* The first of some entries of a plan. *)
Firsts(root, entries, some) ==
  {r \in some : \A s \in some : ~PlanBefore(root, entries, s, r)}

InitialSlug(rel) == IF rel = <<>> THEN "root" ELSE Joined[<<Last(rel)>>]
FullSlug(rel)    == IF rel = <<>> THEN "root" ELSE Joined[rel]

NoSlug == ""
ToAliasKey(slug, name) ==
  IF <<slug, name>> \in DOMAIN Coerced THEN Coerced[<<slug, name>>] ELSE <<slug, name>>

(* One key when every directory that has the name agrees on its value,     *)
(* otherwise a key for each directory: its last segment, or its whole path *)
(* when two of the last segments are the same.                             *)
KeyOf(root, e, entries) ==
  LET group == Group(e, entries)
      rel(x) == RelativeDir(root, x.file.dir)
      agree == \A x \in group : x.value = e.value
      apart == \A x, y \in group : x # y => InitialSlug(rel(x)) # InitialSlug(rel(y))
  IN ToAliasKey(IF agree THEN NoSlug
                ELSE IF apart THEN InitialSlug(rel(e)) ELSE FullSlug(rel(e)),
                e.name)

Unnumbered(root, e, entries) == 1

(* Entries that end on one key: those that have the name of the first are  *)
(* left where they are, as a merge; the others get the numbers from 2 on.  *)
Number(root, e, entries) ==
  LET clash  == {x \in entries : x.env = e.env /\ KeyOf(root, x, entries) = KeyOf(root, e, entries)}
      others == {x \in clash : \A h \in Firsts(root, entries, clash) : x.name # h.name}
  IN IF e \notin others THEN 1
     ELSE 1 + Cardinality({x \in others : x = e \/ PlanBefore(root, entries, x, e)})

PlanVaultKeys(root, sources) ==
  LET kept == LastWins(root, sources)
  IN {[file |-> e.file, first |-> e.first, opened |-> e.opened,
        env |-> e.env, name |-> e.name, value |-> e.value,
       key |-> [text |-> KeyOf(root, e, kept), n |-> Number(root, e, kept)]] : e \in kept}
=============================================================================
