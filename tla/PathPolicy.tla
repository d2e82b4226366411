------------------------------ MODULE PathPolicy ------------------------------
(***************************************************************************)
(* The deploy path policy, internal/gitdeploy/pathvalidate.go, the two     *)
(* calls of it with which gitdeploy.Run decides whether to touch a path,   *)
(* and the two with which nginxruntime decides whether to serve it.        *)
(*                                                                         *)
(* A cleaned absolute path is the sequence of its names.  A path as Central *)
(* wrote it is split at its last slash: the cleaned part before it, and a  *)
(* last element that cleaning keeps (a name), drops ("" or "."), or takes  *)
(* together with the name before it ("..").                                *)
(***************************************************************************)
EXTENDS Naturals, Sequences, TLAPS

CONSTANTS
    Names,      \* names of files and directories
    Dotted,     \* those that contain two dots in a row, such as "a..b"
    Public      \* the name "public"

Cleaned == Seq(Names)
Lasts == [kind : {"name", "dropped", "up"}, name : Names]   \* name: if kind says so
Paths == [absolute : BOOLEAN, before : Cleaned, last : Lasts]
Roots == [kind : {"blank", "relative", "proper"}, names : Cleaned]

Clean(p) == CASE p.last.kind = "name" -> Append(p.before, p.last.name)
              [] p.last.kind = "dropped" -> p.before
              [] p.last.kind = "up" -> SubSeq(p.before, 1, Len(p.before) - 1)

\* filepath.Dir: the part before the last slash, cleaned.
Dir(p) == p.before

\* The root itself, or below it.
Within(path, root) == /\ Len(root) <= Len(path)
                      /\ \A i \in 1..Len(root) : path[i] = root[i]

Plain(path) == path # <<>> /\ \A i \in 1..Len(path) : path[i] \notin Dotted

\* Blank roots are skipped; a relative root, or "/", ends the search.
Skipped(root) == root.kind = "blank"
Usable(root) == root.kind = "proper" /\ root.names # <<>>

(* ValidateDeployPath of a cleaned absolute path.                           *)
Allowed(path, roots) ==
    /\ Plain(path)
    /\ \E i \in 1..Len(roots) :
          /\ Usable(roots[i]) /\ Within(path, roots[i].names)
          /\ \A j \in 1..(i - 1) : Skipped(roots[j]) \/ Usable(roots[j])

\* gitdeploy.Run goes on to the tree if the path and its parent are allowed.
Deployable(p, roots) ==
    p.absolute /\ Allowed(Clean(p), roots) /\ Allowed(Dir(p), roots)

\* ResolveWebRoot refuses other types; "wp" is wordpress, none is static.
RuntimeTypes == {"laravel", "wordpress", "php", "static", "custom"}
WebRoot(path, type) == IF type = "laravel" THEN Append(path, Public) ELSE path

\* Both legs of nginxruntime.Run check the deploy path and the web root.
Servable(p, type, roots) ==
    /\ p.absolute /\ type \in RuntimeTypes
    /\ Allowed(Clean(p), roots) /\ Allowed(WebRoot(Clean(p), type), roots)

-----------------------------------------------------------------------------
(* A path that git runs in, if it ends in a name, lies strictly below a root:*)
(* the second call excludes the root itself, which the first one accepts.   *)
(* With a trailing slash or a final "." the second call looks at the same   *)
(* directory as the first, so a root written that way is a deploy path      *)
(* (executor.go:70, 108-111).                                               *)
THEOREM DeployableIsBelowRoot ==
    ASSUME NEW p \in Paths, NEW roots \in Seq(Roots), Deployable(p, roots)
    PROVE  \E i \in 1..Len(roots) :
              /\ Usable(roots[i])
              /\ Within(Clean(p), roots[i].names)
              /\ p.last.kind = "name" => Len(roots[i].names) < Len(Clean(p))
<1>1. p.before \in Seq(Names) /\ p.last.name \in Names
  BY DEF Paths, Cleaned, Lasts
<1>2. CASE p.last.kind = "name"
  <2>1. PICK i \in 1..Len(roots) :
            Usable(roots[i]) /\ Within(p.before, roots[i].names)
    BY DEF Deployable, Allowed, Dir
  <2>2. roots[i] \in Roots
    OBVIOUS
  <2>3. roots[i].names \in Seq(Names)
    BY <2>2 DEF Roots, Cleaned
  <2>4. Clean(p) = Append(p.before, p.last.name)
    BY <1>2 DEF Clean
  <2> DEFINE root == roots[i].names
  <2>6. root \in Seq(Names)
    BY <2>3
  <2>7. Len(root) <= Len(p.before) /\ \A n \in 1..Len(root) : p.before[n] = root[n]
    BY <2>1 DEF Within
  <2>8. /\ Len(Append(p.before, p.last.name)) = Len(p.before) + 1
        /\ \A n \in 1..Len(p.before) : Append(p.before, p.last.name)[n] = p.before[n]
    BY <1>1
  <2>9. Len(root) \in Nat /\ Len(p.before) \in Nat
    BY <1>1, <2>6
  <2> HIDE DEF root
  <2>10. /\ Len(root) < Len(Clean(p))
         /\ \A n \in 1..Len(root) : Clean(p)[n] = root[n]
    BY <2>4, <2>7, <2>8, <2>9
  <2> QED
    BY <2>1, <2>4, <2>8, <2>9, <2>10 DEF Within, root
<1>3. CASE p.last.kind # "name"
  BY <1>3 DEF Deployable, Allowed
<1> QED
  BY <1>2, <1>3

(* If no root is ill-formed, the order of the roots does not matter, and a  *)
(* further root never forbids what was allowed (pathvalidate.go:31-46).     *)
THEOREM OrderOfRootsIsIrrelevant ==
    ASSUME NEW path \in Cleaned, NEW roots \in Seq(Roots), NEW others \in Seq(Roots),
           \A i \in 1..Len(roots) : Skipped(roots[i]) \/ Usable(roots[i]),
           \A i \in 1..Len(others) : Skipped(others[i]) \/ Usable(others[i]),
           \A i \in 1..Len(roots) : \E j \in 1..Len(others) : others[j] = roots[i],
           Allowed(path, roots)
    PROVE  Allowed(path, others)
<1>1. PICK i \in 1..Len(roots) :
          Usable(roots[i]) /\ Within(path, roots[i].names)
  BY DEF Allowed
<1>2. PICK j \in 1..Len(others) : others[j] = roots[i]
  OBVIOUS
<1>3. \A n \in 1..(j - 1) : n \in 1..Len(others)
  OBVIOUS
<1> QED
  BY <1>1, <1>2, <1>3 DEF Allowed

(* A root added at the end never forbids a path, whatever its form: only a  *)
(* root before the matching one can (pathvalidate.go:31-46).                *)
THEOREM AppendedRootIsHarmless ==
    ASSUME NEW path \in Cleaned, NEW roots \in Seq(Roots), NEW root \in Roots,
           Allowed(path, roots)
    PROVE  Allowed(path, Append(roots, root))
<1>1. PICK i \in 1..Len(roots) :
          /\ Usable(roots[i]) /\ Within(path, roots[i].names)
          /\ \A j \in 1..(i - 1) : Skipped(roots[j]) \/ Usable(roots[j])
  BY DEF Allowed
<1>2. /\ i \in 1..Len(Append(roots, root))
      /\ \A j \in 1..i : Append(roots, root)[j] = roots[j]
  OBVIOUS
<1> QED
  BY <1>1, <1>2 DEF Allowed

(* What gitdeploy deploys, the path policy of nginxruntime lets through too: *)
(* the web root of an allowed path is allowed (converge.go:71-82, webroot.go:*)
(* 9-33).  The converse fails for a root, which may be served and, if it is *)
(* written without a trailing slash, never deployed.                        *)
THEOREM DeployableIsServable ==
    ASSUME NEW p \in Paths, NEW roots \in Seq(Roots), NEW type \in RuntimeTypes,
           Public \in Names \ Dotted, Deployable(p, roots)
    PROVE  Servable(p, type, roots)
<1> DEFINE path == Clean(p)
           served == Append(path, Public)
<1>1. p.absolute /\ Allowed(path, roots)
  BY DEF Deployable
<1>2. path \in Seq(Names)
  BY DEF Paths, Cleaned, Lasts, Clean
<1> HIDE DEF path
<1>3. /\ served # <<>> /\ Len(served) = Len(path) + 1 /\ served[Len(path) + 1] = Public
      /\ \A i \in 1..Len(path) : served[i] = path[i]
  BY <1>2
<1>4. Plain(served)
  BY <1>1, <1>2, <1>3 DEF Allowed, Plain
<1>5. ASSUME NEW root \in Seq(Names), Within(path, root) PROVE Within(served, root)
  BY <1>2, <1>3, <1>5 DEF Within
<1>6. Allowed(served, roots)
  <2>1. PICK i \in 1..Len(roots) :
            /\ Usable(roots[i]) /\ Within(path, roots[i].names)
            /\ \A j \in 1..(i - 1) : Skipped(roots[j]) \/ Usable(roots[j])
    BY <1>1 DEF Allowed
  <2>2. roots[i].names \in Seq(Names)
    <3>1. roots[i] \in Roots
      OBVIOUS
    <3> QED
      BY <3>1 DEF Roots, Cleaned
  <2>3. Within(served, roots[i].names)
    BY <1>5, <2>1, <2>2
  <2> QED
    BY <1>4, <2>1, <2>3 DEF Allowed
<1> QED
  BY <1>1, <1>6 DEF Servable, WebRoot, path
=============================================================================
