------------------------------ MODULE CopyPlan ------------------------------
(***************************************************************************)
(* Where hcp puts what it copies, and how much it may copy: the operands   *)
(* of cp.rs (hush), resolve_remote_path, plan_for_destination,             *)
(* validate_upload_plan, CopyBudget, append_path_limited and               *)
(* unpack_archive_limited (hush-core/src/filecopy.rs).                     *)
(*                                                                         *)
(* A path is the sequence of its names, its start ("/", "~" or "") and     *)
(* whether it ends in a slash.  A tree is a function from sequences of     *)
(* names, taken from the root, to nodes; Base is the working directory of  *)
(* hcp and the home directory at a server.  How an archive gets across, and*)
(* what becomes of it when a part of the chain fails, is in FileCopy.      *)
(***************************************************************************)
EXTENDS Integers, Sequences, SequencesExt, FiniteSetsExt

CONSTANTS Base, NoName

VARIABLES
    copy,       \* operands, limits and the trees before the copy
    phase,      \* "operands", "plan", "request", "archive", "unpack", "done", "failed"
    plan,       \* FileCopyPlan: extract_dir and entries [path, name]
    src, dst,   \* the trees of the two machines
    todo,       \* pending of append_path_limited: [from, name]
    archive,    \* the archive's entries that were not unpacked yet: [path, node]
    late,       \* directories of unpack_archive_limited
    budget,     \* CopyBudget of the side at work
    gone        \* history: a source vanished while it was archived

copyVars == <<copy, phase, plan, src, dst, todo, archive, late, budget, gone>>

NewBudget == [bytes |-> 0, entries |-> 0]
NoPlan == [dir |-> <<>>, entries |-> <<>>]

\* The operands and the trees there are: a tree holds the directories above its
\* nodes, and the home directory is there.
IsTree(tree, names) ==
    /\ IsFiniteSet(DOMAIN tree)
    /\ \A n \in DOMAIN tree : n \in Seq(names) /\ \A k \in 1..Len(n) : SubSeq(n, 1, k) \in DOMAIN tree
IsCopy(c, names) ==
    /\ c.sources \in Seq({c.sources[i] : i \in DOMAIN c.sources}) /\ c.sources # <<>>
    /\ \A i \in DOMAIN c.sources : c.sources[i].path.names \in Seq(names)
    /\ c.dest.path.names \in Seq(names)
    /\ IsTree(c.src, names) /\ IsTree(c.dst, names) /\ Base \in DOMAIN c.dst /\ c.dst[Base].kind = "dir"

CopyInit(copies) ==
    /\ copy \in copies /\ phase = "operands" /\ plan = NoPlan
    /\ src = copy.src /\ dst = copy.dst
    /\ todo = <<>> /\ archive = <<>> /\ late = {} /\ budget = NewBudget /\ gone = FALSE

-----------------------------------------------------------------------------
(* Paths.                                                                 *)

\* Path::file_name.
FileName(names) == IF names = <<>> \/ Last(names) = ".." THEN NoName ELSE Last(names)

\* resolve_remote_path, and the local paths' meaning.  The empty path and ~ are
\* the home directory with a slash.
Resolve(path) == IF path.start = "/" THEN path.names ELSE Base \o path.names
LooksLikeDir(path, remote) ==
    path.slash \/ (remote /\ path.names = <<>> /\ path.start # "/")

IsDir(tree, names) == names = <<>> \/ (names \in DOMAIN tree /\ tree[names].kind = "dir")

-----------------------------------------------------------------------------
(* cp.rs: run, upload, download and relay.                                *)

Kind ==
    LET remote == copy.sources[1].host # "local"
    IN CASE ~remote /\ copy.dest.host # "local" -> "upload"
         [] remote /\ copy.dest.host = "local" -> "download"
         [] remote /\ copy.dest.host # "local" -> "relay"
         [] OTHER -> "local"

ArchiverLimits == IF Kind = "upload" THEN copy.cliLimits ELSE copy.srvLimits
ExtractorLimits == IF Kind = "download" THEN copy.cliLimits ELSE copy.srvLimits

\* split_sources_destination, sources_are_remote, remote_source_entries and
\* entry_for_path.
SourcesAgree == \A i \in DOMAIN copy.sources : copy.sources[i].host = copy.sources[1].host
SourcesNamed == \A i \in DOMAIN copy.sources : FileName(copy.sources[i].path.names) # NoName
PlanEntries ==
    [i \in DOMAIN copy.sources |->
        [path |-> copy.sources[i].path, name |-> FileName(copy.sources[i].path.names)]]

ReadOperands ==
    /\ phase = "operands"
    /\ phase' = IF SourcesAgree /\ Kind # "local" /\ SourcesNamed THEN "plan" ELSE "failed"
    /\ UNCHANGED <<copy, plan, src, dst, todo, archive, late, budget, gone>>

DestinationIsDir(path, remote) == LooksLikeDir(path, remote) \/ IsDir(dst, Resolve(path))

\* plan_for_destination; NoName as directory when there is no plan.
PlanForDestination(path, remote, entries) ==
    IF Len(entries) > 1 \/ DestinationIsDir(path, remote)
      THEN [dir |-> Resolve(path), entries |-> entries]
    ELSE IF FileName(path.names) = NoName
      THEN [dir |-> NoName, entries |-> entries]
      ELSE [dir |-> Front(Resolve(path)),
            entries |-> <<[path |-> entries[1].path, name |-> FileName(path.names)]>>]

\* validate_upload_plan, in hcp.
ValidateUploadPlan(p) ==
    /\ Len(p.entries) = Len(copy.sources)
    /\ \A i \in DOMAIN p.entries :
        p.entries[i].path = copy.sources[i].path /\ p.entries[i].name \notin {NoName, ".."}

\* handle_upload answers with a plan; a download is planned by hcp.
MakePlan ==
    /\ phase = "plan"
    /\ LET p == PlanForDestination(copy.dest.path, Kind # "download", PlanEntries)
           ok == /\ Kind # "download" => Len(PlanEntries) <= copy.srvLimits.entries
                 /\ p.dir # NoName
                 /\ Kind # "download" => ValidateUploadPlan(p)
       IN /\ plan' = p
          /\ phase' = IF ok THEN "request" ELSE "failed"
    /\ UNCHANGED <<copy, src, dst, todo, archive, late, budget, gone>>

Enabled(limits) == limits.bytes > 0 /\ limits.entries > 0

\* handle_download checks its sources; then either side archives, unless its
\* limits rule it out.
Request ==
    /\ phase = "request"
    /\ LET ok == /\ Kind # "upload" =>
                      /\ Len(plan.entries) <= copy.srvLimits.entries
                      /\ \A i \in DOMAIN plan.entries : Resolve(plan.entries[i].path) \in DOMAIN src
                 /\ Enabled(ArchiverLimits) /\ Enabled(ExtractorLimits)
       IN phase' = IF ok THEN "archive" ELSE "failed"
    /\ UNCHANGED <<copy, plan, src, dst, todo, archive, late, budget, gone>>

-----------------------------------------------------------------------------
(* append_path_limited.                                                   *)

\* CopyBudget::add.
Add(bytes) == [bytes |-> budget.bytes + bytes, entries |-> budget.entries + 1]
Within(b, limits) == b.entries <= limits.entries /\ b.bytes <= limits.bytes

Children(tree, from) == {n \in DOMAIN tree : n # <<>> /\ Front(n) = from}

\* The next entry of the plan.
NextSource ==
    /\ phase = "archive" /\ todo = <<>> /\ plan.entries # <<>>
    /\ LET e == Head(plan.entries)
       IN todo' = <<[from |-> Resolve(e.path), name |-> <<e.name>>]>>
    /\ plan' = [plan EXCEPT !.entries = Tail(@)]
    /\ UNCHANGED <<copy, phase, src, dst, archive, late, budget, gone>>

\* The source is there and within the budget.
CanAppend(from) == from \in DOMAIN src /\ Within(Add(src[from].size), ArchiverLimits)

\* One round of the loop; read_dir lists the children in any order.
AppendPath ==
    /\ phase = "archive" /\ todo # <<>>
    /\ LET it == Last(todo)
       IN \/ /\ CanAppend(it.from)
             /\ budget' = Add(src[it.from].size)
             /\ archive' = Append(archive, [path |-> it.name, node |-> src[it.from]])
             /\ \E order \in SetToSeqs(Children(src, it.from)) :
                  todo' = Front(todo) \o
                          [i \in DOMAIN order |->
                              [from |-> order[i], name |-> Append(it.name, Last(order[i]))]]
             /\ UNCHANGED phase
          \/ ~CanAppend(it.from) /\ phase' = "failed" /\ UNCHANGED <<budget, archive, todo>>
    /\ UNCHANGED <<copy, plan, src, dst, late, gone>>

\* Somebody removes a file that is still to be archived.
Vanish(n) ==
    /\ phase = "archive" /\ ~gone /\ gone' = TRUE
    /\ src[n].kind = "file" /\ \E i \in DOMAIN todo : todo[i].from = n
    /\ src' = [m \in DOMAIN src \ {n} |-> src[m]]
    /\ UNCHANGED <<copy, phase, plan, dst, todo, archive, late, budget>>

-----------------------------------------------------------------------------
(* unpack_archive_limited.                                                *)

OpenDir == [kind |-> "dir", size |-> 0, open |-> TRUE]

\* tokio_tar puts a node into a tree and makes the directories above it: what is
\* there of them must be directories, and the last of these writable.
CanPlace(names) ==
    LET there == {k \in 1..Len(names) - 1 : SubSeq(names, 1, k) \in DOMAIN dst}
    IN /\ \A k \in there : dst[SubSeq(names, 1, k)].kind = "dir"
       /\ there # {} => dst[SubSeq(names, 1, Max(there))].open
Place(names, node) ==
    dst' = [m \in DOMAIN dst \cup {SubSeq(names, 1, k) : k \in 1..Len(names)} |->
              IF m = names THEN node ELSE IF m \in DOMAIN dst THEN dst[m] ELSE OpenDir]

CanUnpack(names, node) ==
    IF node.kind = "dir"
      THEN IF names \in DOMAIN dst THEN IsDir(dst, names) ELSE CanPlace(names)
      ELSE node.kind # "outside" /\ ~IsDir(dst, names) /\ CanPlace(names)

\* The archive is complete.  The extraction starts with its directory.
OpenDestination ==
    /\ phase = "archive" /\ todo = <<>> /\ plan.entries = <<>>
    /\ budget' = NewBudget
    /\ LET there == plan.dir = <<>> \/ plan.dir \in DOMAIN dst
       IN \/ there /\ phase' = "unpack" /\ UNCHANGED dst
          \/ ~there /\ CanPlace(plan.dir) /\ phase' = "unpack" /\ Place(plan.dir, OpenDir)
          \/ ~there /\ ~CanPlace(plan.dir) /\ phase' = "failed" /\ UNCHANGED dst
    /\ UNCHANGED <<copy, plan, src, todo, archive, late, gone>>

Unpack(names, node) ==
    IF CanUnpack(names, node) THEN Place(names, node) /\ UNCHANGED phase
                              ELSE phase' = "failed" /\ UNCHANGED dst

\* Mutant: directories are unpacked where they stand in the archive.
UnpackOneAtOnce(e) == Unpack(plan.dir \o e.path, e.node) /\ UNCHANGED late

\* Directories wait for the end, as a mode may forbid writing into them.
UnpackOne(e) ==
    \/ e.node.kind = "dir" /\ late' = late \cup {e} /\ UNCHANGED <<dst, phase>>
    \/ e.node.kind # "dir" /\ Unpack(plan.dir \o e.path, e.node) /\ UNCHANGED late

UnpackNext ==
    /\ phase = "unpack" /\ archive # <<>>
    /\ LET e == Head(archive)
       IN \/ /\ Within(Add(e.node.size), ExtractorLimits)
             /\ budget' = Add(e.node.size) /\ UnpackOne(e)
          \/ /\ ~Within(Add(e.node.size), ExtractorLimits)
             /\ phase' = "failed" /\ UNCHANGED <<budget, late, dst>>
    /\ archive' = Tail(archive)
    /\ UNCHANGED <<copy, plan, src, todo, gone>>

\* Sorted downwards, a directory comes after all that are in it; beyond this the
\* order is left open.
UnpackDirectory(e) ==
    /\ phase = "unpack" /\ archive = <<>>
    /\ \A f \in late : ~IsStrictPrefix(e.path, f.path)
    /\ Unpack(plan.dir \o e.path, e.node)
    /\ late' = late \ {e}
    /\ UNCHANGED <<copy, plan, src, todo, archive, budget, gone>>

Unpacked ==
    /\ phase = "unpack" /\ archive = <<>> /\ late = {}
    /\ phase' = "done"
    /\ UNCHANGED <<copy, plan, src, dst, todo, archive, late, budget, gone>>

CopyNext ==
    \/ ReadOperands \/ MakePlan \/ Request \/ NextSource \/ AppendPath
    \/ OpenDestination \/ UnpackNext \/ Unpacked
    \/ \E n \in DOMAIN src : Vanish(n)
    \/ \E e \in late : UnpackDirectory(e)

CopySpec(copies) == CopyInit(copies) /\ [][CopyNext]_copyVars

-----------------------------------------------------------------------------
(* What hcp promises, of the operands and the trees before the copy.      *)

Source(i) == Resolve(copy.sources[i].path)
Whole(i) == {n \in DOMAIN copy.src : IsPrefix(Source(i), n)}

\* Into a directory under the source's name, otherwise in place of the destination.
Target(i) ==
    LET d == copy.dest
        into == \/ Len(copy.sources) > 1 \/ d.path.slash \/ IsDir(copy.dst, Resolve(d.path))
    IN IF into THEN Append(Resolve(d.path), Last(copy.sources[i].path.names)) ELSE Resolve(d.path)
Lands(i, n) == Target(i) \o SubSeq(n, Len(Source(i)) + 1, Len(n))

CopyNodes == UNION {{<<i, n>> : n \in Whole(i)} : i \in DOMAIN copy.sources}
Fits(limits) ==
    /\ limits.bytes > 0 /\ Cardinality(CopyNodes) <= limits.entries
    /\ MapThenSumSet(LAMBDA p : copy.src[p[2]].size, CopyNodes) <= limits.bytes

\* Something at the destination is in the way of a node.
InTheWay(p) ==
    \E q \in DOMAIN copy.dst :
        \/ IsStrictPrefix(q, Lands(p[1], p[2])) /\ ~(IsDir(copy.dst, q) /\ copy.dst[q].open)
        \/ q = Lands(p[1], p[2]) /\ IsDir(copy.dst, q) # IsDir(copy.src, p[2])

\* Every node of every source is where it belongs, unless that of a later source is.
AllPlaced ==
    \A p \in CopyNodes :
        \/ dst[Lands(p[1], p[2])] = copy.src[p[2]]
        \/ \E o \in CopyNodes : o[1] > p[1] /\ Lands(o[1], o[2]) = Lands(p[1], p[2])

\* Nothing else has changed, but that there are directories above the targets.
NothingElse ==
    \A q \in DOMAIN dst :
        \/ q \in DOMAIN copy.dst /\ dst[q] = copy.dst[q]
        \/ \E p \in CopyNodes : q = Lands(p[1], p[2])
        \/ dst[q] = OpenDir /\ \E i \in DOMAIN copy.sources : IsStrictPrefix(q, Target(i))

\* A copy that is done has put every node of every source where it belongs, within
\* the limits of both sides; one that failed had a reason: directories that may not
\* be written to are not one, nor is the order in which a directory is read; and
\* neither has changed anything else.
CopyFaithful ==
    /\ NothingElse
    /\ phase = "done" => AllPlaced /\ Fits(ArchiverLimits) /\ Fits(ExtractorLimits)
    /\ phase = "failed" =>
        \/ ~SourcesAgree \/ Kind = "local" \/ ~SourcesNamed \/ gone
        \/ \E i \in DOMAIN copy.sources : Whole(i) = {}
        \/ copy.dest.path.names # <<>> /\ Last(copy.dest.path.names) = ".."
        \/ ~Fits(ArchiverLimits) \/ ~Fits(ExtractorLimits)
        \/ \E p \in CopyNodes : copy.src[p[2]].kind = "outside" \/ InTheWay(p)
=============================================================================
