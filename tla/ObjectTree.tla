------------------------------ MODULE ObjectTree ------------------------------
(***************************************************************************)
(* The tree of groups, datasets, hard links and attributes that            *)
(* Hdf5Writer keeps in memory, commits to the file when it is closed, and  *)
(* rebuilds from the file when it is opened again to append; and the tree  *)
(* that Hdf5Reader finds in the file.                                      *)
(*                                                                         *)
(* A path is a sequence of names.  Objects in the file have the place in   *)
(* which they were allocated as their address.  The data of a dataset is   *)
(* its version: the number of times it was extended.  The ledger `names`   *)
(* holds what the caller asked for.                                        *)
(***************************************************************************)
EXTENDS Integers, Sequences, FiniteSets, SequencesExt

CONSTANTS
    GroupNames, DataNames, LinkNames,    \* leaf names the caller uses
    Depth,                               \* bound of the nesting of groups
    Uses                                 \* what callers do, see Init

VARIABLES
    use,                 \* what the caller does
    pc, session, ops,
    ds, gr, links,       \* the writer's vectors
    file,                \* allocated object headers and the root the superblock names
    newRoot,             \* root header that is written but not yet named
    names,               \* ledger: path -> dataset or group
    attrs,               \* ledger: dataset -> attributes
    regrouped            \* a group was created where one had been deleted

vars == <<use, pc, session, ops, ds, gr, links, file, newRoot, names, attrs, regrouped>>

-----------------------------------------------------------------------------
\* Objects in the file.
Link(name, addr) == [name |-> name, addr |-> addr]
DsObject(d, count) ==
    [k |-> "ds", id |-> d.id, version |-> d.version, attrs |-> d.attrs, rc |-> count, links |-> <<>>]
GrObject(kids, count) ==
    [k |-> "gr", id |-> 0, version |-> 0, attrs |-> <<>>, rc |-> count, links |-> kids]
Blank == [k |-> "none", id |-> 0, version |-> 0, attrs |-> <<>>, rc |-> 0, links |-> <<>>]
Obj(addr) == file.obj[addr]

\* Places in the vectors that satisfy a test; `position` is the first.
Where(seq, Test(_)) == {i \in DOMAIN seq : Test(seq[i])}
First(set) == CHOOSE i \in set : \A j \in set : i <= j

LiveDs(path) == Where(ds, LAMBDA d : ~d.dead /\ d.path = path)
LiveGr(path) == Where(gr, LAMBDA g : ~g.dead /\ g.path = path)
\* hard_link_emitted, hard_link_full_path.
Emitted(l) ==
    /\ l.up = 0 \/ ~gr[l.up].dead
    /\ IF l.target.k = "ds" THEN ~ds[l.target.i].dead ELSE ~gr[l.target.i].dead
LinkPath(l) == IF l.up = 0 THEN <<l.name>> ELSE Append(gr[l.up].path, l.name)
LinkAt(path) == Where(links, LAMBDA l : Emitted(l) /\ LinkPath(l) = path)
\* object_link_count.
LinkCount(target) == 1 + Cardinality(Where(links, LAMBDA l : Emitted(l) /\ l.target = target))

-----------------------------------------------------------------------------
\* create_group and assign_dataset_to_group look for the parent among all
\* groups, the deleted ones included.
ParentGroup(path) ==
    IF path = <<>> THEN 0 ELSE First(Where(gr, LAMBDA g : g.path = path))
HasParent(path) == path = <<>> \/ Where(gr, LAMBDA g : g.path = path) # {}

NameFreeForGroup(path) == LiveGr(path) = {} /\ LinkAt(path) = {}
\* ensure_unique_dataset_name.
NameFreeForDataset(path) == LiveDs(path) = {} /\ LinkAt(path) = {}
NameFreeForLink(up, path) ==
    /\ LiveDs(path) = {} /\ LiveGr(path) = {}
    /\ \A i \in DOMAIN links : ~(links[i].up = up /\ links[i].name = path[Len(path)])

Extended(f, path, value) == [p \in DOMAIN f \cup {path} |-> IF p = path THEN value ELSE f[p]]
NewId == Len(ds) + Len(gr) + 1 + 100 * session

CreateGroup(parent, name) ==
    LET path == Append(parent, name) IN
    /\ "group" \in use.kinds /\ Len(path) <= Depth
    /\ parent = <<>> \/ LiveGr(parent) # {}
    /\ NameFreeForGroup(path) /\ HasParent(parent)
    /\ LET up == ParentGroup(parent)
           grown == Append(gr, [path |-> path, up |-> up, ds |-> <<>>, gr |-> <<>>, dead |-> FALSE, at |-> 0]) IN
       gr' = IF up = 0 THEN grown ELSE [grown EXCEPT ![up].gr = Append(@, Len(grown))]
    /\ regrouped' = (regrouped \/ \E g \in ToSet(gr) : g.path = path)
    /\ names' = Extended(names, path, [k |-> "gr", id |-> NewId])
    /\ UNCHANGED <<ds, links, attrs>>

\* The builder of dataset.rs: create_dataset and assign_dataset_to_group.
CreateDataset(parent, name, chunked) ==
    LET path == Append(parent, name) IN
    /\ "dataset" \in use.kinds
    /\ parent = <<>> \/ LiveGr(parent) # {}
    /\ NameFreeForDataset(path)
    /\ ds' = Append(ds, [path |-> path, id |-> NewId, version |-> 0, attrs |-> <<>>, chunked |-> chunked,
                         dead |-> FALSE, at |-> 0, old |-> FALSE, touched |-> FALSE])
    /\ gr' = IF parent = <<>> THEN gr
             ELSE [gr EXCEPT ![ParentGroup(parent)].ds = Append(@, Len(ds) + 1)]
    /\ names' = Extended(names, path, [k |-> "ds", id |-> NewId])
    /\ attrs' = Extended(attrs, NewId, <<>>)
    /\ UNCHANGED <<links, regrouped>>

CreateHardLink(parent, name, target) ==
    LET path == Append(parent, name)
        up == IF parent = <<>> THEN 0 ELSE First(LiveGr(parent)) IN
    /\ parent = <<>> \/ LiveGr(parent) # {}
    /\ \/ "link" \in use.kinds /\ LiveDs(target) # {}
       \/ "grouplink" \in use.kinds /\ LiveDs(target) = {} /\ LiveGr(target) # {}
    /\ NameFreeForLink(up, path)
    /\ LET t == IF LiveDs(target) # {} THEN [k |-> "ds", i |-> First(LiveDs(target))]
                ELSE [k |-> "gr", i |-> First(LiveGr(target))] IN
       links' = Append(links, [up |-> up, name |-> name, target |-> t])
    /\ names' = IF target \in DOMAIN names THEN Extended(names, path, names[target]) ELSE names
    /\ UNCHANGED <<ds, gr, attrs, regrouped>>

\* What the ledger keeps when the objects `ids` and all below `path` go.
Without(path, ids) ==
    [p \in {q \in DOMAIN names : ~IsPrefix(path, q) /\ names[q].id \notin ids} |-> names[p]]

DeleteDataset(path) ==
    /\ "delete" \in use.kinds /\ LiveDs(path) # {}
    /\ LET i == First(LiveDs(path)) IN
       /\ ds' = [ds EXCEPT ![i].dead = TRUE]
       /\ gr' = [g \in DOMAIN gr |-> [gr[g] EXCEPT !.ds = SelectSeq(@, LAMBDA k : k # i)]]
       /\ names' = Without(path, {ds[i].id})
    /\ UNCHANGED <<links, attrs, regrouped>>

\* delete_group_recursive.
Below(i) ==
    LET down[n \in 0..Depth] ==
          IF n = 0 THEN {i} ELSE down[n - 1] \cup UNION {ToSet(gr[g].gr) : g \in down[n - 1]} IN
    down[Depth]
DeleteGroup(path) ==
    /\ "delete" \in use.kinds /\ LiveGr(path) # {}
    /\ LET i == First(LiveGr(path))
           dead == UNION {ToSet(gr[g].ds) : g \in Below(i)} IN
       /\ gr' = [g \in DOMAIN gr |->
                    [gr[g] EXCEPT !.dead = @ \/ g \in Below(i),
                                  !.gr = IF g = gr[i].up THEN SelectSeq(@, LAMBDA k : k # i) ELSE @]]
       /\ ds' = [d \in DOMAIN ds |-> [ds[d] EXCEPT !.dead = @ \/ d \in dead]]
       /\ names' = Without(path, {ds[d].id : d \in dead}
                                 \cup {names[p].id : p \in {gr[g].path : g \in Below(i)} \cap DOMAIN names})
    /\ UNCHANGED <<links, attrs, regrouped>>

AddAttribute(path) ==
    /\ "attr" \in use.kinds /\ LiveDs(path) # {}
    /\ LET i == First(LiveDs(path)) IN
       /\ Len(ds[i].attrs) < 1
       /\ ds' = [ds EXCEPT ![i].attrs = Append(@, session)]
       /\ attrs' = Extended(attrs, ds[i].id, Append(attrs[ds[i].id], session))
    /\ UNCHANGED <<gr, links, names, regrouped>>

\* write_chunk and extend_dataset.
Extend(path) ==
    /\ "extend" \in use.kinds /\ LiveDs(path) # {}
    /\ LET i == First(LiveDs(path)) IN
       /\ ds[i].chunked /\ ds[i].version < session
       /\ ds' = [ds EXCEPT ![i].version = session, ![i].touched = TRUE]
    /\ UNCHANGED <<gr, links, names, attrs, regrouped>>

Parents == {<<>>} \cup {g.path : g \in ToSet(gr)}
Paths == {d.path : d \in ToSet(ds)} \cup {g.path : g \in ToSet(gr)}
Operate ==
    /\ pc = "open" /\ ops > 0 /\ ops' = ops - 1
    /\ \/ \E p \in Parents :
            \/ \E n \in GroupNames : CreateGroup(p, n)
            \/ \E n \in DataNames, c \in (IF "extend" \in use.kinds THEN {TRUE} ELSE {FALSE}) : CreateDataset(p, n, c)
            \/ \E n \in LinkNames, t \in Paths : CreateHardLink(p, n, t)
       \/ \E p \in Paths : DeleteDataset(p) \/ DeleteGroup(p) \/ AddAttribute(p) \/ Extend(p)
    /\ UNCHANGED <<pc, session, file, newRoot>>

-----------------------------------------------------------------------------
\* finalize.

\* Mutant of KeepsHeader: a dataset that was there keeps its header.
KeepsHeaderAlways(d) == d.old
\* A dataset whose header is written keeps it unless chunks were written.
KeepsHeader(d) == d.old /\ ~(d.chunked /\ d.touched)

Headers ==
    /\ pc = "open"
    /\ LET fresh == SelectSeq([i \in DOMAIN ds |-> i], LAMBDA i : ~KeepsHeader(ds[i]))
           addr(i) == Len(file.obj) + First(Where(fresh, LAMBDA k : k = i)) IN
       /\ file' = [file EXCEPT !.obj = @ \o [k \in DOMAIN fresh |->
                       DsObject(ds[fresh[k]], LinkCount([k |-> "ds", i |-> fresh[k]]))]]
       /\ ds' = [i \in DOMAIN ds |-> IF KeepsHeader(ds[i]) THEN ds[i] ELSE [ds[i] EXCEPT !.at = addr(i)]]
    /\ pc' = "groups"
    /\ UNCHANGED <<session, ops, gr, links, newRoot, names, attrs, regrouped>>

\* emit_hard_links.
HardLinks(up) ==
    LET mine == SelectSeq(links, LAMBDA l : l.up = up /\ Emitted(l)) IN
    [k \in DOMAIN mine |-> Link(<<mine[k].name>>,
        IF mine[k].target.k = "ds" THEN ds[mine[k].target.i].at ELSE gr[mine[k].target.i].at)]
Leaf(path) == <<path[Len(path)]>>
\* build_group_header.
GroupLinks(g) ==
    LET d == SelectSeq(gr[g].ds, LAMBDA i : ~ds[i].dead)
        c == SelectSeq(gr[g].gr, LAMBDA i : ~gr[i].dead) IN
    [k \in DOMAIN d |-> Link(Leaf(ds[d[k]].path), ds[d[k]].at)]
    \o [k \in DOMAIN c |-> Link(Leaf(gr[c[k]].path), gr[c[k]].at)] \o HardLinks(g)

Groups ==
    /\ pc = "groups" /\ \A g \in DOMAIN gr : gr[g].at # 0
    /\ file' = [file EXCEPT !.obj =
           [a \in DOMAIN @ |-> IF \E g \in DOMAIN gr : gr[g].at = a
                               THEN LET g == CHOOSE x \in DOMAIN gr : gr[x].at = a IN
                                    GrObject(GroupLinks(g), LinkCount([k |-> "gr", i |-> g]))
                               ELSE @[a]]]
    /\ pc' = "root"
    /\ UNCHANGED <<session, ops, ds, gr, links, newRoot, names, attrs, regrouped>>
\* The first pass assigns the addresses.
AllocateGroups ==
    /\ pc = "groups" /\ \E g \in DOMAIN gr : gr[g].at = 0
    /\ gr' = [g \in DOMAIN gr |-> [gr[g] EXCEPT !.at = Len(file.obj) + g]]
    /\ file' = [file EXCEPT !.obj = @ \o [g \in DOMAIN gr |-> Blank]]
    /\ UNCHANGED <<pc, session, ops, ds, links, newRoot, names, attrs, regrouped>>

\* build_root_group_header.
InSubgroups == UNION {ToSet(g.ds) : g \in {h \in ToSet(gr) : ~h.dead}}
RootLinks ==
    LET d == SelectSeq([i \in DOMAIN ds |-> i], LAMBDA i : ~ds[i].dead /\ i \notin InSubgroups)
        c == SelectSeq([i \in DOMAIN gr |-> i], LAMBDA i : ~gr[i].dead /\ gr[i].up = 0) IN
    [k \in DOMAIN d |-> Link(ds[d[k]].path, ds[d[k]].at)]
    \o [k \in DOMAIN c |-> Link(Leaf(gr[c[k]].path), gr[c[k]].at)] \o HardLinks(0)

Root ==
    /\ pc = "root"
    /\ file' = [file EXCEPT !.obj = Append(@, GrObject(RootLinks, 1))]
    /\ newRoot' = Len(file.obj) + 1 /\ pc' = "superblock"
    /\ UNCHANGED <<session, ops, ds, gr, links, names, attrs, regrouped>>
Superblock ==
    /\ pc = "superblock"
    /\ file' = [file EXCEPT !.root = newRoot] /\ pc' = "closed"
    /\ UNCHANGED <<session, ops, ds, gr, links, newRoot, names, attrs, regrouped>>

\* The process dies: the writer is gone, the file is what it was.
Crash ==
    /\ pc \in {"open", "groups", "root", "superblock"} /\ "crash" \in use.kinds
    /\ pc' = "dead"
    /\ UNCHANGED <<session, ops, ds, gr, links, file, newRoot, names, attrs, regrouped>>

-----------------------------------------------------------------------------
\* discover_datasets_recursive: entries in the order in which they are found.
\* A group that was entered before is not entered again.
RECURSIVE Discover(_, _, _, _)
Discover(todo, prefix, seen, found) ==
    IF todo = <<>> THEN [seen |-> seen, found |-> found]
    ELSE LET l == todo[1]
             path == prefix \o l.name
             here == Append(found, [path |-> path, addr |-> l.addr]) IN
         IF Obj(l.addr).k = "gr" /\ l.addr \notin seen
         THEN LET r == Discover(Obj(l.addr).links, path, seen \cup {l.addr}, here) IN
              Discover(Tail(todo), prefix, r.seen, r.found)
         ELSE Discover(Tail(todo), prefix, seen, here)
Found == IF file.root = 0 THEN <<>> ELSE Discover(Obj(file.root).links, <<>>, {file.root}, <<>>).found
Datasets == {e \in ToSet(Found) : Obj(e.addr).k = "ds"}
GroupPaths == {e.path : e \in {x \in ToSet(Found) : Obj(x.addr).k = "gr"}}

\* open_append_with_locking: the datasets with the names collect_links_recursive
\* gives them, and the groups that lie on the way to one.
Reopened == SelectSeq(Found, LAMBDA e : Obj(e.addr).k = "ds")
Ancestors(path) == [n \in 1..(Len(path) - 1) |-> SubSeq(path, 1, n)]
OnTheWay == FlattenSeq([k \in DOMAIN Reopened |-> Ancestors(Reopened[k].path)])
GroupOrder == SelectSeq([k \in DOMAIN OnTheWay |-> k],
                        LAMBDA k : \A j \in 1..(k - 1) : OnTheWay[j] # OnTheWay[k])
OpenAppend ==
    /\ pc \in {"closed", "dead"} /\ session < use.sessions /\ file.root # 0
    /\ session' = session + 1 /\ ops' = use.later /\ pc' = "open" /\ links' = <<>>
    /\ ds' = [k \in DOMAIN Reopened |->
                LET o == Obj(Reopened[k].addr) IN
                [path |-> Reopened[k].path, id |-> o.id, version |-> o.version, attrs |-> o.attrs,
                 chunked |-> "extend" \in use.kinds, dead |-> FALSE, at |-> Reopened[k].addr,
                 old |-> TRUE, touched |-> FALSE]]
    /\ LET paths == [k \in DOMAIN GroupOrder |-> OnTheWay[GroupOrder[k]]]
           child(k) == SelectSeq([j \in DOMAIN paths |-> j], LAMBDA j : Front(paths[j]) = paths[k])
           mine(k) == SelectSeq([j \in DOMAIN Reopened |-> j], LAMBDA j : Front(Reopened[j].path) = paths[k])
       IN
       gr' = [k \in DOMAIN paths |->
                [path |-> paths[k], ds |-> mine(k), gr |-> child(k), dead |-> FALSE, at |-> 0,
                 up |-> IF Len(paths[k]) = 1 THEN 0 ELSE CHOOSE j \in DOMAIN paths : paths[j] = Front(paths[k])]]
    \* The ledger of a session that died is that of the file it left.
    /\ names' = IF pc = "closed" THEN names
                ELSE [p \in {e.path : e \in Datasets} |->
                        [k |-> "ds", id |-> Obj((CHOOSE e \in Datasets : e.path = p).addr).id]]
    /\ UNCHANGED <<file, newRoot, attrs, regrouped>>

Init ==
    \* Kinds of operation, the bounds of their number in the first session and in
    \* later ones, and of the number of sessions.
    /\ use \in Uses
    /\ pc = "open" /\ session = 1 /\ ops = use.first
    /\ ds = <<>> /\ gr = <<>> /\ links = <<>>
    /\ file = [obj |-> <<>>, root |-> 0] /\ newRoot = 0
    /\ names = <<>> /\ attrs = <<>> /\ regrouped = FALSE

Next ==
    /\ \/ Operate \/ Headers \/ AllocateGroups \/ Groups \/ Root \/ Superblock
       \/ Crash \/ OpenAppend
       \/ pc \in {"closed", "dead"} /\ UNCHANGED vars
    /\ UNCHANGED use

Spec == Init /\ [][Next]_vars

-----------------------------------------------------------------------------
TypeOK ==
    /\ pc \in {"open", "groups", "root", "superblock", "closed", "dead"}
    /\ file.root \in 0..Len(file.obj)
    /\ \A i \in DOMAIN ds : ds[i].at \in 0..Len(file.obj) /\ (ds[i].old => ds[i].at # 0)
    /\ \A g \in DOMAIN gr : gr[g].up \in 0..Len(gr) /\ ToSet(gr[g].ds) \subseteq DOMAIN ds

Asked(kind) == {p \in DOMAIN names : names[p].k = kind}

\* After a close the reader finds the datasets that were asked for, each under
\* each of its names, and no other, also after a crash and a second session.
DatasetsFaithful ==
    pc = "closed" /\ ~regrouped =>
        {<<e.path, Obj(e.addr).id>> : e \in Datasets} = {<<p, names[p].id>> : p \in Asked("ds")}

\* And after the first session the groups, the empty ones too.
GroupsFaithful == pc = "closed" /\ session = 1 /\ ~regrouped => GroupPaths = Asked("gr")

\* Every link leads to an object, and the count in the header of an object
\* that has several is the number of links that lead to it.
Reachable == {file.root} \cup {e.addr : e \in ToSet(Found)}
LinksTo(a) ==
    {<<g, k>> \in Reachable \X (1..(Len(ds) + Len(gr) + Len(links))) :
        k \in DOMAIN Obj(g).links /\ Obj(g).links[k].addr = a}
CountsMatch ==
    pc = "closed" /\ session = 1 /\ ~regrouped =>
        \A a \in Reachable \ {file.root} :
            Obj(a).k # "none" /\ Obj(a).rc = Cardinality(LinksTo(a))

\* Link names are unique in a group.
Unique(seq) == \A i, j \in DOMAIN seq : seq[i].name = seq[j].name => i = j
NamesUnique == pc = "closed" => \A a \in Reachable : Unique(Obj(a).links)

\* A header that is kept is as good as a new one: after each close a dataset
\* shows the chunks of the last session that extended it, and the attributes it
\* was given in the session that created it (KeepsHeader; those that are added
\* in a later session are written only with new chunks).
HeadersCurrent ==
    pc = "closed" /\ "extend" \in use.kinds => \A d \in ToSet(ds) : \E e \in Datasets :
        /\ e.path = d.path /\ Obj(e.addr).version = d.version
        /\ LET there == ToSet(Obj(e.addr).attrs) IN
           {s \in ToSet(attrs[d.id]) : s = d.id \div 100} \subseteq there /\ there \subseteq ToSet(attrs[d.id])

\* Until the superblock names the new root, a reader sees the tree of the
\* last close, and a crash leaves that tree behind.
Committed == [f |-> Found, o |-> {<<e.path, Obj(e.addr)>> : e \in ToSet(Found)}]
CommitStep == pc # "superblock" => Committed' = Committed

=============================================================================
