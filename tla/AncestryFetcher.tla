-------------------------- MODULE AncestryFetcher --------------------------
(***************************************************************************)
(* What a sink makes of the revisions and certs it has received            *)
(* (get_heads_and_consume_certs and ancestry_fetcher, netsync.cc): which   *)
(* revisions are heads, which certs are wanted, which versions of the      *)
(* files and manifests they name have to be asked for, and whether as full *)
(* data, as a forward delta or as a reverse delta.                         *)
(*                                                                         *)
(* Files and manifests are gone through by two copies of one algorithm     *)
(* that differ in how forward deltas start; a behaviour follows one of     *)
(* them, for one path of the tree or for the manifests.  Revisions and     *)
(* versions are ordered by their hashes, so every order of iteration over  *)
(* a set or a map is possible.                                             *)
(***************************************************************************)
EXTENDS Naturals, Sequences, FiniteSets, SequencesExt

CONSTANTS Revs, Versions,
          NullRev, NullVer,   \* the null ids: the parent of a root
          Configs

ASSUME NullsApart == NullRev \notin Revs /\ NullVer \notin Versions
ASSUME RevsFinite == IsFiniteSet(Revs)

(* Every revision has an edge, and the database has a revision only with   *)
(* what it descends from and what it names.                                *)
ASSUME ConfigsTyped ==
  \A c \in Configs :
    /\ c.kind \in {"file", "manifest"}
    /\ c.parents \in [Revs -> SUBSET (Revs \cup {NullRev})]
    /\ c.ver \in [Revs -> Versions]
    /\ c.known \subseteq Revs /\ c.wanted \subseteq Revs /\ c.stored \subseteq Versions
    /\ \A r \in Revs : c.parents[r] # {}
    /\ \A r \in c.known : c.parents[r] \subseteq c.known \cup {NullRev} /\ c.ver[r] \in c.stored

(* A revision's hash covers those of its parents: no revision is its own   *)
(* ancestor.                                                               *)
ASSUME ConfigsAcyclic ==
  \A c \in Configs : \A S \in (SUBSET Revs) \ {{}} : \E m \in S : c.parents[m] \cap S = {}

VARIABLES
  conf,        \* [kind, parents, ver, known, stored, wanted]: see Init
  phase,       \* "heads", "ancestry", "requests" or "done"
  heads,
  certs,       \* the revisions whose certs are in received_certs
  chld_num,
  tmp,         \* the heads to drop
  frontier, seen_revs,
  passed,      \* the parents of the revision at its front gone through so far
  consumed,    \* history: revisions given to dbw, in order
  deltas,      \* [fwd, rev, seen]: the maps of file or manifest deltas
  todo,        \* forward deltas not yet gone through by request_files
  stack,       \* the frontier of request_rev_file_deltas
  done_items,
  requests     \* <<base, version>> asked for; base NullVer for full data

vars == <<conf, phase, heads, certs, chld_num, tmp, frontier, seen_revs, passed,
          consumed, deltas, todo, stack, done_items, requests>>

-----------------------------------------------------------------------------
(* conf.parents: the old revisions of the edges; conf.ver: the version of  *)
(* the file or of the manifest in each revision; conf.known: the revisions *)
(* in the database; conf.stored: versions there; conf.wanted: revisions    *)
(* with a cert for a branch that our_matcher accepts.                      *)
Ancestry == Revs \ conf.known
Parents(r) == conf.parents[r]
Requested == {q[2] : q \in requests}

Orders(S) == SetToSeqs(S)

Init ==
  /\ conf \in Configs
  /\ phase = "heads"
  /\ certs = Revs \ conf.known
  /\ LET nodes == Revs \ conf.known
         old == UNION {conf.parents[r] : r \in nodes}
     IN  /\ chld_num = [r \in Revs \cup {NullRev} |->
                          Cardinality({c \in nodes : r \in conf.parents[c]})]
         /\ heads = (nodes \ old) \cap conf.wanted
         /\ tmp \in Orders((nodes \ old) \ conf.wanted)
  /\ frontier = <<>> /\ seen_revs = {} /\ passed = {} /\ consumed = <<>>
  /\ deltas = [fwd |-> {}, rev |-> {}, seen |-> {}]
  /\ todo = {} /\ stack = <<>> /\ done_items = {} /\ requests = {}

-----------------------------------------------------------------------------
(* Step 3 of get_heads_and_consume_certs.                                  *)

(* Variant: the certs of any branch count.                                 *)
HasBranchCert_Any(r) == r \in certs

HasBranchCert(r) == r \in certs \cap conf.wanted

DropHead ==
  /\ phase = "heads" /\ tmp # <<>>
  /\ LET r == Head(tmp)
         exposed == {p \in Parents(r) : chld_num[p] = 1}
     IN  \/ /\ r \notin Ancestry
            /\ tmp' = Tail(tmp)
            /\ UNCHANGED <<heads, certs, chld_num>>
         \/ /\ r \in Ancestry
            /\ chld_num' = [p \in DOMAIN chld_num |->
                              IF p \in Parents(r) THEN chld_num[p] - 1 ELSE chld_num[p]]
            /\ heads' = heads \cup IF HasBranchCert(r) /\ exposed # {} THEN {r} ELSE {}
            /\ \E q \in Orders(IF HasBranchCert(r) THEN {} ELSE exposed) :
                 tmp' = Tail(tmp) \o q
            /\ certs' = certs \ {r}
  /\ UNCHANGED <<conf, phase, passed, frontier, seen_revs, consumed, deltas, todo, stack,
                 done_items, requests>>

(* The certs that are left go to dbw, and traverse_ancestry starts.        *)
StartAncestry ==
  /\ phase = "heads" /\ tmp = <<>>
  /\ phase' = "ancestry"
  /\ \E q \in Orders(heads) : frontier' = q
  /\ seen_revs' = heads
  /\ deltas' = [deltas EXCEPT
       !.fwd = IF conf.kind = "manifest"
               THEN {<<conf.ver[h], conf.ver[h]>> : h \in heads} ELSE {}]
  /\ UNCHANGED <<conf, passed, heads, certs, chld_num, tmp, consumed, todo, stack,
                 done_items, requests>>

-----------------------------------------------------------------------------
(* traverse_files and traverse_manifest, for the edge from version src to  *)
(* version dst.                                                            *)

(* Forward deltas from dst become forward deltas from src.                 *)
Moved(fwd, src, dst) ==
  {d \in fwd : d[1] # dst} \cup {<<src, d[2]>> : d \in {e \in fwd : e[1] = dst}}

Reversed(rev, src, dst) == IF src = NullVer THEN rev ELSE rev \cup {<<dst, src>>}

(* Variant: the delta that starts at a moved one is lost.                  *)
TraverseFile_Dropped(g, src, dst) ==
  LET new == g.fwd \cup IF dst \in g.seen THEN {} ELSE {<<src, dst>>}
  IN  [fwd |-> IF src = NullVer THEN new ELSE {d \in new : d[1] # dst},
       rev |-> Reversed(g.rev, src, dst),
       seen |-> g.seen \cup {src, dst}]

TraverseFile(g, src, dst) ==
  LET new == g.fwd \cup IF dst \in g.seen THEN {} ELSE {<<src, dst>>}
  IN  [fwd |-> IF src = NullVer THEN new ELSE Moved(new, src, dst),
       rev |-> Reversed(g.rev, src, dst),
       seen |-> g.seen \cup {src, dst}]

TraverseManifest(g, src, dst) ==
  [fwd |-> IF src \in {NullVer, dst} THEN g.fwd ELSE Moved(g.fwd, src, dst),
   rev |-> Reversed(g.rev, src, dst),
   seen |-> g.seen]

(* A change set has no delta for a file that it leaves as it is.           *)
TraverseEdge(g, p, r) ==
  LET src == IF p = NullRev THEN NullVer ELSE conf.ver[p]
      dst == conf.ver[r]
  IN  IF conf.kind = "manifest" THEN TraverseManifest(g, src, dst)
      ELSE IF src = dst THEN g ELSE TraverseFile(g, src, dst)

(* One edge of the revision at the front of traverse_ancestry.             *)
FollowEdge ==
  /\ phase = "ancestry" /\ frontier # <<>>
  /\ LET r == Head(frontier)
     IN  \E p \in Parents(r) \ passed :
           /\ passed' = passed \cup {p}
           /\ seen_revs' = seen_revs \cup {p}
           /\ frontier' = IF p \in Ancestry \ seen_revs THEN Append(frontier, p) ELSE frontier
           /\ deltas' = TraverseEdge(deltas, p, r)
  /\ UNCHANGED <<conf, phase, heads, certs, chld_num, tmp, consumed, todo, stack,
                 done_items, requests>>

PassRevision ==
  /\ phase = "ancestry" /\ frontier # <<>> /\ Parents(Head(frontier)) \subseteq passed
  /\ consumed' = Append(consumed, Head(frontier))
  /\ frontier' = Tail(frontier) /\ passed' = {}
  /\ UNCHANGED <<conf, phase, heads, certs, chld_num, tmp, seen_revs, deltas, todo,
                 stack, done_items, requests>>

StartRequests ==
  /\ phase = "ancestry" /\ frontier = <<>>
  /\ phase' = "requests"
  /\ todo' = deltas.fwd
  /\ UNCHANGED <<conf, passed, heads, certs, chld_num, tmp, frontier, seen_revs, consumed,
                 deltas, stack, done_items, requests>>

-----------------------------------------------------------------------------
(* request_files and request_manifests.                                    *)

(* queue_send_data_cmd and queue_send_delta_cmd.                           *)
WithRequest(base, v) ==
  requests \cup IF v \in Requested THEN {} ELSE {<<base, v>>}

(* Variant: the delta is asked for whether or not its base is there.       *)
ForwardRequest_AnyBase(d) ==
  IF d[2] \in conf.stored THEN requests ELSE WithRequest(d[1], d[2])

ForwardRequest(d) ==
  IF d[2] \in conf.stored THEN requests
  ELSE WithRequest(IF d[1] \in conf.stored THEN d[1] ELSE NullVer, d[2])

RequestForward ==
  /\ phase = "requests" /\ stack = <<>>
  /\ \E d \in todo :
       /\ requests' = ForwardRequest(d)
       /\ stack' = <<d[2]>>
       /\ todo' = todo \ {d}
  /\ UNCHANGED <<conf, phase, passed, heads, certs, chld_num, tmp, frontier, seen_revs,
                 consumed, deltas, done_items>>

(* Variant: parents gone through before are gone through again.            *)
NewParents_All(child) == {d[2] : d \in {e \in deltas.rev : e[1] = child}}

NewParents(child) ==
  {d[2] : d \in {e \in deltas.rev : e[1] = child}} \ done_items

(* One turn of request_rev_file_deltas.                                    *)
RequestReverse ==
  /\ phase = "requests" /\ stack # <<>>
  /\ LET child == Last(stack)
         missing == (NewParents(child) \ conf.stored) \ Requested
     IN  /\ requests' = requests \cup {<<child, v>> : v \in missing}
         /\ \E q \in Orders(NewParents(child)) : stack' = Front(stack) \o q
         /\ done_items' = done_items \cup NewParents(child)
  /\ UNCHANGED <<conf, phase, passed, heads, certs, chld_num, tmp, frontier, seen_revs,
                 consumed, deltas, todo>>

Finish ==
  /\ phase = "requests" /\ stack = <<>> /\ todo = {}
  /\ phase' = "done"
  /\ UNCHANGED <<conf, passed, heads, certs, chld_num, tmp, frontier, seen_revs, consumed,
                 deltas, todo, stack, done_items, requests>>

Step ==
  \/ DropHead \/ StartAncestry \/ FollowEdge \/ PassRevision \/ StartRequests
  \/ RequestForward \/ RequestReverse \/ Finish

Next == Step \/ (phase = "done" /\ UNCHANGED vars)

Spec == Init /\ [][Next]_vars /\ WF_vars(Step)

-----------------------------------------------------------------------------
(* Properties.                                                             *)

(* S and all that it descends from.                                        *)
Ancestors(S) ==
  {a \in Revs :
     \A C \in SUBSET Revs :
       S \subseteq C /\ (\A c \in C : Parents(c) \subseteq C \cup {NullRev}) => a \in C}

WantedAbove(r) == {d \in (Ancestry \cap conf.wanted) \ {r} : r \in Ancestors({d})}
Needed == Ancestors(heads) \cap Ancestry

Kids(p) == {k \in Ancestry : p \in Parents(k)}
WantedTips == {r \in Ancestry \cap conf.wanted : Kids(r) = {}}

(* "remove heads w/o a branch tag, process new exposed heads", whatever    *)
(* the history and the order of hashes: a head has a wanted branch cert;   *)
(* the wanted revisions without children are heads, nothing that they      *)
(* descend from is one, and none of it loses its certs, however many       *)
(* unwanted children are dropped from it; unwanted revisions that nothing  *)
(* wanted descends from lose theirs.  Where each wanted revision has a     *)
(* wanted tip above it, or is one, that leaves nothing open.  In the other *)
(* histories step 3 exposes wanted revisions, and there the code does not  *)
(* keep what it says: see WantedCertsKept.                                 *)
HeadsRight ==
  phase # "heads" =>
    /\ heads \subseteq Ancestry \cap conf.wanted
    /\ heads \cap Ancestors(WantedTips) = WantedTips
    /\ Ancestry \cap Ancestors(WantedTips) \subseteq certs
    /\ {r \in Ancestry \ conf.wanted : WantedAbove(r) = {}} \cap certs = {}

(* "since we don't want this rev, we don't want it's certs either"         *)
(* (netsync.cc:1042): no other revision loses its certs.                   *)
WantedCertsKept == Ancestry \cap conf.wanted \subseteq certs

(* Whatever the shape of the history - merges, several heads and roots,    *)
(* versions that come back - exactly the versions that are named and not   *)
(* there have been asked for, each once.                                   *)
EveryVersionAsked ==
  phase = "done" =>
    /\ Requested = {conf.ver[r] : r \in Needed} \ conf.stored
    /\ Cardinality(requests) = Cardinality(Requested)

(* What is asked for can be put together when it has all arrived: every    *)
(* delta leads back to full data or to a version that is stored.           *)
Constructible ==
  \A C \in SUBSET Versions :
    /\ conf.stored \subseteq C
    /\ \A q \in requests : q[1] \in C \cup {NullVer} => q[2] \in C
    => Requested \subseteq C

(* The walks end, also around a version that is its own ancestor.          *)
Ends == <>(phase = "done")
=============================================================================
