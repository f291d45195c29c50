----------------------------- MODULE Traversals -----------------------------
(***************************************************************************)
(* What the store answers while crawls commit: an exploration, a path      *)
(* search or the tools of the MCP server, one at a time.                   *)
(***************************************************************************)
EXTENDS Topology, Sequences

CONSTANTS Parts,           \* which of the three are asked for
          PathRows,        \* the relationships crawls may store during a search
          Searches,        \* the searches a client may ask for
          MaxSnapshots,    \* bound on the tables a search may see
          DataSource, Ident, AssetType, RelationshipType, Payload, HashRank,
          NoRelation, NoSource, NilElement, Batches, MaxSent,     \* what is stored
          Calls, DefaultLimit, MaxLimit                           \* of the tools

VARIABLES traversal, step,                                            \* pc of search and tools
          table, began, search, snapshots, hops, levelNodes, nextNodes, seenNodes, previous,
          parent, levelRows, current, path, found, cut, pathNodes,    \* of the search
          sent, status, stored, call, asset, assetCounts, answer, shown     \* of the tools

ofPath == <<table, began, search, snapshots, hops, levelNodes, nextNodes, seenNodes, previous,
            parent, levelRows, current, path, found, cut, pathNodes>>
ofTools == <<sent, status, stored, call, asset, assetCounts, answer, shown>>
all == <<traversal, vars, step, ofPath, ofTools>>

Path == INSTANCE RelationshipPath WITH
    relationships <- table, start <- began, query <- search, pc <- step, frontier <- levelNodes,
    next <- nextNodes, seen <- seenNodes, rows <- levelRows, truncated <- cut, nodes <- pathNodes,
    Rows <- PathRows, Queries <- Searches

Tools == INSTANCE Tools WITH pc <- step, db <- stored

(* A client asks for what the tools' schemas admit, and crawls store rows. *)
ASSUME TraversalsAssumption ==
    /\ Queries \subseteq Query /\ Rows \subseteq Row
    /\ Searches \subseteq Path!Query /\ PathRows \subseteq Row
    /\ Tools!Parameters
    /\ RelationshipType \notin AssetType /\ NoRelation \notin Tools!Relation
-----------------------------------------------------------------------------
NoTopology ==
    /\ relationships = {} /\ start = {} /\ commits = 0 /\ query = CHOOSE q \in Queries : TRUE
    /\ pc = "root" /\ depth = 0 /\ frontier = {} /\ next = {} /\ seen = {} /\ edges = {}
    /\ rows = {} /\ truncated = FALSE /\ nodes = {}
NoPath ==
    /\ table = {} /\ began = {} /\ search = Any /\ snapshots = {} /\ hops = 0 /\ levelNodes = {}
    /\ nextNodes = {} /\ seenNodes = {} /\ previous = <<>> /\ parent = <<>> /\ levelRows = {}
    /\ current = (CHOOSE n \in Node : TRUE) /\ path = <<>> /\ found = FALSE /\ cut = FALSE /\ pathNodes = {}
NoTools ==
    /\ sent = <<>> /\ status = <<>> /\ stored = <<>>
    /\ call = Tools!NoCall /\ asset = {} /\ assetCounts = {} /\ answer = [ok |-> FALSE, rows |-> {}] /\ shown = {}

TraversalsInit ==
    /\ traversal \in Parts
    /\ \/ traversal = "path" /\ Path!Init /\ NoTopology /\ NoTools
       \/ traversal = "topology" /\ Init /\ NoPath /\ NoTools /\ step = "idle"
       \/ traversal = "tools" /\ Tools!Init /\ NoPath /\ NoTopology

OnlyPath == traversal = "path" /\ UNCHANGED <<traversal, vars, ofTools>>
OnlyTopology == traversal = "topology" /\ UNCHANGED <<traversal, step, ofPath, ofTools>>
OnlyTools == traversal = "tools" /\ UNCHANGED <<traversal, vars, ofPath>>

Traverse ==
    \/ OnlyPath /\ Path!Search
    \/ OnlyTopology /\ Explore
    \/ OnlyTools /\ Tools!Serve
Commit ==
    \/ OnlyPath /\ Path!CrawlCommits
    \/ OnlyTopology /\ CrawlCommits
    \/ OnlyTools /\ Tools!Crawl
Client == OnlyTools /\ Tools!Use

TraversalsNext == Traverse \/ Commit \/ Client

(* Every query of a traversal returns.                                     *)
TraversalsSpec == TraversalsInit /\ [][TraversalsNext]_all /\ WF_all(Traverse)
-----------------------------------------------------------------------------
(* A path that is returned is one, of the filters, direction and length    *)
(* asked for.                                                              *)
FoundIsPath == traversal = "path" => Path!FoundIsPath

(* It is no longer than any that existed when the search began, and "not   *)
(* found" is right about the table as it was then.                         *)
NoShorterAtStart == traversal = "path" => Path!NoShorterAtStart /\ Path!NotFoundIsRight

(* "one bounded shortest relationship path" (ports/repositories.go:221):   *)
(* the path is a shortest one of some state the table was in.              *)
ShortestInSomeSnapshot == traversal = "path" => Path!ShortestInSomeSnapshot

(* Metadata and payload of an asset that is shown are of one element.      *)
AnswersOfOneElement == traversal = "tools" => Tools!AnswersOfOneElement

(* What one answer shows the next calls find.                              *)
ShownStays == traversal = "tools" => Tools!ShownStays

Where == IF traversal = "topology" THEN pc ELSE step

(* Traversals and calls end, however fast the graph grows under them.      *)
TraversalsEnd == (Where # "idle") ~> (Where \in {"answered", "failed"})
=============================================================================
