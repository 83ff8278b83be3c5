--------------------------- MODULE BlockDownload ----------------------------
(***************************************************************************)
(* Which block is asked from which peer (net_processing.cpp): headers,     *)
(* compact blocks and blocks as they arrive, the requests of SendMessages, *)
(* the detection of peers that stall, and the clean-up when a peer goes.   *)
(*                                                                         *)
(* The message thread handles one message, or sends to one peer, at a time *)
(* and takes cs_main for it; FinalizeNode runs in the socket thread, some  *)
(* time after fDisconnect was set.  A handler is one step.                 *)
(*                                                                         *)
(* Blocks are numbers, 0 is the genesis block; all have the same work, so  *)
(* nChainWork is the height.  Clocks are not modelled: a timeout of a peer *)
(* that is not Responsive may expire at any time.  A peer sends blocks and *)
(* blocktxn messages asked or not, early or late, and more than once; a    *)
(* Responsive peer sends what it is asked for.                             *)
(***************************************************************************)
EXTENDS Integers, Sequences, FiniteSets, FiniteSetsExt, SequencesExt, Functions

CONSTANTS Peers,          \* NodeIds: a peer that comes back has a new one
          Has,            \* Has[p]: the blocks p has, with their ancestors
          Tips,           \* Tips[p]: the ones that were its tip while connected
          Responsive,     \* peers that stay and answer before any timeout
          Kinds,          \* Kinds[p]: how p may be connected, of the set Kind
          Blocks, Parent, Height,
          Bad,            \* blocks that ConnectBlock refuses
          LastDay,        \* blocks recent enough to end the initial download
          Recent,         \* blocks recent enough for CanDirectFetch
          MaxInTransit,   \* MAX_BLOCKS_IN_TRANSIT_PER_PEER
          Window,         \* BLOCK_DOWNLOAD_WINDOW
          None

\* fInbound and m_manual_connection, fWhitelisted, and what the services of the
\* peer make of fClient ("none") and m_limited_node ("limited").
Kind == [conn : {"inbound", "outbound", "manual"}, whitelisted : BOOLEAN,
         services : {"network", "limited", "none"}]

ASSUME DownloadAssumption ==
  /\ Has \in [Peers -> SUBSET Blocks] /\ \A p \in Peers : Tips[p] \subseteq Has[p] \ {0}
  /\ Kinds \in [Peers -> SUBSET Kind] /\ Responsive \subseteq Peers
  /\ 0 \in Blocks \ Bad /\ Blocks \subseteq Nat /\ IsFiniteSet(Blocks) /\ None \notin Blocks
  /\ Height \in [Blocks -> Nat] /\ Height[0] = 0
  /\ \A b \in Blocks \ {0} : /\ Parent[b] \in Blocks /\ Parent[b] < b
                             /\ Height[b] = Height[Parent[b]] + 1
  /\ \A p \in Peers : \A b \in Has[p] \ {0} : Parent[b] \in Has[p]
  /\ Recent \subseteq LastDay /\ {MaxInTransit, Window} \subseteq Nat \ {0}
  /\ \A p \in Responsive : Tips[p] \subseteq LastDay

VARIABLES dl,     \* node: mapNodeState; inFlight: mapBlocksInFlight;
                  \* nPeers: nPeersWithValidatedDownloads
          chain,  \* index: blocks whose header is known; data: BLOCK_HAVE_DATA;
                  \* failed: BLOCK_FAILED_MASK; tip: chainActive.Tip()
          used,   \* the kind of every NodeId given out so far
          sync,   \* the nodes with fSyncStarted; nSyncStarted is their number
          up      \* FALSE once an assertion has ended the process

vars == <<dl, chain, used, sync, up>>

\* CNodeState.  blocks is vBlocksInFlight; partial is the partialBlock of an entry:
\* "none"; "waiting" for the blocktxn it was asked for; "collided" when InitData
\* failed, after it had set the header; "filled" when FillBlock failed and had
\* set the header to null.
Fresh == [best |-> None, unknown |-> None, common |-> None, blocks |-> <<>>,
          n |-> 0, nValid |-> 0, stalling |-> FALSE, disconnect |-> FALSE]

Init == /\ dl = [node |-> <<>>, inFlight |-> <<>>, nPeers |-> 0]
        /\ chain = [index |-> {0}, data |-> {0}, failed |-> {}, tip |-> 0]
        /\ used = <<>> /\ sync = {} /\ up = TRUE

Live == DOMAIN dl.node
Listens(p) == up /\ p \in Live /\ ~dl.node[p].disconnect

-----------------------------------------------------------------------------
(* The block tree and the chain, as far as the download depends on it.     *)

Chain[b \in Blocks] == IF b = 0 THEN {0} ELSE {b} \cup Chain[Parent[b]]
Highest(S) == CHOOSE b \in S : \A o \in S : Height[o] <= Height[b]
LastCommonAncestor(a, b) == Highest(Chain[a] \cap Chain[b])
\* The blocks of a part of one chain, the lowest first.
Ascending(S) == [i \in 1..Cardinality(S) |->
                   CHOOSE b \in S : Cardinality({x \in S : Height[x] < Height[b]}) = i - 1]

CanDirectFetch(c) == c.tip \in Recent
IsInitialBlockDownload(c) == c.tip \notin LastDay

\* A known header is refused when it is marked, a new one when it builds on a
\* marked block; the blocks in between are then marked too.
Marked(c, b) == IF b \in c.index THEN b \in c.failed ELSE Chain[b] \cap c.failed # {}
Acceptable(c, b) == {b, Parent[b]} \cap c.index # {} /\ ~Marked(c, b)
AcceptBlockHeader(c, b) ==
  IF Acceptable(c, b) THEN [c EXCEPT !.index = @ \cup {b}]
  ELSE IF b \in c.index \/ Parent[b] \notin c.index THEN c
  ELSE [c EXCEPT !.failed = @ \cup {x \in Chain[Parent[b]] : Chain[x] \cap c.failed # {}}]

\* Block t is the new tip, the blocks f were found to be invalid.
Activated(c, t, f) == [c EXCEPT !.tip = t, !.failed = @ \cup f]

\* The chain with most work is connected; one with a bad block is tried when it
\* has more work, or as much and came first, and is marked.
ActivateBestChain(c) ==
  LET linked == {b \in Blocks : Chain[b] \subseteq c.data}
      valid == {b \in linked : Chain[b] \cap Bad = {}}
      old == Height[c.tip]
      top == Max({Height[b] : b \in valid} \cup {old})
      tips == IF top > old THEN {b \in valid : Height[b] = top} ELSE {c.tip}
      Tried(h) == {x \in Blocks : /\ Chain[x] \cap Bad # {}
                                  /\ \E y \in linked : x \in Chain[y] /\ Height[y] > h}
  IN {Activated(c, t, f) : t \in tips, f \in {Tried(top), Tried(Max({top - 1, old}))}}

\* What ProcessNewBlock makes of the chain, AcceptBlock included.
ProcessNewBlock(c, b, forced) ==
  LET a == AcceptBlockHeader(c, b)
  IN IF ~Acceptable(c, b) THEN {a}
     ELSE IF b \in a.data \/ (~forced /\ Height[b] < Height[a.tip]) THEN ActivateBestChain(a)
     ELSE ActivateBestChain([a EXCEPT !.data = @ \cup {b}])

-----------------------------------------------------------------------------
(* Book-keeping of the requests.                                           *)

\* Where b is on the list of a peer: the iterator kept in mapBlocksInFlight.
Position(blocks, b) == CHOOSE i \in DOMAIN blocks : blocks[i].hash = b

\* Entry b leaves the list of p, whose stalling timer becomes st.
Erased(node, p, b, st) ==
  [node EXCEPT ![p].blocks = RemoveAt(@, Position(@, b)),
               ![p].n = @ - 1, ![p].nValid = @ - 1, ![p].stalling = st]
Without(f, b) == Restrict(f, DOMAIN f \ {b})

\* Faulty variants of MarkBlockAsReceived: a peer stops counting as one with
\* downloads at its first block, not at its last; the stalling timer goes on.
MarkBlockAsReceivedCounted(d, b) ==
  IF b \notin DOMAIN d.inFlight THEN d
  ELSE [node |-> Erased(d.node, d.inFlight[b], b, FALSE), inFlight |-> Without(d.inFlight, b),
        nPeers |-> d.nPeers - 1]
MarkBlockAsReceivedStalling(d, b) ==
  IF b \notin DOMAIN d.inFlight THEN d
  ELSE LET p == d.inFlight[b]
       IN [node |-> Erased(d.node, p, b, d.node[p].stalling), inFlight |-> Without(d.inFlight, b),
           nPeers |-> IF d.node[p].nValid = 1 THEN d.nPeers - 1 ELSE d.nPeers]

MarkBlockAsReceived(d, b) ==
  IF b \notin DOMAIN d.inFlight THEN d
  ELSE LET p == d.inFlight[b]
       IN [node |-> Erased(d.node, p, b, FALSE), inFlight |-> Without(d.inFlight, b),
           nPeers |-> IF d.node[p].nValid = 1 THEN d.nPeers - 1 ELSE d.nPeers]

\* Every call passes the block's index entry: fValidatedHeaders is always set.
MarkBlockAsInFlight(d, p, b) ==
  IF b \in DOMAIN d.inFlight /\ d.inFlight[b] = p THEN d
  ELSE LET r == MarkBlockAsReceived(d, b)
       IN [node |-> [r.node EXCEPT
                       ![p].blocks = Append(@, [hash |-> b, partial |-> "none"]),
                       ![p].n = @ + 1, ![p].nValid = @ + 1],
           inFlight |-> [x \in DOMAIN r.inFlight \cup {b} |->
                           IF x = b THEN p ELSE r.inFlight[x]],
           nPeers |-> IF r.node[p].nValid = 0 THEN r.nPeers + 1 ELSE r.nPeers]

\* The blocks of a sequence are asked for one after the other.
MarkAll(d, p, bs) ==
  LET After[i \in 0..Len(bs)] ==
        IF i = 0 THEN d ELSE MarkBlockAsInFlight(After[i - 1], p, bs[i])
  IN After[Len(bs)]

Partial(d, p, b) == LET bs == d.node[p].blocks IN bs[Position(bs, b)].partial
SetPartial(d, p, b, v) ==
  [d EXCEPT !.node[p].blocks = [i \in DOMAIN @ |-> IF @[i].hash = b
                                                   THEN [@[i] EXCEPT !.partial = v] ELSE @[i]]]

Better(old, b) == IF old = None \/ Height[b] >= Height[IF old = None THEN 0 ELSE old]
                  THEN b ELSE old
ProcessBlockAvailability(st, index) ==
  IF st.unknown # None /\ st.unknown \in index
  THEN [st EXCEPT !.best = Better(@, st.unknown), !.unknown = None] ELSE st
UpdateBlockAvailability(d, p, b, index) ==
  LET st == ProcessBlockAvailability(d.node[p], index)
  IN [d EXCEPT !.node[p] = IF b \in index THEN [st EXCEPT !.best = Better(@, b)]
                           ELSE [st EXCEPT !.unknown = b]]

-----------------------------------------------------------------------------
(* What to ask a peer for.                                                 *)

\* Faulty variant of Missing: blocks that another peer was asked for count.
MissingAtAnyPeer(d, c, path) == path \ (c.data \cup Chain[c.tip])

\* Blocks of a path that nobody was asked for.
Missing(d, c, path) == path \ (c.data \cup Chain[c.tip] \cup DOMAIN d.inFlight)

\* The new pindexLastCommonBlock, the blocks to ask for, and the peer that holds
\* up the window when it is too full to ask for anything.
FindNextBlocksToDownload(d, c, p, count) ==
  LET st == ProcessBlockAvailability(d.node[p], c.index)
      active == Chain[c.tip]
      guess == IF st.common # None THEN st.common
               ELSE CHOOSE b \in active : Height[b] = Min({Height[st.best], Height[c.tip]})
      common == LastCommonAncestor(guess, st.best)
      end == Height[common] + Window
      path == {b \in Chain[st.best] : /\ Height[b] > Height[common] /\ Height[b] <= end + 1
                                      /\ Chain[b] \cap c.failed \subseteq Chain[common]}
      missing == Missing(d, c, path)
      fetch == Ascending({b \in missing : Height[b] <= end})
      linked == {b \in path : b \in active \/ Chain[b] \subseteq c.data}
      asked == path \cap DOMAIN d.inFlight
      waitingfor == IF asked = {} THEN None ELSE d.inFlight[Head(Ascending(asked))]
      nothing == [st |-> st, fetch |-> <<>>, staller |-> None]
  IN IF st.best = None THEN nothing
     ELSE IF Height[st.best] < Height[c.tip] THEN nothing
     ELSE IF common = st.best THEN [nothing EXCEPT !.st.common = common]
     ELSE [st |-> [st EXCEPT !.common = IF linked = {} THEN common ELSE Highest(linked)],
           fetch |-> SubSeq(fetch, 1, Min({count, Len(fetch)})),
           staller |-> IF fetch = <<>> /\ missing # {} /\ waitingfor # p
                       THEN waitingfor ELSE None]

\* The blocks between the active chain and b are asked for at once, unless there
\* are too many of them.
DirectFetch(d, c, p, b) ==
  LET path == Chain[b] \ Chain[c.tip]
      needed == Missing(d, c, path)
      TooMany == \E x \in needed : /\ Parent[x] \in path
                                   /\ Cardinality({y \in needed : Height[y] >= Height[x]})
                                        = MaxInTransit + 1
      room == MaxInTransit - d.node[p].n
      seq == Ascending(needed)
  IN IF ~CanDirectFetch(c) \/ b \in c.failed \/ Height[b] < Height[c.tip] \/ TooMany THEN d
     ELSE MarkAll(d, p, SubSeq(seq, 1, Max({0, Min({room, Len(seq)})})))

\* Headers first..last, oldest first.  When they do not connect, only the last
\* one is remembered; when one is refused, the ones before it are kept, and the
\* peer may be punished for one that was known.
ProcessHeadersMessage(d, c, p, first, last, punish_duplicate_invalid) ==
  LET hs == {b \in Chain[last] : Height[b] >= Height[first]}
      refused == {b \in hs : Marked(c, b)}
      known == [c EXCEPT !.index = @ \cup {b \in hs : \A x \in refused : Height[b] < Height[x]}]
  IN IF Parent[first] \notin c.index
     THEN [d |-> UpdateBlockAvailability(d, p, last, c.index), c |-> c]
     ELSE IF refused # {}
     THEN LET r == Ascending(refused)[1]
          IN [d |-> IF punish_duplicate_invalid /\ r \in known.index
                    THEN [d EXCEPT !.node[p].disconnect = TRUE] ELSE d,
              c |-> AcceptBlockHeader(known, r)]
     ELSE [d |-> DirectFetch(UpdateBlockAvailability(d, p, last, known.index), known, p, last),
           c |-> known]

-----------------------------------------------------------------------------
(* Connections.                                                            *)

InitializeNode(p, kind) ==
  /\ up /\ p \notin DOMAIN used
  /\ used' = [q \in DOMAIN used \cup {p} |-> IF q = p THEN kind ELSE used[q]]
  /\ dl' = [dl EXCEPT !.node = [q \in Live \cup {p} |-> IF q = p THEN Fresh ELSE dl.node[q]]]
  /\ UNCHANGED <<chain, sync, up>>

\* The peer closes the connection, is banned or evicted.
Close(p) ==
  /\ Listens(p) /\ p \notin Responsive
  /\ dl' = [dl EXCEPT !.node[p].disconnect = TRUE]
  /\ UNCHANGED <<chain, used, sync, up>>

\* By the socket thread, for a node that was disconnected before.
Finalized(d, p) ==
  LET mine == {d.node[p].blocks[i].hash : i \in DOMAIN d.node[p].blocks}
  IN [node |-> Restrict(d.node, DOMAIN d.node \ {p}),
      inFlight |-> Restrict(d.inFlight, DOMAIN d.inFlight \ mine),
      nPeers |-> IF d.node[p].nValid # 0 THEN d.nPeers - 1 ELSE d.nPeers]

FinalizeNode(p) ==
  /\ up /\ p \in Live /\ dl.node[p].disconnect
  /\ dl' = Finalized(dl, p) /\ sync' = sync \ {p}
  /\ UNCHANGED <<chain, used, up>>

-----------------------------------------------------------------------------
(* SendMessages: start the headers sync, disconnect the peer, or ask it    *)
(* for blocks.                                                             *)

\* The nodes with fPreferredDownload; nPreferredDownload is their number.  During
\* the initial download others are asked only when there is none.
Preferred == {p \in Live : /\ used[p].conn # "inbound" \/ used[p].whitelisted
                           /\ used[p].services # "none"}
NicePeer(p) == p \in Preferred \/ (Preferred = {} /\ used[p].services # "none")
Fetches(p) == /\ p \in Live /\ used[p].services # "none"
              /\ \/ NicePeer(p) /\ used[p].services # "limited"
                 \/ ~IsInitialBlockDownload(chain)

\* Headers are asked from one peer, until the best header is close to today.
BestHeaderRecent == Highest(chain.index) \in LastDay
StartsSync(p) == /\ p \notin sync /\ used[p].services # "none"
                 /\ (sync = {} /\ NicePeer(p)) \/ BestHeaderRecent
SyncStarted(p) == IF StartsSync(p) THEN sync \cup {p} ELSE sync

\* Faulty variant of OtherPreferred: one more is wanted than the code asks for.
TwoOtherPreferred(p) == Cardinality(Preferred \ {p}) > 1
OtherPreferred(p) == Preferred \ {p} # {}

Disconnects(p) == dl' = [dl EXCEPT !.node[p].disconnect = TRUE]

DisconnectStalling(p) ==
  /\ Listens(p) /\ p \notin Responsive /\ dl.node[p].stalling
  /\ Disconnects(p) /\ sync' = SyncStarted(p)
  /\ UNCHANGED <<chain, used, up>>

DisconnectTimeout(p) ==
  /\ Listens(p) /\ p \notin Responsive /\ dl.node[p].blocks # <<>>
  /\ Disconnects(p) /\ sync' = SyncStarted(p)
  /\ UNCHANGED <<chain, used, up>>

AskForBlocks(p) ==
  LET f == FindNextBlocksToDownload(dl, chain, p, MaxInTransit - dl.node[p].n)
      d == MarkAll([dl EXCEPT !.node[p] = f.st], p, f.fetch)
  IN \/ ~(Fetches(p) /\ dl.node[p].n < MaxInTransit) /\ dl' = dl
     \/ /\ Fetches(p) /\ dl.node[p].n < MaxInTransit
        /\ dl' = IF d.node[p].n = 0 /\ f.staller # None
                 THEN [d EXCEPT !.node[f.staller].stalling = TRUE] ELSE d

\* The only peer that headers are asked from lets the time run out.
HeadersTimeout(p) ==
  /\ Listens(p) /\ p \notin Responsive
  /\ sync = {p} /\ ~BestHeaderRecent /\ OtherPreferred(p)
  /\ \/ ~used[p].whitelisted /\ Disconnects(p) /\ UNCHANGED sync
     \/ used[p].whitelisted /\ AskForBlocks(p) /\ sync' = {}
  /\ UNCHANGED <<chain, used, up>>

RequestBlocks(p) ==
  /\ Listens(p)
  /\ UNCHANGED <<chain, used, up>>
  /\ sync' = SyncStarted(p) /\ AskForBlocks(p)

-----------------------------------------------------------------------------
(* Messages.                                                               *)

\* An inv of a block: getheaders when it is not known.
Inv(p, b) ==
  /\ Listens(p) /\ b \in Tips[p]
  /\ dl' = UpdateBlockAvailability(dl, p, b, chain.index)
  /\ UNCHANGED <<chain, used, sync, up>>

\* Headers that are not known yet, or the announcement of a block.
Headers(p, first, last) ==
  /\ Listens(p) /\ last \in Tips[p] /\ first \in Chain[last] \ {0}
  /\ first = last \/ first \notin chain.index
  /\ LET r == ProcessHeadersMessage(dl, chain, p, first, last, used[p].conn = "outbound")
     IN dl' = r.d /\ chain' = r.c
  /\ UNCHANGED <<used, sync, up>>

\* What p still has to send.
Requested(p) == {b \in DOMAIN dl.inFlight : dl.inFlight[b] = p}
Asked(p, b) == b \in Requested(p)

\* A responsive peer sends what it was asked for, another one any block it has.
Block(p, b) ==
  /\ Listens(p) /\ b \in Has[p] \ {0}
  /\ p \in Responsive => Asked(p, b)
  /\ dl' = MarkBlockAsReceived(dl, b)
  /\ chain' \in ProcessNewBlock(chain, b, b \in DOMAIN dl.inFlight)
  /\ UNCHANGED <<used, sync, up>>

\* The block of a compact block that is in flight from p is filled; on a failure
\* it is asked for as a whole.
Fill(d, c, p, b) ==
  \/ dl' = MarkBlockAsReceived(d, b) /\ chain' \in ProcessNewBlock(c, b, TRUE)
  \/ dl' = SetPartial(d, p, b, "filled") /\ chain' = c
\* An invalid compact block costs 100 points, which gets a peer disconnected that
\* is neither whitelisted nor connected by hand.
Refuse(d, c, p, b) ==
  LET r == MarkBlockAsReceived(d, b)
  IN /\ p \notin Responsive
     /\ dl' = IF used[p].whitelisted \/ used[p].conn = "manual" THEN r
              ELSE [r EXCEPT !.node[p].disconnect = TRUE]
     /\ chain' = c

BlockTxn(p, b) ==
  /\ Listens(p) /\ Asked(p, b)
  /\ Partial(dl, p, b) = "waiting" \/ (Partial(dl, p, b) = "collided" /\ p \notin Responsive)
  /\ Fill(dl, chain, p, b) \/ Refuse(dl, chain, p, b)
  /\ UNCHANGED <<used, sync, up>>

\* FillBlock asserts that the header is not null, which a FillBlock that failed
\* has left behind: another blocktxn for that block ends the process.
BlockTxnAgain(p, b) ==
  /\ Listens(p) /\ Asked(p, b)
  /\ Partial(dl, p, b) = "filled" /\ p \notin Responsive
  /\ up' = FALSE
  /\ UNCHANGED <<dl, chain, used, sync>>

CmpctBlock(p, b) ==
  /\ Listens(p) /\ b \in Tips[p] \cup Requested(p) /\ Parent[b] \in chain.index
  /\ LET c == AcceptBlockHeader(chain, b)
         d == UpdateBlockAvailability(dl, p, b, c.index)
         m == MarkBlockAsInFlight(d, p, b)
         asked == b \in DOMAIN d.inFlight
         mine == asked /\ d.inFlight[b] = p
         useless == b \in c.data \/ Height[b] <= Height[c.tip] \/ (~asked /\ ~CanDirectFetch(c))
         near == Height[b] <= Height[c.tip] + 2
         room == ~asked /\ d.node[p].n < MaxInTransit
     IN \/ ~Acceptable(chain, b) /\ chain' = c /\ UNCHANGED dl
        \/ /\ Acceptable(chain, b)
           /\ \/ /\ \/ useless \/ (asked /\ ~near)
                    \/ mine /\ Partial(d, p, b) # "none"
                 /\ dl' = d /\ chain' = c
              \/ /\ ~useless /\ ~asked /\ ~near
                 /\ LET r == ProcessHeadersMessage(d, c, p, b, b, FALSE)
                    IN dl' = r.d /\ chain' = r.c
              \/ /\ ~useless /\ near /\ (room \/ (mine /\ Partial(d, p, b) = "none"))
                 /\ \/ dl' = SetPartial(m, p, b, "waiting") /\ chain' = c
                    \/ dl' = SetPartial(m, p, b, "collided") /\ chain' = c
                    \/ Refuse(m, c, p, b)
                    \/ Fill(m, c, p, b)
              \/ /\ ~useless /\ near /\ ~room /\ ~mine
                 /\ \/ dl' = d /\ chain' = c
                    \/ \E r \in ProcessNewBlock(c, b, TRUE) :
                         /\ chain' = r
                         /\ dl' = IF b \in r.data \ r.failed THEN MarkBlockAsReceived(d, b) ELSE d
  /\ UNCHANGED <<used, sync, up>>

Next == \E p \in Peers :
  \/ \E kind \in Kinds[p] : InitializeNode(p, kind)
  \/ Close(p) \/ FinalizeNode(p)
  \/ DisconnectStalling(p) \/ DisconnectTimeout(p) \/ HeadersTimeout(p) \/ RequestBlocks(p)
  \/ \E b \in Blocks : \/ Inv(p, b) \/ Block(p, b) \/ CmpctBlock(p, b)
                       \/ BlockTxn(p, b) \/ BlockTxnAgain(p, b)
  \/ \E first, last \in Blocks : Headers(p, first, last)

Spec == Init /\ [][Next]_vars

-----------------------------------------------------------------------------
(* Fairness: the message thread serves every peer again and again, and     *)
(* every other peer before it comes back to one; timers of peers that keep *)
(* us waiting expire; the socket thread removes disconnected nodes;        *)
(* responsive peers answer getdata, getblocktxn and getheaders.            *)

Answer(p) == \E b \in Blocks : \/ Asked(p, b) /\ Block(p, b)
                               \/ BlockTxn(p, b)
SendHeaders(p) == \E b \in Blocks \ {0} : /\ Parent[b] \in chain.index
                                          /\ Headers(p, b, Highest(Tips[p]))

\* When these steps can change something.  They say what WF_vars would compute
\* with ENABLED, which takes TLC too long for steps this large.  A getheaders was
\* sent when the headers sync was started, or for a block that is not known.
CanAnswer(p) == Listens(p) /\ \E b \in Blocks : Asked(p, b)
CanSendHeaders(p) == /\ Listens(p) /\ dl.node[p].best # Highest(Tips[p])
                     /\ p \in sync \/ dl.node[p].unknown # None
CanStartSync(p) == Listens(p) /\ StartsSync(p)
CanRequest(p) ==
  /\ Listens(p) /\ Fetches(p) /\ dl.node[p].n < MaxInTransit
  /\ LET f == FindNextBlocksToDownload(dl, chain, p, MaxInTransit - dl.node[p].n)
     IN \/ f.fetch # <<>> \/ f.st # dl.node[p]
        \/ dl.node[p].n = 0 /\ f.staller # None /\ ~dl.node[f.staller].stalling

Fairness ==
  \A p \in Peers : /\ WF_vars(DisconnectStalling(p)) /\ WF_vars(DisconnectTimeout(p))
                   /\ WF_vars(HeadersTimeout(p)) /\ WF_vars(FinalizeNode(p))
                   /\ \/ []<>~CanRequest(p) /\ <>[]~CanStartSync(p)
                      \/ []<><<RequestBlocks(p)>>_vars
                   /\ p \in Responsive =>
                        /\ []<>~CanAnswer(p) \/ []<><<CanAnswer(p) /\ Answer(p)>>_vars
                        /\ \/ []<>~CanSendHeaders(p)
                           \/ []<><<CanSendHeaders(p) /\ SendHeaders(p)>>_vars
FairSpec == Spec /\ Fairness

-----------------------------------------------------------------------------
(* Correctness.                                                            *)

Request == [hash : Blocks, partial : {"none", "waiting", "collided", "filled"}]
NodeState == [best : Blocks \cup {None}, unknown : Blocks \cup {None},
              common : Blocks \cup {None}, blocks : Seq(Request), n : Nat, nValid : Nat,
              stalling : BOOLEAN, disconnect : BOOLEAN]
IsDownloads(d) ==
  /\ d = [node |-> d.node, inFlight |-> d.inFlight, nPeers |-> d.nPeers]
  /\ d.node \in [DOMAIN d.node -> NodeState] /\ DOMAIN d.node \subseteq Peers
  /\ d.inFlight \in [DOMAIN d.inFlight -> Peers] /\ DOMAIN d.inFlight \subseteq Blocks
  /\ d.nPeers \in Nat

TypeOK == /\ used \in [DOMAIN used -> Kind] /\ DOMAIN used \subseteq Peers
          /\ Live \subseteq DOMAIN used /\ sync \subseteq Live /\ up \in BOOLEAN
          /\ IsDownloads(dl)
          /\ chain \in [index : SUBSET Blocks, data : SUBSET Blocks,
                        failed : SUBSET Blocks, tip : Blocks]

\* mapBlocksInFlight, the lists and counters of the peers and
\* nPeersWithValidatedDownloads say the same: every block in flight is on the
\* list of exactly the live peer it was asked from, once.  FinalizeNode asserts a
\* part of it after the last peer has gone; MarkBlockAsReceived and SendMessages
\* dereference State(peer) because of it.
FlightTablesAgree ==
  /\ \A b \in DOMAIN dl.inFlight : dl.inFlight[b] \in Live
  /\ \A p \in Live : LET bs == dl.node[p].blocks
                     IN /\ \A i, j \in DOMAIN bs : bs[i].hash = bs[j].hash => i = j
                        /\ {bs[i].hash : i \in DOMAIN bs} = Requested(p)
                        /\ dl.node[p].n = Len(bs) /\ dl.node[p].nValid = Len(bs)
  /\ dl.nPeers = Cardinality({p \in Live : dl.node[p].blocks # <<>>})

\* Only a peer that still owes us a block has its stalling timer running, so none
\* is disconnected for stalling after it has delivered, whoever delivered first.
StallerHasBlocks == \A p \in Live : dl.node[p].stalling => dl.node[p].blocks # <<>>

\* A block in flight is not asked from a second peer: until it is received, or its
\* peer is finalized, MarkBlockAsInFlight is not called for another peer.
NoTakeover ==
  [][\A b \in DOMAIN dl.inFlight \cap DOMAIN dl'.inFlight :
       dl'.inFlight[b] = dl.inFlight[b]]_vars

\* The node may not fetch from p: it has no blocks for us, only late ones, or there
\* are preferred peers, during the initial download; or another peer keeps the
\* headers sync, which only a preferred one takes over from it.
PassedOver(p) == ~Fetches(p) \/ (p \notin Preferred /\ p \notin sync)

\* Once a responsive peer is connected the node gets to a chain with at least as
\* much work as the peer's, although blocks and headers were asked from peers that
\* stall, send invalid compact blocks or a bad fork, or leave before they answer.
\* Two cases are excepted.  The node may pass the peer over for good, which never
\* happens to a preferred peer that serves the network.  And the process ends when
\* a peer sends a second blocktxn after a compact block that could not be filled.
Synced ==
  \A p \in Responsive :
    p \in Live ~> \/ Height[chain.tip] >= Height[Highest(Tips[p])] \/ ~up
                  \/ []PassedOver(p)
=============================================================================
