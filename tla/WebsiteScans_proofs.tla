------------------------- MODULE WebsiteScans_proofs -------------------------
(***************************************************************************)
(* Proofs about WebsiteScans. The properties rest on what the documents    *)
(* have in common: a scan and its page scans are stored where the id of    *)
(* the website says, each scan has one document, and the document last     *)
(* written of a website has the time of that write, so that there is a     *)
(* latest one.                                                             *)
(***************************************************************************)
EXTENDS WebsiteScans, TLAPS

\* The document of a scan is of the website that the POST named, in the partition of
\* that website's id, and was written once its POST found the website.
ScansAreSound ==
    \A s \in scans :
        /\ s.website = website[s.id]
        /\ s.partition = NodeOf[s.website]
        /\ s.ts <= now
        /\ postPc[s.id] \in {"created", "failed"}

OneDocument == \A s, t \in scans : s.id = t.id => s = t

\* Every website with scans has one that was not written before another one.
SomeIsLatest == \A w \in Websites : ScansOf(w) # {} => LatestScans(w) # {}

\* A page scan is stored in the partition of its scan.
PageScansAreSound ==
    /\ Len(pageScans) <= MaxPageScans
    /\ \A i \in 1 .. Len(pageScans) :
           pageScans[i].partition = NodeOf[website[pageScans[i].scan]]

\* A request has nothing before it reads, and then a scan as sound as the documents.
FoundIsSound(g) ==
    /\ getPc[g] \in {"idle", "start"} => found[g] = NoScan
    /\ found[g] # NoScan => found[g].partition = NodeOf[website[found[g].id]]

\* The response has the page scans of the scan up to the continuation token, each once.
FetchedInOrder(g) ==
    /\ position[g] <= Len(pageScans)
    /\ getPc[g] \in {"idle", "start"} => position[g] = 0 /\ collected[g] = {}
    /\ getPc[g] \in {"query", "done"} =>
           collected[g] = {i \in 1 .. position[g] : pageScans[i].scan = found[g].id}
    /\ ~twice[g]
    /\ existing[g] <= Len(pageScans)

\* The documents of the scans that were acknowledged stay; updates only make them newer.
ExpectedRemain(g) ==
    \A s \in expected[g] :
        /\ s.website = website[s.id]
        /\ \E t \in scans : t.id = s.id /\ s.ts <= t.ts

\* The three properties, for one request.
NotFoundIsRight(g) == getPc[g] = "notFound" => \A s \in expected[g] : ~Asked(g, s)

FoundIsNewest(g) ==
    found[g] # NoScan /\ "latest" \in DOMAIN target[g] =>
        /\ found[g].website = target[g].website
        /\ \A s \in expected[g] : Asked(g, s) => s.ts <= found[g].ts

DoneIsComplete(g) ==
    getPc[g] = "done" =>
        /\ \A i \in 1 .. existing[g] : pageScans[i].scan = found[g].id => i \in collected[g]
        /\ \A i \in collected[g] : pageScans[i].scan = found[g].id

DocumentInv == ScansAreSound /\ OneDocument /\ SomeIsLatest /\ PageScansAreSound

RequestInv(g) ==
    /\ FoundIsSound(g) /\ FetchedInOrder(g) /\ ExpectedRemain(g)
    /\ NotFoundIsRight(g) /\ FoundIsNewest(g) /\ DoneIsComplete(g)

IInv == TypeOK /\ DocumentInv /\ \A g \in Gets : RequestInv(g)

-------------------------------------------------------------------------------
LEMMA Bounds == MaxPageScans \in Nat /\ MaxTime \in Nat
  BY BoundsAssumption

LEMMA ScanFields ==
    ASSUME NEW s \in Scans
    PROVE  /\ s.id \in Posts /\ s.website \in Websites /\ s.partition \in Nodes
           /\ s.ts \in 0 .. MaxTime /\ s.ts \in Nat /\ s # NoScan
  BY Bounds, NoScanAssumption DEF Scans

\* The controller tells the two kinds of requests apart.
LEMMA Kinds ==
    ASSUME NEW t \in Targets
    PROVE  /\ t.website \in Websites
           /\ "latest" \notin DOMAIN t => t.id \in Posts
  BY DEF Targets

LEMMA Initially == Init => IInv
  <1> SUFFICES ASSUME Init PROVE IInv
    OBVIOUS
  <1>1. TypeOK
    BY Bounds DEF Init, TypeOK, ScanRequests
  <1>2. DocumentInv
    BY Bounds DEF Init, DocumentInv, ScansAreSound, OneDocument, SomeIsLatest, ScansOf,
       PageScansAreSound
  <1>3. ASSUME NEW g \in Gets PROVE RequestInv(g)
    BY DEF Init, RequestInv, FoundIsSound, FetchedInOrder, ExpectedRemain,
       NotFoundIsRight, FoundIsNewest, DoneIsComplete
  <1>. QED
    BY <1>1, <1>2, <1>3 DEF IInv

-------------------------------------------------------------------------------
(***************************************************************************)
(* Steps that write documents. What they have in common is enough for the  *)
(* requests: no scan disappears or gets older, page scans are only added.  *)
(***************************************************************************)
ScansRemain ==
    \A s \in scans : \E t \in scans' : t.id = s.id /\ s.ts <= t.ts

PageScansRemain ==
    /\ Len(pageScans') \in Nat /\ Len(pageScans) <= Len(pageScans')
    /\ \A i \in 1 .. Len(pageScans) : pageScans'[i] = pageScans[i]

LEMMA RequestsKept ==
    ASSUME TypeOK, TypeOK', ScansRemain, PageScansRemain, website' = website, UNCHANGED get,
           NEW g \in Gets, RequestInv(g)
    PROVE  RequestInv(g)'
  <1>. USE DEF get
  <1>1. /\ Len(pageScans) \in Nat /\ position[g] \in Nat /\ existing[g] \in Nat
        /\ position[g] <= Len(pageScans) /\ existing[g] <= Len(pageScans)
    BY Bounds DEF TypeOK, RequestInv, FetchedInOrder
  <1>2. FoundIsSound(g)'
    BY DEF RequestInv, FoundIsSound
  <1>3. FetchedInOrder(g)'
    <2>1. \A i \in 1 .. position[g] : pageScans'[i] = pageScans[i]
      BY <1>1 DEF PageScansRemain
    <2>2. position[g] <= Len(pageScans') /\ existing[g] <= Len(pageScans')
      BY <1>1 DEF PageScansRemain
    <2>. QED
      BY <2>1, <2>2 DEF RequestInv, FetchedInOrder
  <1>4. ExpectedRemain(g)'
    <2> SUFFICES ASSUME NEW s \in expected[g]
                 PROVE  /\ s.website = website[s.id]
                        /\ \E t \in scans' : t.id = s.id /\ s.ts <= t.ts
      BY DEF ExpectedRemain
    <2>1. s.website = website[s.id]
      BY DEF RequestInv, ExpectedRemain
    <2>2. PICK t \in scans : t.id = s.id /\ s.ts <= t.ts
      BY DEF RequestInv, ExpectedRemain
    <2>3. PICK u \in scans' : u.id = t.id /\ t.ts <= u.ts
      BY DEF ScansRemain
    <2>4. s \in Scans /\ t \in Scans /\ u \in Scans
      BY DEF TypeOK
    <2>5. s.ts \in Nat /\ t.ts \in Nat /\ u.ts \in Nat
      BY <2>4, ScanFields
    <2>. QED
      BY <2>1, <2>2, <2>3, <2>5
  <1>5. NotFoundIsRight(g)' /\ FoundIsNewest(g)'
    BY DEF RequestInv, NotFoundIsRight, FoundIsNewest, Asked
  <1>6. DoneIsComplete(g)'
    <2>1. \A i \in 1 .. existing[g] : pageScans'[i] = pageScans[i]
      BY <1>1 DEF PageScansRemain
    <2>2. ASSUME getPc[g] = "done", NEW i \in collected[g]
          PROVE  pageScans'[i] = pageScans[i]
      BY <2>2, <1>1 DEF RequestInv, FetchedInOrder, PageScansRemain
    <2>. QED
      BY <2>1, <2>2 DEF RequestInv, DoneIsComplete
  <1>. QED
    BY <1>2, <1>3, <1>4, <1>5, <1>6 DEF RequestInv

\* What a step that writes documents has to show.
DocumentStep ==
    TypeOK' /\ DocumentInv' /\ ScansRemain /\ PageScansRemain /\ website' = website

LEMMA ScansSame == ASSUME TypeOK, scans' = scans PROVE ScansRemain
  <1> SUFFICES ASSUME NEW s \in scans PROVE \E t \in scans' : t.id = s.id /\ s.ts <= t.ts
    BY DEF ScansRemain
  <1>1. s \in scans' /\ s.ts \in Nat
    BY ScanFields DEF TypeOK
  <1>. QED
    BY <1>1

LEMMA PageScansSame == ASSUME TypeOK, pageScans' = pageScans PROVE PageScansRemain
  <1>1. Len(pageScans) \in Nat
    BY DEF TypeOK
  <1>. QED
    BY <1>1 DEF PageScansRemain

LEMMA TickKeeps == ASSUME IInv, Tick PROVE DocumentStep
  <1>1. TypeOK'
    BY Bounds DEF IInv, TypeOK, Tick, post, get
  <1>2. ScansAreSound'
    <2> SUFFICES ASSUME NEW s \in scans PROVE s.ts <= now + 1
      BY DEF IInv, DocumentInv, ScansAreSound, Tick, post
    <2>1. s.ts \in Nat /\ now \in Nat
      BY ScanFields DEF IInv, TypeOK
    <2>. QED
      BY <2>1 DEF IInv, DocumentInv, ScansAreSound
  <1>3. OneDocument' /\ SomeIsLatest' /\ PageScansAreSound'
    BY DEF IInv, DocumentInv, OneDocument, SomeIsLatest, PageScansAreSound, ScansOf,
       LatestScans, Tick, post
  <1>. QED
    BY <1>1, <1>2, <1>3, ScansSame, PageScansSame DEF DocumentStep, DocumentInv, Tick, post, IInv

LEMMA CreateWebsiteKeeps ==
    ASSUME IInv, NEW w \in Websites, CreateWebsite(w) PROVE DocumentStep
  <1>1. TypeOK'
    BY DEF IInv, TypeOK, CreateWebsite, post, get
  <1>2. DocumentInv'
    BY DEF IInv, DocumentInv, ScansAreSound, OneDocument, SomeIsLatest, PageScansAreSound,
       ScansOf, LatestScans, CreateWebsite, post
  <1>. QED
    BY <1>1, <1>2, ScansSame, PageScansSame DEF DocumentStep, CreateWebsite, post, IInv

\* A POST that writes nothing: the scans written have other POSTs, or are its own, and
\* then it is over already.
LEMMA PostOnlyMoves ==
    ASSUME IInv, NEW p \in Posts, postPc[p] \in {"start", "found"},
           NEW label \in {"found", "notFound", "failed"}, PostTo(p, label),
           UNCHANGED <<database, website, get>>
    PROVE  DocumentStep
  <1>. USE DEF PostTo, database, get
  <1>1. TypeOK'
    BY DEF IInv, TypeOK
  <1>2. ScansAreSound'
    <2> SUFFICES ASSUME NEW s \in scans PROVE postPc'[s.id] \in {"created", "failed"}
      BY DEF IInv, DocumentInv, ScansAreSound
    <2>1. s.id \in Posts
      BY ScanFields DEF IInv, TypeOK
    <2>. QED
      BY <2>1 DEF IInv, DocumentInv, ScansAreSound, TypeOK
  <1>3. OneDocument' /\ SomeIsLatest' /\ PageScansAreSound'
    BY DEF IInv, DocumentInv, OneDocument, SomeIsLatest, PageScansAreSound, ScansOf,
       LatestScans
  <1>. QED
    BY <1>1, <1>2, <1>3, ScansSame, PageScansSame DEF DocumentStep, DocumentInv, IInv

\* The document that was just written is the latest of its website.
LEMMA WrittenIsLatest ==
    ASSUME TypeOK, SomeIsLatest, NEW s, s \in Scans, scans' \subseteq scans \cup {s}, s \in scans',
           \A t \in scans : t.website # s.website => t \in scans',
           s.ts = now, s.partition = NodeOf[s.website],
           \A t \in scans : t.ts <= now
    PROVE  SomeIsLatest'
  <1> SUFFICES ASSUME NEW w \in Websites, ScansOf(w)' # {} PROVE LatestScans(w)' # {}
    BY DEF SomeIsLatest
  <1>1. CASE s.website = w
    <2>1. s \in ScansOf(w)'
      BY <1>1 DEF ScansOf
    <2>2. \A t \in scans' : t.ts <= s.ts
      <3>1. s.ts \in Nat
        BY ScanFields
      <3>. QED
        BY <3>1
    <2>. QED
      BY <2>1, <2>2 DEF LatestScans, ScansOf
  <1>2. CASE s.website # w
    <2>1. ScansOf(w)' = ScansOf(w)
      BY <1>2 DEF ScansOf
    <2>2. LatestScans(w)' = LatestScans(w)
      BY <2>1 DEF LatestScans
    <2>. QED
      BY <2>1, <2>2 DEF SomeIsLatest
  <1>. QED
    BY <1>1, <1>2

LEMMA WriteScanKeeps ==
    ASSUME IInv, NEW p \in Posts, postPc[p] = "found",
           NEW label \in {"created", "failed"}, PostTo(p, label),
           NEW n \in ScanNode(p), scans' = scans \cup {ScanOf(p, n)},
           UNCHANGED <<now, websites, pageScans, website, get>>
    PROVE  DocumentStep
  <1>. USE DEF PostTo, get
  <1> DEFINE s == ScanOf(p, n)
  <1>1. website[p] \in Websites /\ NodeOf[website[p]] \in Nodes /\ now \in 0 .. MaxTime
    BY NodeAssumption DEF IInv, TypeOK
  <1>2. /\ s \in Scans /\ s.id = p /\ s.website = website[p] /\ s.ts = now
        /\ s.partition = NodeOf[website[p]]
    BY <1>1 DEF ScanNode, ScanOf, Scans
  <1>3. TypeOK'
    BY <1>2 DEF IInv, TypeOK
  <1>4. \A t \in scans : t.id \in Posts /\ t.id # p
    BY ScanFields DEF IInv, TypeOK, DocumentInv, ScansAreSound
  <1>5. ScansAreSound'
    <2>1. s.ts <= now
      BY <1>1, <1>2, Bounds
    <2>2. postPc'[p] = label /\ \A t \in scans : postPc'[t.id] = postPc[t.id]
      BY <1>4 DEF IInv, TypeOK
    <2>. QED
      BY <1>2, <1>4, <2>1, <2>2 DEF IInv, DocumentInv, ScansAreSound
  <1>6. OneDocument'
    BY <1>2, <1>4 DEF IInv, DocumentInv, OneDocument
  <1>7. SomeIsLatest'
    <2>1. \A t \in scans : t.ts <= now
      BY DEF IInv, DocumentInv, ScansAreSound
    <2>. QED
      BY <1>2, <2>1, WrittenIsLatest DEF IInv, DocumentInv
  <1>8. PageScansAreSound'
    BY DEF IInv, DocumentInv, PageScansAreSound
  <1>9. ScansRemain
    <2> SUFFICES ASSUME NEW t \in scans PROVE \E u \in scans' : u.id = t.id /\ t.ts <= u.ts
      BY DEF ScansRemain
    <2>1. t.ts \in Nat
      BY ScanFields DEF IInv, TypeOK
    <2>. QED
      BY <2>1
  <1>. QED
    BY <1>3, <1>5, <1>6, <1>7, <1>8, <1>9, PageScansSame DEF DocumentStep, DocumentInv, IInv

LEMMA CreatePageScanKeeps ==
    ASSUME IInv, NEW s \in scans, NEW p \in Pages, CreatePageScan(s, p) PROVE DocumentStep
  <1>. USE DEF CreatePageScan, post, get
  <1> DEFINE new == PageScanOf(s, p)
  <1>1. s.id \in Posts /\ NodeOf[s.website] \in Nodes
    BY ScanFields, NodeAssumption DEF IInv, TypeOK
  <1>2. /\ new \in PageScans /\ new.scan = s.id
        /\ new.partition = NodeOf[website[new.scan]]
    BY <1>1 DEF PageScanOf, PageScans, IInv, DocumentInv, ScansAreSound
  <1>3. pageScans \in Seq(PageScans) /\ Len(pageScans) \in Nat
    BY DEF IInv, TypeOK
  <1>4. /\ pageScans' \in Seq(PageScans) /\ Len(pageScans') = Len(pageScans) + 1
        /\ \A i \in 1 .. Len(pageScans) : pageScans'[i] = pageScans[i]
        /\ pageScans'[Len(pageScans) + 1] = new
    BY <1>2, <1>3
  <1>5. TypeOK'
    BY <1>4 DEF IInv, TypeOK
  <1>6. PageScansAreSound'
    <2>1. Len(pageScans') <= MaxPageScans
      BY <1>3, <1>4, Bounds
    <2>2. ASSUME NEW i \in 1 .. Len(pageScans')
          PROVE  pageScans'[i].partition = NodeOf[website[pageScans'[i].scan]]
      <3>1. i \in 1 .. Len(pageScans) \/ i = Len(pageScans) + 1
        BY <1>3, <1>4
      <3>. QED
        BY <3>1, <1>2, <1>4 DEF IInv, DocumentInv, PageScansAreSound
    <2>. QED
      BY <2>1, <2>2 DEF PageScansAreSound
  <1>7. ScansAreSound' /\ OneDocument' /\ SomeIsLatest'
    BY DEF IInv, DocumentInv, ScansAreSound, OneDocument, SomeIsLatest, ScansOf, LatestScans
  <1>8. PageScansRemain
    BY <1>3, <1>4 DEF PageScansRemain
  <1>. QED
    BY <1>5, <1>6, <1>7, <1>8, ScansSame DEF DocumentStep, DocumentInv, IInv

LEMMA UpdateScanKeeps ==
    ASSUME IInv, NEW s \in scans, UpdateScan(s) PROVE DocumentStep
  <1>. USE DEF UpdateScan, post, get
  <1> DEFINE new == [s EXCEPT !.ts = now]
  <1>1. s \in Scans /\ now \in 0 .. MaxTime
    BY DEF IInv, TypeOK
  <1>2. /\ new \in Scans /\ new.id = s.id /\ new.website = s.website
        /\ new.partition = s.partition /\ new.ts = now
    BY <1>1 DEF Scans
  <1>3. TypeOK'
    BY <1>2 DEF IInv, TypeOK
  <1>4. s.ts <= now /\ now <= now
    BY <1>1, Bounds DEF IInv, DocumentInv, ScansAreSound
  <1>5. ScansAreSound'
    BY <1>2, <1>4 DEF IInv, DocumentInv, ScansAreSound
  <1>6. OneDocument'
    <2> SUFFICES ASSUME NEW t \in scans', NEW u \in scans', t.id = u.id PROVE t = u
      BY DEF OneDocument
    <2>1. \A x \in scans' : x = new \/ (x \in scans /\ x # s)
      OBVIOUS
    <2>2. \A x \in scans : x # s => x.id # new.id
      BY <1>2 DEF IInv, DocumentInv, OneDocument
    <2>3. \A x, y \in scans : x.id = y.id => x = y
      BY DEF IInv, DocumentInv, OneDocument
    <2> HIDE DEF new
    <2>. QED
      BY <2>1, <2>2, <2>3
  <1>7. SomeIsLatest'
    <2>1. new.partition = NodeOf[new.website] /\ \A t \in scans : t.ts <= now
      BY <1>2 DEF IInv, DocumentInv, ScansAreSound
    <2>2. \A t \in scans : t.website # new.website => t \in scans'
      BY <1>2
    <2>. QED
      BY <1>2, <2>1, <2>2, WrittenIsLatest DEF IInv, DocumentInv
  <1>8. PageScansAreSound'
    BY DEF IInv, DocumentInv, PageScansAreSound
  <1>9. ScansRemain
    <2> SUFFICES ASSUME NEW t \in scans PROVE \E u \in scans' : u.id = t.id /\ t.ts <= u.ts
      BY DEF ScansRemain
    <2>1. CASE t = s
      BY <2>1, <1>2, <1>4
    <2>2. CASE t # s
      <3>1. t.ts \in Nat
        BY ScanFields DEF IInv, TypeOK
      <3>. QED
        BY <2>2, <3>1
    <2>. QED
      BY <2>1, <2>2
  <1>. QED
    BY <1>3, <1>5, <1>6, <1>7, <1>8, <1>9, PageScansSame DEF DocumentStep, DocumentInv, IInv

-------------------------------------------------------------------------------
(***************************************************************************)
(* Steps of a GET request. They leave the documents alone, and what they   *)
(* change is the request's own.                                            *)
(***************************************************************************)
LEMMA DocumentsKept == ASSUME DocumentInv, UNCHANGED <<database, post>> PROVE DocumentInv'
  BY DEF DocumentInv, ScansAreSound, OneDocument, SomeIsLatest, PageScansAreSound, ScansOf,
     LatestScans, database, post

LEMMA OthersKept ==
    ASSUME NEW h \in Gets, RequestInv(h), UNCHANGED <<database, post, target>>,
           UNCHANGED <<getPc[h], found[h], position[h], collected[h]>>,
           UNCHANGED <<twice[h], expected[h], existing[h]>>
    PROVE  RequestInv(h)'
  <1>. USE DEF database, post
  <1>1. FoundIsSound(h)'
    BY DEF RequestInv, FoundIsSound
  <1>2. FetchedInOrder(h)'
    BY DEF RequestInv, FetchedInOrder
  <1>3. ExpectedRemain(h)'
    BY DEF RequestInv, ExpectedRemain
  <1>4. NotFoundIsRight(h)' /\ FoundIsNewest(h)'
    BY DEF RequestInv, NotFoundIsRight, FoundIsNewest, Asked
  <1>5. DoneIsComplete(h)'
    BY DEF RequestInv, DoneIsComplete
  <1>. QED
    BY <1>1, <1>2, <1>3, <1>4, <1>5 DEF RequestInv

LEMMA GetTypes ==
    ASSUME TypeOK
    PROVE  /\ \A g \in Gets : position[g] \in Nat /\ existing[g] \in Nat
           /\ Len(pageScans) \in Nat
           /\ \A g \in Gets : target[g] \in Targets
  BY Bounds DEF TypeOK

LEMMA ReceiveGetKeeps ==
    ASSUME IInv, NEW g \in Gets, ReceiveGet(g) PROVE IInv'
  <1>. USE DEF ReceiveGet, GetTo
  <1>1. TypeOK'
    <2>1. Len(pageScans) \in 0 .. MaxPageScans
      BY GetTypes, Bounds DEF IInv, DocumentInv, PageScansAreSound
    <2>. QED
      BY <2>1 DEF IInv, TypeOK, database, post
  <1>2. DocumentInv'
    BY DocumentsKept DEF IInv
  <1>3. ASSUME NEW h \in Gets, h # g PROVE RequestInv(h)'
    BY <1>3, OthersKept DEF IInv, TypeOK
  <1>4. RequestInv(g)'
    <2>1. /\ getPc'[g] = "start" /\ found'[g] = NoScan /\ position'[g] = 0
          /\ collected'[g] = {} /\ ~twice'[g] /\ existing'[g] = Len(pageScans)
          /\ expected'[g] \subseteq scans
      BY DEF IInv, TypeOK, RequestInv, FoundIsSound, FetchedInOrder
    <2>2. FoundIsSound(g)' /\ NotFoundIsRight(g)' /\ FoundIsNewest(g)' /\ DoneIsComplete(g)'
      BY <2>1 DEF FoundIsSound, NotFoundIsRight, FoundIsNewest, DoneIsComplete
    <2>3. FetchedInOrder(g)'
      BY <2>1, GetTypes DEF IInv, FetchedInOrder, database
    <2>4. ExpectedRemain(g)'
      <3>1. \A s \in scans : s.ts <= s.ts
        BY ScanFields DEF IInv, TypeOK
      <3>. QED
        BY <2>1, <3>1 DEF ExpectedRemain, IInv, DocumentInv, ScansAreSound, database, post
    <2>. QED
      BY <2>2, <2>3, <2>4 DEF RequestInv
  <1>. QED
    BY <1>1, <1>2, <1>3, <1>4 DEF IInv

\* The documents that a request can find. An acknowledged scan that it asks for has a
\* document among those, or one that is as new.
LEMMA MatchesAreSound ==
    ASSUME IInv, NEW g \in Gets, NEW s \in Matches(g)
    PROVE  /\ s \in scans
           /\ "latest" \in DOMAIN target[g] =>
                  /\ s.website = target[g].website
                  /\ \A t \in ScansOf(target[g].website) : t.ts <= s.ts
  <1>1. s \in scans
    BY DEF Matches, LatestScans, ScansOf
  <1>2. ASSUME "latest" \in DOMAIN target[g]
        PROVE  s \in LatestScans(target[g].website)
    BY <1>2 DEF Matches
  <1>. QED
    BY <1>1, <1>2 DEF LatestScans, ScansOf

LEMMA ExpectedIsAmongThem ==
    ASSUME IInv, NEW g \in Gets, NEW s \in expected[g], Asked(g, s)
    PROVE  \E t \in scans :
               /\ t.id = s.id /\ s.ts <= t.ts
               /\ "latest" \in DOMAIN target[g] => t \in ScansOf(target[g].website)
               /\ "latest" \notin DOMAIN target[g] => t.id = target[g].id
  <1>1. PICK t \in scans : t.id = s.id /\ s.ts <= t.ts
    BY DEF IInv, RequestInv, ExpectedRemain
  <1>2. t.website = website[t.id] /\ t.partition = NodeOf[t.website] /\ s.website = website[s.id]
    BY DEF IInv, RequestInv, ExpectedRemain, DocumentInv, ScansAreSound
  <1>. QED
    BY <1>1, <1>2 DEF Asked, ScansOf

LEMMA FindScanKeeps ==
    ASSUME IInv, NEW g \in Gets, FindScan(g) PROVE IInv'
  <1>1. PICK s \in Matches(g) : found' = [found EXCEPT ![g] = s]
    BY DEF FindScan
  <1>. USE DEF FindScan, GetTo
  <1>2. s \in scans /\ s \in Scans /\ s # NoScan
    BY MatchesAreSound, ScanFields DEF IInv, TypeOK
  <1>3. TypeOK'
    <2>1. found' \in [Gets -> Scans \cup {NoScan}]
      BY <1>1, <1>2 DEF IInv, TypeOK
    <2>2. \A h \in Gets : getPc'[h] \in {"query", "done"} => found'[h] # NoScan
      BY <1>1, <1>2 DEF IInv, TypeOK
    <2>3. getPc' \in [Gets -> {"idle", "start", "query", "done", "notFound", "failed"}]
      BY DEF IInv, TypeOK
    <2>. QED
      BY <2>1, <2>2, <2>3 DEF IInv, TypeOK, database, post
  <1>4. DocumentInv'
    BY DocumentsKept DEF IInv
  <1>5. ASSUME NEW h \in Gets, h # g PROVE RequestInv(h)'
    BY <1>1, <1>5, OthersKept DEF IInv, TypeOK
  <1>6. RequestInv(g)'
    <2>1. /\ getPc'[g] = "query" /\ found'[g] = s /\ position'[g] = 0
          /\ collected'[g] = {} /\ ~twice'[g]
      BY <1>1 DEF IInv, TypeOK, RequestInv, FetchedInOrder
    <2>2. FoundIsSound(g)'
      BY <1>2, <2>1 DEF FoundIsSound, IInv, DocumentInv, ScansAreSound, post
    <2>3. FetchedInOrder(g)'
      BY <2>1 DEF IInv, RequestInv, FetchedInOrder, database
    <2>4. ExpectedRemain(g)'
      BY DEF IInv, RequestInv, ExpectedRemain, database, post
    <2>5. NotFoundIsRight(g)' /\ DoneIsComplete(g)'
      BY <2>1 DEF NotFoundIsRight, DoneIsComplete
    <2>6. FoundIsNewest(g)'
      <3> SUFFICES ASSUME "latest" \in DOMAIN target[g]
                   PROVE  /\ s.website = target[g].website
                          /\ \A t \in expected[g] : Asked(g, t) => t.ts <= s.ts
        BY <2>1 DEF FoundIsNewest, Asked
      <3>1. s.website = target[g].website
        BY MatchesAreSound
      <3>2. ASSUME NEW t \in expected[g], Asked(g, t) PROVE t.ts <= s.ts
        <4>1. PICK u \in scans : t.ts <= u.ts /\ u \in ScansOf(target[g].website)
          BY <3>2, ExpectedIsAmongThem
        <4>2. u.ts <= s.ts
          BY <4>1, MatchesAreSound
        <4>3. t \in Scans /\ u \in Scans
          BY DEF IInv, TypeOK
        <4>4. t.ts \in Nat /\ u.ts \in Nat /\ s.ts \in Nat
          BY <4>3, <1>2, ScanFields
        <4>. QED
          BY <4>1, <4>2, <4>4
      <3>. QED
        BY <3>1, <3>2
    <2>. QED
      BY <2>2, <2>3, <2>4, <2>5, <2>6 DEF RequestInv
  <1>. QED
    BY <1>3, <1>4, <1>5, <1>6 DEF IInv

\* A request that ends without a response.
LEMMA FindNothingKeeps ==
    ASSUME IInv, NEW g \in Gets, FindNothing(g) PROVE IInv'
  <1>. USE DEF FindNothing, GetTo
  <1>1. TypeOK'
    BY DEF IInv, TypeOK, database, post
  <1>2. DocumentInv'
    BY DocumentsKept DEF IInv
  <1>3. ASSUME NEW h \in Gets, h # g PROVE RequestInv(h)'
    BY <1>3, OthersKept DEF IInv, TypeOK
  <1>4. RequestInv(g)'
    <2>1. getPc'[g] = "notFound" /\ found[g] = NoScan
      BY DEF IInv, TypeOK, RequestInv, FoundIsSound
    <2>2. FoundIsSound(g)' /\ FoundIsNewest(g)' /\ DoneIsComplete(g)'
      BY <2>1 DEF FoundIsSound, FoundIsNewest, DoneIsComplete
    <2>3. FetchedInOrder(g)' /\ ExpectedRemain(g)'
      BY <2>1 DEF IInv, RequestInv, FetchedInOrder, ExpectedRemain, database, post
    <2>4. NotFoundIsRight(g)'
      <3> SUFFICES ASSUME NEW s \in expected[g], Asked(g, s) PROVE FALSE
        BY DEF NotFoundIsRight, Asked
      <3>1. PICK t \in scans :
                /\ "latest" \in DOMAIN target[g] => t \in ScansOf(target[g].website)
                /\ "latest" \notin DOMAIN target[g] => t.id = target[g].id
        BY ExpectedIsAmongThem
      <3>2. CASE "latest" \in DOMAIN target[g]
        <4>1. target[g].website \in Websites
          BY GetTypes, Kinds DEF IInv
        <4>2. LatestScans(target[g].website) # {}
          BY <3>1, <3>2, <4>1 DEF IInv, DocumentInv, SomeIsLatest
        <4>. QED
          BY <3>2, <4>2 DEF Matches
      <3>3. CASE "latest" \notin DOMAIN target[g]
        BY <3>1, <3>3 DEF Matches
      <3>. QED
        BY <3>2, <3>3
    <2>. QED
      BY <2>2, <2>3, <2>4 DEF RequestInv
  <1>. QED
    BY <1>1, <1>2, <1>3, <1>4 DEF IInv

LEMMA GetFailsKeeps ==
    ASSUME IInv, NEW g \in Gets, GetFails(g) PROVE IInv'
  <1>. USE DEF GetFails, GetTo
  <1>1. TypeOK'
    BY DEF IInv, TypeOK, database, post
  <1>2. DocumentInv'
    BY DocumentsKept DEF IInv
  <1>3. ASSUME NEW h \in Gets, h # g PROVE RequestInv(h)'
    BY <1>3, OthersKept DEF IInv, TypeOK
  <1>4. RequestInv(g)'
    <2>1. getPc'[g] = "failed"
      BY DEF IInv, TypeOK
    <2>2. FoundIsSound(g)' /\ NotFoundIsRight(g)' /\ FoundIsNewest(g)' /\ DoneIsComplete(g)'
      BY <2>1 DEF IInv, RequestInv, FoundIsSound, NotFoundIsRight, FoundIsNewest,
         DoneIsComplete, Asked, post
    <2>3. FetchedInOrder(g)' /\ ExpectedRemain(g)'
      BY <2>1 DEF IInv, RequestInv, FetchedInOrder, ExpectedRemain, database, post
    <2>. QED
      BY <2>2, <2>3 DEF RequestInv
  <1>. QED
    BY <1>1, <1>2, <1>3, <1>4 DEF IInv

\* What the query still has to return is all of the scan's page scans after the
\* continuation token: none is hidden from it in another partition.
LEMMA RemainingIsAll ==
    ASSUME IInv, NEW g \in Gets, getPc[g] = "query"
    PROVE  Remaining(g) =
               {i \in position[g] + 1 .. Len(pageScans) : pageScans[i].scan = found[g].id}
  <1>1. found[g].partition = NodeOf[website[found[g].id]]
    BY DEF IInv, TypeOK, RequestInv, FoundIsSound
  <1>2. position[g] \in Nat /\ Len(pageScans) \in Nat
    BY GetTypes DEF IInv
  <1>3. ASSUME NEW i \in position[g] + 1 .. Len(pageScans), pageScans[i].scan = found[g].id
        PROVE  pageScans[i].partition = found[g].partition
    <2>1. i \in 1 .. Len(pageScans)
      BY <1>2
    <2>. QED
      BY <1>1, <1>3, <2>1 DEF IInv, DocumentInv, PageScansAreSound
  <1>. QED
    BY <1>3 DEF Remaining

LEMMA FetchPageKeeps ==
    ASSUME IInv, NEW g \in Gets, FetchPage(g) PROVE IInv'
  <1>. USE DEF FetchPage
  <1>1. PICK i \in Remaining(g) :
            /\ position' = [position EXCEPT ![g] = i]
            /\ collected' = [collected EXCEPT ![g] = @ \cup UpTo(i, Remaining(g))]
            /\ twice' = [twice EXCEPT ![g] = @ \/ collected[g] \cap UpTo(i, Remaining(g)) # {}]
    BY DEF Advance
  <1> DEFINE batch == UpTo(i, Remaining(g))
  <1>2. position[g] \in Nat /\ Len(pageScans) \in Nat
    BY GetTypes DEF IInv
  <1>3. i \in position[g] + 1 .. Len(pageScans) /\ i \in 1 .. Len(pageScans) /\ i \in Nat
    BY <1>2 DEF Remaining
  <1>4. Len(pageScans) <= MaxPageScans
    BY DEF IInv, DocumentInv, PageScansAreSound
  <1>5. batch = {j \in position[g] + 1 .. i : pageScans[j].scan = found[g].id}
    <2>1. batch = {j \in position[g] + 1 .. Len(pageScans) :
                      pageScans[j].scan = found[g].id /\ j <= i}
      BY RemainingIsAll DEF UpTo
    <2>2. ASSUME NEW j
          PROVE  j \in position[g] + 1 .. i <=> j \in position[g] + 1 .. Len(pageScans) /\ j <= i
      BY <1>2, <1>3
    <2> HIDE DEF batch
    <2>. QED
      BY <2>1, <2>2
  <1>6. collected[g] = {j \in 1 .. position[g] : pageScans[j].scan = found[g].id}
    BY DEF IInv, RequestInv, FetchedInOrder
  <1>7. batch \subseteq 1 .. MaxPageScans /\ collected[g] \cap batch = {}
    <2>1. ASSUME NEW j \in position[g] + 1 .. i
          PROVE  j \in 1 .. MaxPageScans /\ j \notin 1 .. position[g]
      BY <1>2, <1>3, <1>4, Bounds
    <2> HIDE DEF batch
    <2>. QED
      BY <1>5, <1>6, <2>1
  <1>8. /\ position'[g] = i /\ collected'[g] = collected[g] \cup batch
        /\ twice'[g] = (twice[g] \/ collected[g] \cap batch # {})
    BY <1>1 DEF IInv, TypeOK
  <1>9. TypeOK'
    <2>1. position' \in [Gets -> 0 .. MaxPageScans]
      <3>1. i \in 0 .. MaxPageScans
        BY <1>2, <1>3, <1>4, Bounds
      <3>. QED
        BY <1>1, <3>1 DEF IInv, TypeOK
    <2>2. collected' \in [Gets -> SUBSET (1 .. MaxPageScans)]
      <3>1. collected[g] \cup batch \in SUBSET (1 .. MaxPageScans)
        BY <1>7 DEF IInv, TypeOK
      <3> HIDE DEF batch
      <3>2. collected' = [collected EXCEPT ![g] = collected[g] \cup batch]
        BY <1>1 DEF batch
      <3>. QED
        BY <3>1, <3>2 DEF IInv, TypeOK
    <2>3. twice' \in [Gets -> BOOLEAN]
      BY <1>1 DEF IInv, TypeOK
    <2>. QED
      BY <2>1, <2>2, <2>3 DEF IInv, TypeOK, database, post
  <1>10. DocumentInv'
    BY DocumentsKept DEF IInv
  <1>11. ASSUME NEW h \in Gets, h # g PROVE RequestInv(h)'
    BY <1>1, <1>11, OthersKept DEF IInv, TypeOK
  <1>12. RequestInv(g)'
    <2>1. FoundIsSound(g)' /\ NotFoundIsRight(g)' /\ FoundIsNewest(g)' /\ DoneIsComplete(g)'
      BY DEF IInv, RequestInv, FoundIsSound, NotFoundIsRight, FoundIsNewest, DoneIsComplete,
         Asked, post
    <2>2. FetchedInOrder(g)'
      <3>1. collected'[g] = {j \in 1 .. i : pageScans[j].scan = found[g].id}
        <4>1. ASSUME NEW j
              PROVE  j \in 1 .. i <=> j \in 1 .. position[g] \/ j \in position[g] + 1 .. i
          BY <1>2, <1>3
        <4> HIDE DEF batch
        <4>. QED
          BY <1>5, <1>6, <1>8, <4>1
      <3>2. ~twice'[g]
        BY <1>7, <1>8 DEF IInv, RequestInv, FetchedInOrder
      <3>3. i <= Len(pageScans)
        BY <1>2, <1>3
      <3>. QED
        BY <1>8, <3>1, <3>2, <3>3 DEF IInv, RequestInv, FetchedInOrder, database
    <2>3. ExpectedRemain(g)'
      BY DEF IInv, RequestInv, ExpectedRemain, database, post
    <2>. QED
      BY <2>1, <2>2, <2>3 DEF RequestInv
  <1>. QED
    BY <1>9, <1>10, <1>11, <1>12 DEF IInv

LEMMA RespondKeeps ==
    ASSUME IInv, NEW g \in Gets, Respond(g) PROVE IInv'
  <1>. USE DEF Respond, GetTo
  <1>1. TypeOK'
    BY DEF IInv, TypeOK, database, post
  <1>2. DocumentInv'
    BY DocumentsKept DEF IInv
  <1>3. ASSUME NEW h \in Gets, h # g PROVE RequestInv(h)'
    BY <1>3, OthersKept DEF IInv, TypeOK
  <1>4. RequestInv(g)'
    <2>1. getPc'[g] = "done"
      BY DEF IInv, TypeOK
    <2>2. FoundIsSound(g)' /\ NotFoundIsRight(g)' /\ FoundIsNewest(g)'
      BY <2>1 DEF IInv, RequestInv, FoundIsSound, NotFoundIsRight, FoundIsNewest, Asked, post
    <2>3. FetchedInOrder(g)' /\ ExpectedRemain(g)'
      BY <2>1 DEF IInv, RequestInv, FetchedInOrder, ExpectedRemain, database, post
    <2>4. collected[g] = {i \in 1 .. position[g] : pageScans[i].scan = found[g].id}
      BY DEF IInv, RequestInv, FetchedInOrder
    <2>5. ASSUME NEW i \in 1 .. existing[g], pageScans[i].scan = found[g].id
          PROVE  i \in collected[g]
      <3>1. /\ position[g] \in Nat /\ existing[g] \in Nat /\ Len(pageScans) \in Nat
            /\ existing[g] <= Len(pageScans)
        BY GetTypes DEF IInv, RequestInv, FetchedInOrder
      <3>2. i \notin position[g] + 1 .. Len(pageScans)
        BY <2>5, RemainingIsAll
      <3>3. i \in 1 .. position[g]
        BY <3>1, <3>2
      <3>. QED
        BY <2>4, <2>5, <3>3
    <2>6. DoneIsComplete(g)'
      BY <2>4, <2>5 DEF DoneIsComplete, database
    <2>. QED
      BY <2>2, <2>3, <2>6 DEF RequestInv
  <1>. QED
    BY <1>1, <1>2, <1>3, <1>4 DEF IInv

-------------------------------------------------------------------------------
LEMMA DocumentSteps == ASSUME IInv, DocumentStep, UNCHANGED get PROVE IInv'
  BY RequestsKept DEF IInv, DocumentStep

LEMMA Inductive == IInv /\ [Next]_vars => IInv'
  <1> SUFFICES ASSUME IInv, [Next]_vars PROVE IInv'
    OBVIOUS
  <1>1. CASE Tick
    BY <1>1, TickKeeps, DocumentSteps DEF Tick
  <1>2. ASSUME NEW w \in Websites, CreateWebsite(w) PROVE IInv'
    BY <1>2, CreateWebsiteKeeps, DocumentSteps DEF CreateWebsite
  <1>3. ASSUME NEW p \in Posts, ReadWebsite(p) PROVE IInv'
    BY <1>3, PostOnlyMoves, DocumentSteps DEF ReadWebsite
  <1>4. ASSUME NEW p \in Posts, CreateScan(p) PROVE IInv'
    BY <1>4, WriteScanKeeps, DocumentSteps DEF CreateScan
  <1>5. ASSUME NEW p \in Posts, PostFails(p) PROVE IInv'
    <2>1. CASE UNCHANGED scans
      <3>1. postPc[p] \in {"start", "found"} /\ PostTo(p, "failed")
            /\ UNCHANGED <<database, website, get>>
        BY <1>5, <2>1 DEF PostFails, database
      <3>. QED
        BY <3>1, PostOnlyMoves, DocumentSteps
    <2>2. CASE postPc[p] = "found" /\ \E n \in ScanNode(p) : scans' = scans \cup {ScanOf(p, n)}
      BY <1>5, <2>2, WriteScanKeeps, DocumentSteps DEF PostFails
    <2>. QED
      BY <1>5, <2>1, <2>2 DEF PostFails
  <1>6. ASSUME NEW s \in scans, UpdateScan(s) PROVE IInv'
    BY <1>6, UpdateScanKeeps, DocumentSteps DEF UpdateScan
  <1>7. ASSUME NEW s \in scans, NEW p \in Pages, CreatePageScan(s, p) PROVE IInv'
    BY <1>7, CreatePageScanKeeps, DocumentSteps DEF CreatePageScan
  <1>8. ASSUME NEW g \in Gets, ReceiveGet(g) \/ GetStep(g) \/ GetFails(g) PROVE IInv'
    BY <1>8, ReceiveGetKeeps, FindScanKeeps, FindNothingKeeps, FetchPageKeeps, RespondKeeps,
       GetFailsKeeps DEF GetStep
  <1>9. CASE UNCHANGED vars
    <2>1. TypeOK'
      BY <1>9 DEF IInv, TypeOK, vars, database, post, get
    <2>2. DocumentInv'
      BY <1>9, DocumentsKept DEF IInv, vars
    <2>3. ASSUME NEW g \in Gets PROVE RequestInv(g)'
      BY <1>9, OthersKept DEF IInv, vars, get
    <2>. QED
      BY <2>1, <2>2, <2>3 DEF IInv
  <1>. QED
    BY <1>1, <1>2, <1>3, <1>4, <1>5, <1>6, <1>7, <1>8, <1>9 DEF Next, PostStep

\* The invariant holds for any websites, POSTs, scanners and GETs, and any bounds.
THEOREM Invariance == Spec => []IInv
  <1>1. Init => IInv
    BY Initially
  <1>2. IInv /\ [Next]_vars => IInv'
    BY Inductive
  <1>. QED
    BY <1>1, <1>2, PTL DEF Spec

\* Every state is well typed, and a request that queries page scans has found a scan.
THEOREM TypeCorrect == Spec => []TypeOK
  <1>1. IInv => TypeOK
    BY DEF IInv
  <1>. QED
    BY <1>1, Invariance, PTL

\* GET finds every scan whose POST was answered before, by its id and as the latest one,
\* because the id of a scan takes over the node of its website's id (guid-generator.ts,
\* lines 25-40).
THEOREM ScansAreFound == Spec => []AcknowledgedScanFound
  <1>1. IInv => AcknowledgedScanFound
    BY DEF IInv, RequestInv, NotFoundIsRight, AcknowledgedScanFound
  <1>. QED
    BY <1>1, Invariance, PTL

\* The scan returned as the latest is of the website asked for, and none acknowledged
\* before was written last in a later second (website-scan-provider.ts, lines 76-111).
THEOREM LatestIsRight == Spec => []LatestIsNewest
  <1>1. IInv => LatestIsNewest
    BY DEF IInv, RequestInv, FoundIsNewest, LatestIsNewest
  <1>. QED
    BY <1>1, Invariance, PTL

\* Fetching page by page loses no page scan that existed and returns none twice,
\* whatever the scanner writes meanwhile (page-scan-provider.ts, lines 51-72).
THEOREM ResponsesAreComplete == Spec => []ResponseComplete
  <1>1. IInv => ResponseComplete
    BY DEF IInv, RequestInv, FetchedInOrder, DoneIsComplete, ResponseComplete
  <1>. QED
    BY <1>1, Invariance, PTL
===============================================================================
