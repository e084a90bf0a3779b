----------------------------- MODULE ToolsProofs -----------------------------
(***************************************************************************)
(* Proofs about the parts around the trace path that keep a record or      *)
(* drive a target: DocsConvert, for any number of PDFs, edits and runs;    *)
(* Postmortem, for any exceptions, resets and dumps; JtagBridge, for any   *)
(* client; WatchBoard, for any request and text; DmaRing, for a ring of    *)
(* any size and any set of buffers.                                        *)
(***************************************************************************)
EXTENDS DocsConvert, Postmortem, JtagBridge, WatchBoard, DmaRing, SequenceTheorems,
        FiniteSetTheorems, WellFoundedInduction, TLAPS

-----------------------------------------------------------------------------
(***************************************************************************)
(* Induction over numbers, and recursive functions                         *)
(***************************************************************************)
\* A set of numbers has a least one.
LEMMA LeastOne ==
  \A T \in SUBSET Nat : T # {} => \E x \in T : \A y \in T : x <= y
<1> DEFINE R == OpToRel(<, Nat)
<1>1. IsWellFoundedOn(R, Nat)
  BY NatLessThanWellFounded
<1> SUFFICES ASSUME NEW T \in SUBSET Nat, T # {} PROVE \E x \in T : \A y \in T : x <= y
  OBVIOUS
<1>2. \E x \in T : \A y \in T : ~ (<<y, x>> \in R)
  <2> HIDE DEF R
  <2> QED
    BY <1>1, WFMin
<1>3. \A x, y \in Nat : ~(<<y, x>> \in R) => x <= y
  BY DEF OpToRel
<1> QED
  BY <1>2, <1>3

\* What holds of m and goes on from each number below n to the next, holds of n.
LEMMA UpTo ==
  ASSUME NEW T \in SUBSET Nat, NEW m \in Nat, NEW n \in Nat, m <= n, m \in T,
         \A k \in Nat : m <= k /\ k < n /\ k \in T => k + 1 \in T
  PROVE  n \in T
<1> SUFFICES ASSUME n \notin T PROVE FALSE
  OBVIOUS
<1> DEFINE missing == {k \in Nat : m <= k /\ k <= n /\ k \notin T}
<1>1. missing \in SUBSET Nat /\ missing # {}
  BY n \in missing
<1>2. PICK x \in missing : \A y \in missing : x <= y
  BY <1>1, LeastOne
<1>3. x \in Nat /\ m <= x /\ x <= n /\ x \notin T /\ x # m
  BY <1>2
<1>4. x - 1 \in Nat /\ m <= x - 1 /\ x - 1 < n /\ ~(x <= x - 1)
  BY <1>3
<1>5. x - 1 \in T
  BY <1>2, <1>4
<1>6. (x - 1) + 1 \in T
  BY <1>4, <1>5
<1> QED
  BY <1>3, <1>6

\* The function on 0 .. n that begins with a and goes on as G says.
IsRecursive(h, n, a, G) ==
  /\ h = [k \in 0 .. n |-> h[k]]
  /\ h[0] = a /\ \A k \in 1 .. n : h[k] = G[<<k, h[k - 1]>>]

LEMMA RecursiveFunction ==
  ASSUME NEW S, NEW a \in S, NEW G \in [Nat \X S -> S], NEW n \in Nat
  PROVE  \E h : IsRecursive(h, n, a, G) /\ \A k \in 0 .. n : h[k] \in S
<1> DEFINE Is(h, m) == IsRecursive(h, m, a, G) /\ \A k \in 0 .. m : h[k] \in S
           T == {m \in Nat : \E h : Is(h, m)}
<1>1. 0 \in T
  <2> DEFINE h == [k \in 0 .. 0 |-> a]
  <2>1. Is(h, 0)
    BY DEF IsRecursive
  <2> QED
    BY <2>1
<1>2. ASSUME NEW m \in Nat, m \in T PROVE m + 1 \in T
  <2>1. PICK g : Is(g, m)
    BY <1>2
  <2> DEFINE h == [k \in 0 .. m + 1 |-> IF k = m + 1 THEN G[<<k, g[m]>>] ELSE g[k]]
  <2>2. \A k \in 0 .. m : h[k] = g[k]
    OBVIOUS
  <2>3. h[m + 1] = G[<<m + 1, g[m]>>]
    OBVIOUS
  <2>4. h = [k \in 0 .. m + 1 |-> h[k]]
    OBVIOUS
  <2> HIDE DEF h
  <2>5. h[0] = a /\ m \in 0 .. m /\ g[m] \in S
    BY <2>1, <2>2 DEF IsRecursive
  <2>6. ASSUME NEW k \in 1 .. m + 1 PROVE h[k] = G[<<k, h[k - 1]>>]
    <3>1. CASE k = m + 1
      BY <2>2, <2>3, <2>5, <3>1
    <3>2. CASE k # m + 1
      <4>1. k \in 0 .. m /\ k \in 1 .. m /\ k - 1 \in 0 .. m
        BY <3>2
      <4> QED
        BY <2>1, <2>2, <4>1 DEF IsRecursive
    <3> QED
      BY <3>1, <3>2
  <2>7. ASSUME NEW k \in 0 .. m + 1 PROVE h[k] \in S
    <3>1. CASE k = m + 1
      <4>1. <<m + 1, g[m]>> \in Nat \X S
        BY <2>5
      <4> QED
        BY <2>3, <3>1, <4>1
    <3>2. CASE k # m + 1
      <4>1. k \in 0 .. m
        BY <3>2
      <4> QED
        BY <2>1, <2>2, <4>1
    <3> QED
      BY <3>1, <3>2
  <2>8. Is(h, m + 1)
    BY <2>4, <2>5, <2>6, <2>7 DEF IsRecursive
  <2> HIDE DEF Is
  <2> QED
    BY <2>8
<1>3. T \in SUBSET Nat /\ 0 \in Nat /\ 0 <= n
  OBVIOUS
<1> HIDE DEF T
<1>4. n \in T
  BY <1>1, <1>2, <1>3, UpTo
<1> QED
  BY <1>4 DEF T

-----------------------------------------------------------------------------
(***************************************************************************)
(* The cache of the converter                                              *)
(***************************************************************************)
Writing == {"text"} \cup FileNames
Points == {"idle", "clean", "next", "done"} \cup Writing

ConvertType ==
  [at : Points, todo : Seq(Documents), cached : [Documents -> Int],
   documents : [Documents -> Int], sha256 : Nat, text : Nat, quiet : BOOLEAN]

ConvertTypeOK ==
  /\ source \in [Documents -> Nat \ {0}]
  /\ written \in [Documents -> [FileNames -> Int]]
  /\ manifest \in [Documents -> Int]
  /\ convert \in ConvertType
  /\ halfClean \in BOOLEAN /\ runs \in Nat
  /\ restored \in [Documents -> BOOLEAN] /\ disturbed \in BOOLEAN
  /\ seen \in [Documents -> SUBSET Nat]

\* A version that the manifest or a run has taken down is one the PDF has had.
OnlyOfThePast ==
  \A d \in Documents :
    /\ source[d] \in seen[d]
    /\ manifest[d] \in seen[d] \cup {Absent, Torn}
    /\ convert.documents[d] \in seen[d] \cup {Absent, Torn}
    /\ convert.at \in Writing /\ d = Pdf => convert.sha256 \in seen[d]

\* While PDFs are left the cache is the manifest, or empty where that does not parse.
CacheIsManifest ==
  convert.at \in {"next"} \cup Writing /\ convert.todo # <<>> =>
    \A d \in Documents :
      \/ convert.cached[d] = manifest[d]
      \/ convert.cached[d] = Absent /\ manifest[d] = Torn

\* The history does not excuse what the manifest says of the document.
Trusted(d) == ~halfClean /\ ~(restored[d] /\ disturbed)

\* A document is only written when the manifest does not have its PDF as it is.
\* Should its entry be right in spite of that, its text is the PDF as it is.
WrittenForAReason ==
  convert.at \in Writing =>
    /\ convert.todo # <<>>
    /\ Trusted(Pdf) =>
         /\ manifest[Pdf] # source[Pdf]
         /\ convert.at # "text" =>
              (source[Pdf] \in {convert.sha256, convert.documents[Pdf]} =>
                 convert.text = source[Pdf])

\* The files before the one that is being written hold the text.
FilesSoFar ==
  \A i \in 1 .. Len(Files) : convert.at = Files[i] =>
    \A j \in 1 .. i - 1 : written[Pdf][Files[j]] = convert.text

\* What the manifest says of a PDF that has not changed, and what it is going to
\* say, is true.
EntriesTrue ==
  \A d \in Documents : Trusted(d) =>
    (source[d] \in {manifest[d], convert.documents[d]} => Fresh(d))

\* Between runs none of which was disturbed, the files are those of the manifest,
\* whatever the PDFs are now.
FilesAreTheManifests ==
  convert.at = "idle" /\ ~halfClean /\ ~disturbed =>
    \A d \in Documents : manifest[d] > Absent =>
      \A f \in FileNames : written[d][f] = manifest[d]

\* A PDF replaced under a run is remembered by the run and by the history.
EditsNoticed ==
  /\ convert.at \in {"idle", "clean"} => convert.quiet
  /\ ~disturbed => convert.quiet

\* Every PDF of a quiet run has had its turn, or is still in the list; while one is
\* written, its hash is that of the PDF.
NoneForgotten ==
  convert.quiet /\ convert.at # "idle" =>
    /\ convert.at \in Writing => convert.sha256 = source[Pdf]
    /\ \A d \in Documents :
         \/ convert.documents[d] = source[d]
         \/ \E i \in 1 .. Len(convert.todo) : convert.todo[i] = d

\* A clean run has no cache, and its end has written the manifest.
RunEnds ==
  /\ convert.at = "clean" =>
       halfClean /\ convert.cached = NoEntries /\ convert.documents = NoEntries
  /\ convert.at = "done" => manifest = convert.documents /\ convert.todo = <<>>
  /\ convert.at = "idle" => convert.documents = NoEntries

\* The inductive invariant.
ConvertInv ==
  /\ ConvertTypeOK /\ OnlyOfThePast /\ CacheIsManifest /\ WrittenForAReason /\ FilesSoFar
  /\ EntriesTrue /\ FilesAreTheManifests /\ EditsNoticed /\ NoneForgotten /\ RunEnds

-----------------------------------------------------------------------------
LEMMA FilesAre ==
  /\ Len(Files) = 3
  /\ Files[1] = "document.md" /\ Files[2] = "category.md" /\ Files[3] = "index.md"
  /\ FileNames = {"document.md", "category.md", "index.md"}
  /\ \A i \in 1 .. Len(Files) : Files[i] \in FileNames /\ Files[i] \in Writing
  /\ \A i, j \in 1 .. Len(Files) : Files[i] = Files[j] => i = j
<1>1. /\ Len(Files) = 3
      /\ Files[1] = "document.md" /\ Files[2] = "category.md" /\ Files[3] = "index.md"
  BY DEF Files
<1>2. FileNames = {Files[1], Files[2], Files[3]}
  BY <1>1 DEF FileNames
<1>3. \A i \in 1 .. 3 : i = 1 \/ i = 2 \/ i = 3
  OBVIOUS
<1>4. \A i, j \in 1 .. 3 : Files[i] = Files[j] => i = j
  BY <1>1, <1>3
<1> QED
  BY <1>1, <1>2, <1>4 DEF Writing

LEMMA StoppedType == Stopped \in ConvertType
<1>1. <<>> \in Seq(Documents)
  BY EmptySeq
<1> QED
  BY <1>1 DEF Stopped, ConvertType, Points, NoEntries, Absent

\* The PDF whose turn it is, and the rest of the list.
LEMMA PdfType ==
  ASSUME ConvertTypeOK, convert.todo # <<>>
  PROVE  /\ Pdf \in Documents /\ Pdf = convert.todo[1]
         /\ Tail(convert.todo) \in Seq(Documents)
         /\ Len(Tail(convert.todo)) = Len(convert.todo) - 1 /\ Len(convert.todo) \in Nat
         /\ \A i \in 1 .. Len(Tail(convert.todo)) : Tail(convert.todo)[i] = convert.todo[i + 1]
<1>1. convert.todo \in Seq(Documents)
  BY DEF ConvertTypeOK, ConvertType
<1> QED
  BY <1>1, HeadTailProperties, LenProperties DEF Pdf

\* When the PDF at the head has had its turn, none is forgotten.
LEMMA TurnTaken ==
  ASSUME ConvertTypeOK, NoneForgotten, convert.todo # <<>>, convert.at # "idle",
         NEW entry \in Int, convert.quiet => entry = source[Pdf],
         source' = source, convert'.quiet = convert.quiet, convert'.at = "next",
         convert'.todo = Tail(convert.todo),
         convert'.documents = [convert.documents EXCEPT ![Pdf] = entry]
  PROVE  NoneForgotten'
<1> SUFFICES ASSUME convert.quiet, NEW d \in Documents, convert'.documents[d] # source[d]
             PROVE  \E i \in 1 .. Len(convert'.todo) : convert'.todo[i] = d
  BY DEF NoneForgotten, Writing, FileNames, Files
<1>1. d # Pdf /\ convert'.documents[d] = convert.documents[d]
  BY PdfType DEF ConvertTypeOK, ConvertType
<1>2. PICK i \in 1 .. Len(convert.todo) : convert.todo[i] = d
  BY <1>1 DEF NoneForgotten
<1>3. i # 1 /\ i - 1 \in 1 .. Len(Tail(convert.todo)) /\ Tail(convert.todo)[i - 1] = d
  BY <1>1, <1>2, PdfType
<1> QED
  BY <1>3

-----------------------------------------------------------------------------
LEMMA ConvertInitInv == ConvertInit => ConvertInv
<1> SUFFICES ASSUME ConvertInit PROVE ConvertInv
  OBVIOUS
<1>1. ConvertTypeOK
  <2>1. /\ [f \in FileNames |-> Absent] \in [FileNames -> Int]
        /\ NoEntries \in [Documents -> Int]
    BY DEF NoEntries, Absent
  <2>2. source \in [Documents -> Nat \ {0}]
    BY VersionsAssumption DEF ConvertInit, Absent
  <2>3. seen \in [Documents -> SUBSET Nat] /\ restored \in [Documents -> BOOLEAN]
    BY <2>2 DEF ConvertInit
  <2> QED
    BY <2>1, <2>2, <2>3, StoppedType DEF ConvertInit, ConvertTypeOK
<1>2. OnlyOfThePast /\ CacheIsManifest /\ WrittenForAReason
  BY DEF ConvertInit, Stopped, NoEntries, Absent, OnlyOfThePast, CacheIsManifest, Writing,
         WrittenForAReason, FileNames, Files
<1>3. EntriesTrue /\ FilesAreTheManifests
  BY <1>1 DEF ConvertInit, ConvertTypeOK, Stopped, NoEntries, Absent, EntriesTrue,
              FilesAreTheManifests
<1>4. EditsNoticed /\ NoneForgotten /\ RunEnds
  BY DEF ConvertInit, Stopped, EditsNoticed, NoneForgotten, RunEnds
<1>5. FilesSoFar
  BY FilesAre DEF ConvertInit, Stopped, FilesSoFar
<1> QED
  BY <1>1, <1>2, <1>3, <1>4, <1>5 DEF ConvertInv

\* A PDF that does not go back gets a version that nobody has taken down; one that
\* does is excused, unless all runs were undisturbed and the files are the
\* manifest's.
LEMMA EditStep == ASSUME ConvertInv, Edit PROVE ConvertInv'
<1>1. PICK e \in Documents, v \in Versions :
        /\ v # source[e]
        /\ source' = [source EXCEPT ![e] = v]
        /\ restored' = [restored EXCEPT ![e] = @ \/ v \in seen[e]]
        /\ seen' = [seen EXCEPT ![e] = @ \cup {v}]
  BY DEF Edit
<1>2. /\ UNCHANGED <<written, manifest, runs, halfClean>>
      /\ disturbed' = (disturbed \/ AtPdfs)
      /\ convert' = [convert EXCEPT !.quiet = @ /\ ~AtPdfs]
  BY DEF Edit
<1>3. v \in Nat \ {0}
  BY VersionsAssumption DEF Absent
<1>4. /\ convert' \in ConvertType
      /\ convert'.at = convert.at /\ convert'.todo = convert.todo
      /\ convert'.cached = convert.cached /\ convert'.documents = convert.documents
      /\ convert'.sha256 = convert.sha256 /\ convert'.text = convert.text
      /\ convert'.quiet = (convert.quiet /\ ~AtPdfs)
      /\ Pdf' = Pdf
  BY <1>2 DEF ConvertInv, ConvertTypeOK, ConvertType, Pdf
<1>5. ConvertTypeOK'
  <2>1. source' \in [Documents -> Nat \ {0}] /\ seen' \in [Documents -> SUBSET Nat]
    BY <1>1, <1>3 DEF ConvertInv, ConvertTypeOK
  <2>2. restored' \in [Documents -> BOOLEAN]
    BY <1>1 DEF ConvertInv, ConvertTypeOK
  <2>3. disturbed' \in BOOLEAN
    BY <1>2 DEF ConvertInv, ConvertTypeOK
  <2> QED
    BY <1>2, <1>4, <2>1, <2>2, <2>3 DEF ConvertInv, ConvertTypeOK
<1>6. /\ source'[e] = v /\ seen'[e] = seen[e] \cup {v}
      /\ restored'[e] = (restored[e] \/ v \in seen[e])
      /\ \A d \in Documents : d # e =>
           source'[d] = source[d] /\ seen'[d] = seen[d] /\ restored'[d] = restored[d]
  BY <1>1 DEF ConvertInv, ConvertTypeOK
<1>7. OnlyOfThePast'
  BY <1>2, <1>4, <1>6 DEF ConvertInv, OnlyOfThePast
\* What is still trusted was before.
<1>8. \A d \in Documents : Trusted(d)' => Trusted(d)
  <2>1. \A d \in Documents : restored[d] => restored'[d]
    BY <1>6
  <2>2. disturbed => disturbed'
    BY <1>2
  <2> QED
    BY <1>2, <2>1, <2>2 DEF Trusted
\* When a run is at the PDFs, a version that is trusted is a new one.
<1>9. ASSUME Trusted(e)', disturbed'
      PROVE  /\ manifest[e] # v /\ convert.documents[e] # v
             /\ convert.at \in Writing /\ e = Pdf => convert.sha256 # v
  <2>1. v \notin seen[e]
    BY <1>6, <1>9 DEF Trusted
  <2>2. v # Absent /\ v # Torn
    BY <1>3 DEF Absent, Torn
  <2> QED
    BY <2>1, <2>2 DEF ConvertInv, OnlyOfThePast
<1>10. convert.at \in Writing => AtPdfs /\ disturbed'
  <2>1. convert.at \in Writing => AtPdfs
    BY DEF AtPdfs, Writing, FileNames, Files
  <2> QED
    BY <1>2, <2>1, Zenon
<1>11. WrittenForAReason'
  <2> SUFFICES ASSUME convert.at \in Writing, Trusted(Pdf)'
               PROVE  /\ manifest[Pdf] # source'[Pdf]
                      /\ convert.at # "text" =>
                           (source'[Pdf] \in {convert.sha256, convert.documents[Pdf]} =>
                              convert.text = source'[Pdf])
    <3>1. convert.at \in Writing => convert.todo # <<>>
      BY DEF ConvertInv, WrittenForAReason
    <3>2. Trusted(Pdf)' <=> ~halfClean' /\ ~(restored'[Pdf'] /\ disturbed')
      BY DEF Trusted
    <3> QED
      BY <1>2, <1>4, <3>1, <3>2 DEF WrittenForAReason, Trusted
  <2>1. Pdf \in Documents
    BY PdfType DEF ConvertInv, WrittenForAReason
  <2>2. CASE Pdf = e
    <3>1. Trusted(e)' /\ disturbed'
      BY <1>4, <1>10, <2>2 DEF Trusted
    <3>2. /\ manifest[Pdf] # v /\ convert.documents[Pdf] # v /\ convert.sha256 # v
          /\ source'[Pdf] = v
      BY <1>6, <1>9, <2>2, <3>1
    <3> QED
      BY <3>2
  <2>3. CASE Pdf # e
    <3>1. source'[Pdf] = source[Pdf] /\ Trusted(Pdf)
      BY <1>4, <1>6, <1>8, <2>1, <2>3
    <3> QED
      BY <3>1 DEF ConvertInv, WrittenForAReason
  <2> QED
    BY <2>2, <2>3
<1>12. EntriesTrue'
  <2> SUFFICES ASSUME NEW d \in Documents, Trusted(d)',
                      source'[d] \in {manifest[d], convert.documents[d]}
               PROVE  \A f \in FileNames : written[d][f] = source'[d]
    BY <1>2, <1>4 DEF EntriesTrue, Fresh
  <2>1. CASE disturbed'
    <3>1. d # e
      BY <1>6, <1>9, <2>1
    <3> QED
      BY <1>6, <1>8, <3>1 DEF ConvertInv, EntriesTrue, Fresh
  <2>2. CASE ~disturbed'
    <3>1. ~disturbed /\ ~AtPdfs /\ ~halfClean
      BY <1>2, <2>2 DEF Trusted
    <3>2. convert.at = "idle"
      BY <3>1 DEF AtPdfs, ConvertInv, RunEnds
    <3>3. convert.documents[d] = Absent
      BY <3>2 DEF ConvertInv, RunEnds, NoEntries
    <3>4. source'[d] \in Nat \ {0}
      BY <1>5 DEF ConvertTypeOK
    <3>5. manifest[d] = source'[d] /\ manifest[d] > Absent
      BY <3>3, <3>4 DEF Absent
    <3> QED
      BY <3>1, <3>2, <3>5 DEF ConvertInv, FilesAreTheManifests
  <2> QED
    BY <2>1, <2>2
<1>13. CacheIsManifest' /\ FilesSoFar'
  BY <1>2, <1>4 DEF ConvertInv, CacheIsManifest, FilesSoFar
<1>14. FilesAreTheManifests'
  BY <1>2, <1>4 DEF ConvertInv, FilesAreTheManifests
<1>15. EditsNoticed'
  BY <1>2, <1>4 DEF ConvertInv, EditsNoticed, AtPdfs
<1>16. NoneForgotten'
  <2>1. ASSUME convert.quiet, convert.at = "clean", NEW d \in Documents
        PROVE  \E i \in 1 .. Len(convert.todo) : convert.todo[i] = d
    <3>1. convert.documents[d] = Absent /\ source[d] # Absent
      BY <2>1 DEF ConvertInv, RunEnds, NoEntries, ConvertTypeOK, Absent
    <3> QED
      BY <2>1, <3>1 DEF ConvertInv, NoneForgotten
  <2> QED
    BY <1>4, <1>10, <2>1 DEF NoneForgotten, AtPdfs
<1>17. RunEnds'
  BY <1>2, <1>4 DEF ConvertInv, RunEnds
<1> QED
  BY <1>5, <1>7, <1>11, <1>12, <1>13, <1>14, <1>15, <1>16, <1>17 DEF ConvertInv

\* The cache of a new run is the manifest, or empty.
LEMMA StartStep == ASSUME ConvertInv, StartConvert PROVE ConvertInv'
<1>1. PICK clean \in BOOLEAN :
        /\ halfClean' = (halfClean \/ clean)
        /\ convert' = [Stopped EXCEPT
             !.at = IF clean THEN "clean" ELSE "next",
             !.todo = Pdfs,
             !.cached = IF clean \/ manifest = Unreadable THEN NoEntries ELSE manifest]
  BY DEF StartConvert
<1>2. /\ UNCHANGED <<source, written, manifest, seen, restored, disturbed>>
      /\ runs' = runs + 1
  BY DEF StartConvert
<1>3. /\ convert'.at = IF clean THEN "clean" ELSE "next"
      /\ convert'.todo = Pdfs
      /\ convert'.cached = IF clean \/ manifest = Unreadable THEN NoEntries ELSE manifest
      /\ convert'.documents = NoEntries /\ convert'.quiet
  BY <1>1 DEF Stopped
<1>4. convert' \in ConvertType
  <2>1. NoEntries \in [Documents -> Int]
    BY DEF NoEntries, Absent
  <2> QED
    BY <1>1, <2>1, PdfsAssumption DEF Stopped, ConvertType, Points, ConvertInv, ConvertTypeOK
<1>5. ConvertTypeOK'
  BY <1>1, <1>2, <1>4 DEF ConvertInv, ConvertTypeOK
<1>6. convert'.at \notin Writing
  BY <1>3 DEF Writing, FileNames, Files
<1>7. OnlyOfThePast'
  BY <1>2, <1>3, <1>6 DEF ConvertInv, OnlyOfThePast, NoEntries
<1>8. EntriesTrue'
  <2>1. \A d \in Documents : Trusted(d)' => Trusted(d)
    BY <1>1, <1>2 DEF Trusted
  <2>2. \A d \in Documents : source[d] # convert'.documents[d]
    BY <1>3 DEF NoEntries, Absent, ConvertInv, ConvertTypeOK
  <2> QED
    BY <1>2, <2>1, <2>2 DEF ConvertInv, EntriesTrue, Fresh
<1>9. CacheIsManifest' /\ WrittenForAReason'
  BY <1>2, <1>3, <1>6 DEF CacheIsManifest, WrittenForAReason, NoEntries, Unreadable
<1>10. FilesSoFar'
  BY <1>3, FilesAre DEF FilesSoFar
<1>11. FilesAreTheManifests' /\ EditsNoticed'
  BY <1>3 DEF FilesAreTheManifests, EditsNoticed
<1>12. NoneForgotten'
  BY <1>2, <1>3, <1>6 DEF NoneForgotten, Documents
<1>13. RunEnds'
  BY <1>1, <1>3 DEF RunEnds
<1> QED
  BY <1>5, <1>7, <1>8, <1>9, <1>10, <1>11, <1>12, <1>13 DEF ConvertInv

\* What a clean run removes is only judged when all of it is gone.
LEMMA CleanStep == ASSUME ConvertInv, RemoveFile \/ Removed PROVE ConvertInv'
<1>0. /\ convert.at = "clean" /\ halfClean
      /\ convert.cached = NoEntries /\ convert.documents = NoEntries
  BY DEF RemoveFile, Removed, ConvertInv, RunEnds
<1>1. CASE RemoveFile
  <2>1. /\ manifest' = NoEntries \/ manifest' = manifest
        /\ UNCHANGED <<source, convert, runs, convertHistory>>
    BY <1>1 DEF RemoveFile
  <2>2. written' \in [Documents -> [FileNames -> Int]]
    <3>1. CASE UNCHANGED written
      BY <3>1 DEF ConvertInv, ConvertTypeOK
    <3>2. ASSUME NEW d \in Documents, NEW f \in FileNames,
                 written' = [written EXCEPT ![d][f] = Absent]
          PROVE  written' \in [Documents -> [FileNames -> Int]]
      BY <3>2 DEF ConvertInv, ConvertTypeOK, Absent
    <3> QED
      BY <1>1, <3>1, <3>2 DEF RemoveFile
  <2>3. ConvertTypeOK'
    BY <2>1, <2>2 DEF ConvertInv, ConvertTypeOK, NoEntries, Absent, convertHistory
  <2>4. OnlyOfThePast'
    BY <2>1 DEF ConvertInv, OnlyOfThePast, NoEntries, Pdf, convertHistory
  <2>5. CacheIsManifest' /\ WrittenForAReason' /\ RunEnds'
    <3>1. convert'.at = "clean" /\ convert'.at \notin Writing
      BY <1>0, <2>1 DEF Writing, FileNames, Files
    <3> QED
      BY <1>0, <2>1, <3>1 DEF CacheIsManifest, WrittenForAReason, RunEnds, convertHistory
  <2>6. FilesSoFar'
    BY <1>0, <2>1, FilesAre DEF FilesSoFar
  <2>7. EntriesTrue' /\ FilesAreTheManifests'
    BY <1>0, <2>1 DEF EntriesTrue, FilesAreTheManifests, Trusted, convertHistory
  <2>8. EditsNoticed' /\ NoneForgotten'
    BY <2>1 DEF ConvertInv, EditsNoticed, NoneForgotten, Pdf, convertHistory
  <2> QED
    BY <2>3, <2>4, <2>5, <2>6, <2>7, <2>8 DEF ConvertInv
<1>2. CASE Removed
  <2>1. /\ convert' = [convert EXCEPT !.at = "next"]
        /\ manifest = NoEntries
        /\ halfClean' = FALSE /\ disturbed' = FALSE
        /\ seen' = [d \in Documents |-> {source[d]}]
        /\ restored' = [d \in Documents |-> FALSE]
        /\ UNCHANGED <<source, written, manifest, runs>>
    BY <1>2 DEF Removed
  <2>2. /\ convert' \in ConvertType
        /\ convert'.at = "next" /\ convert'.todo = convert.todo
        /\ convert'.cached = convert.cached /\ convert'.documents = convert.documents
        /\ convert'.quiet = convert.quiet
    BY <2>1 DEF ConvertType, Points, ConvertInv, ConvertTypeOK
  <2>3. ConvertTypeOK'
    <3>1. seen' \in [Documents -> SUBSET Nat] /\ restored' \in [Documents -> BOOLEAN]
      BY <2>1 DEF ConvertInv, ConvertTypeOK
    <3> QED
      BY <2>1, <2>2, <3>1 DEF ConvertInv, ConvertTypeOK
  <2>4. convert'.at \notin Writing
    BY <2>2 DEF Writing, FileNames, Files
  <2>5. OnlyOfThePast'
    BY <1>0, <2>1, <2>2, <2>4 DEF OnlyOfThePast, NoEntries
  <2>6. CacheIsManifest' /\ WrittenForAReason'
    BY <1>0, <2>1, <2>2, <2>4 DEF CacheIsManifest, WrittenForAReason
  <2>7. FilesSoFar'
    BY <2>2, FilesAre DEF FilesSoFar
  <2>8. EntriesTrue'
    <3>1. \A d \in Documents : source[d] # Absent
      BY DEF ConvertInv, ConvertTypeOK, Absent
    <3> QED
      BY <1>0, <2>1, <2>2, <3>1 DEF EntriesTrue, NoEntries
  <2>9. FilesAreTheManifests' /\ RunEnds'
    BY <2>2 DEF FilesAreTheManifests, RunEnds
  <2>10. EditsNoticed'
    BY <1>0, <2>2 DEF ConvertInv, EditsNoticed
  <2>11. NoneForgotten'
    BY <1>0, <2>1, <2>2, <2>4 DEF ConvertInv, NoneForgotten
  <2> QED
    BY <2>3, <2>5, <2>6, <2>7, <2>8, <2>9, <2>10, <2>11 DEF ConvertInv
<1> QED
  BY <1>1, <1>2

\* A PDF is skipped with the entry the cache has for it, which is that of the
\* manifest, or found to be another than both.
LEMMA HashStep == ASSUME ConvertInv, HashPdf PROVE ConvertInv'
<1> DEFINE hash == source[Pdf]
<1>0. /\ convert.at = "next" /\ convert.todo # <<>>
      /\ UNCHANGED <<source, written, manifest, runs, halfClean, seen, restored, disturbed>>
      /\ Pdf \in Documents /\ hash \in Nat \ {0} /\ hash \in seen[Pdf]
      /\ convert.cached[Pdf] \in Int /\ manifest[Pdf] \in Int
      /\ ConvertTypeOK /\ NoneForgotten /\ OnlyOfThePast
  BY PdfType DEF HashPdf, ConvertInv, ConvertTypeOK, ConvertType, OnlyOfThePast, convertHistory
<1>1. CASE convert.cached[Pdf] = hash
  <2>1. convert' = [convert EXCEPT !.todo = Tail(@), !.documents[Pdf] = hash]
    BY <1>0, <1>1 DEF HashPdf, Unchanged
  <2>2. /\ convert' \in ConvertType
        /\ convert'.at = "next" /\ convert'.todo = Tail(convert.todo)
        /\ convert'.cached = convert.cached /\ convert'.quiet = convert.quiet
        /\ convert'.documents = [convert.documents EXCEPT ![Pdf] = hash]
    <3>1. /\ Tail(convert.todo) \in Seq(Documents)
          /\ [convert.documents EXCEPT ![Pdf] = hash] \in [Documents -> Int]
      BY <1>0, PdfType DEF ConvertTypeOK, ConvertType
    <3> QED
      BY <1>0, <2>1, <3>1 DEF ConvertTypeOK, ConvertType
  <2>3. ConvertTypeOK'
    BY <1>0, <2>2 DEF ConvertTypeOK
  <2>4. convert'.at \notin Writing
    BY <2>2 DEF Writing, FileNames, Files
  <2>5. OnlyOfThePast'
    BY <1>0, <2>2, <2>4 DEF OnlyOfThePast, ConvertTypeOK, ConvertType
  <2>6. CacheIsManifest'
    BY <1>0, <2>2 DEF ConvertInv, CacheIsManifest
  <2>7. WrittenForAReason' /\ FilesAreTheManifests' /\ RunEnds'
    BY <2>2, <2>4 DEF WrittenForAReason, FilesAreTheManifests, RunEnds
  <2>8. FilesSoFar'
    BY <2>2, FilesAre DEF FilesSoFar
  <2>9. Trusted(Pdf) => Fresh(Pdf)
    <3>1. manifest[Pdf] = hash
      BY <1>0, <1>1 DEF ConvertInv, CacheIsManifest, Absent
    <3> QED
      BY <1>0, <3>1 DEF ConvertInv, EntriesTrue
  <2>10. EntriesTrue'
    <3> SUFFICES ASSUME NEW d \in Documents, Trusted(d),
                        source[d] \in {manifest[d], convert'.documents[d]}
                 PROVE  Fresh(d)
      BY <1>0 DEF EntriesTrue, Trusted, Fresh
    <3>1. CASE d = Pdf
      BY <2>9, <3>1
    <3>2. CASE d # Pdf
      <4>1. convert'.documents[d] = convert.documents[d]
        BY <1>0, <2>2, <3>2 DEF ConvertTypeOK, ConvertType
      <4> QED
        BY <4>1 DEF ConvertInv, EntriesTrue
    <3> QED
      BY <3>1, <3>2
  <2>11. EditsNoticed'
    BY <1>0, <2>2 DEF ConvertInv, EditsNoticed
  <2>12. NoneForgotten'
    BY <1>0, <2>2, TurnTaken
  <2> QED
    BY <2>3, <2>5, <2>6, <2>7, <2>8, <2>10, <2>11, <2>12 DEF ConvertInv
<1>2. CASE convert.cached[Pdf] # hash
  <2>1. convert' = [convert EXCEPT !.at = "text", !.sha256 = hash]
    BY <1>0, <1>2 DEF HashPdf, Unchanged
  <2>2. /\ convert' \in ConvertType
        /\ convert'.at = "text" /\ convert'.todo = convert.todo /\ convert'.sha256 = hash
        /\ convert'.cached = convert.cached /\ convert'.quiet = convert.quiet
        /\ convert'.documents = convert.documents
        /\ Pdf' = Pdf
    BY <1>0, <2>1 DEF ConvertTypeOK, ConvertType, Points, Writing, Pdf
  <2>3. ConvertTypeOK'
    BY <1>0, <2>2 DEF ConvertTypeOK
  <2>4. OnlyOfThePast'
    BY <1>0, <2>2 DEF OnlyOfThePast
  <2>5. EntriesTrue' /\ FilesAreTheManifests'
    BY <1>0, <2>2 DEF ConvertInv, EntriesTrue, FilesAreTheManifests, Trusted, Fresh
  <2>6. CacheIsManifest'
    BY <1>0, <2>2 DEF ConvertInv, CacheIsManifest
  <2>7. manifest[Pdf] # hash
    BY <1>0, <1>2 DEF ConvertInv, CacheIsManifest, Torn
  <2>8. WrittenForAReason'
    BY <1>0, <2>2, <2>7 DEF WrittenForAReason
  <2>9. FilesSoFar' /\ RunEnds'
    BY <2>2, FilesAre DEF FilesSoFar, RunEnds
  <2>10. EditsNoticed' /\ NoneForgotten'
    BY <1>0, <2>2 DEF ConvertInv, EditsNoticed, NoneForgotten
  <2> QED
    BY <2>3, <2>4, <2>5, <2>6, <2>8, <2>9, <2>10 DEF ConvertInv
<1> QED
  BY <1>1, <1>2

\* The text is made from the PDF as it is now.
LEMMA TextStep == ASSUME ConvertInv, run_pdftotext PROVE ConvertInv'
<1>1. /\ convert.at = "text" /\ convert.at \in Writing /\ convert.todo # <<>>
      /\ convert' = [convert EXCEPT !.at = "document.md", !.text = source[Pdf]]
      /\ UNCHANGED <<source, written, manifest, runs, halfClean, seen, restored, disturbed>>
      /\ Pdf \in Documents /\ source[Pdf] \in Nat
  BY PdfType, FilesAre DEF run_pdftotext, ConvertInv, WrittenForAReason, Writing, ConvertTypeOK,
                           convertHistory
<1>2. /\ convert' \in ConvertType
      /\ convert'.at = "document.md" /\ convert'.todo = convert.todo
      /\ convert'.sha256 = convert.sha256 /\ convert'.text = source[Pdf]
      /\ convert'.cached = convert.cached /\ convert'.quiet = convert.quiet
      /\ convert'.documents = convert.documents
      /\ Pdf' = Pdf
  BY <1>1, FilesAre DEF ConvertInv, ConvertTypeOK, ConvertType, Points, Writing, Pdf
<1>3. ConvertTypeOK'
  BY <1>1, <1>2 DEF ConvertInv, ConvertTypeOK
<1>4. OnlyOfThePast'
  BY <1>1, <1>2 DEF ConvertInv, OnlyOfThePast
<1>5. EntriesTrue' /\ FilesAreTheManifests'
  BY <1>1, <1>2 DEF ConvertInv, EntriesTrue, FilesAreTheManifests, Trusted, Fresh
<1>6. CacheIsManifest'
  BY <1>1, <1>2 DEF ConvertInv, CacheIsManifest
<1>7. WrittenForAReason'
  BY <1>1, <1>2 DEF ConvertInv, WrittenForAReason, Trusted
<1>8. FilesSoFar' /\ RunEnds'
  BY <1>2, FilesAre DEF FilesSoFar, RunEnds
<1>9. EditsNoticed' /\ NoneForgotten'
  BY <1>1, <1>2 DEF ConvertInv, EditsNoticed, NoneForgotten
<1> QED
  BY <1>3, <1>4, <1>5, <1>6, <1>7, <1>8, <1>9 DEF ConvertInv

\* Only a document that the manifest does not claim is torn, and its entry is
\* made when all of its files are whole.
LEMMA WriteStep == ASSUME ConvertInv, write_file PROVE ConvertInv'
<1> DEFINE text == convert.text
<1>1. PICK i \in 1 .. 3 :
        /\ convert.at = Files[i]
        /\ LET next == IF i < 3 THEN [convert EXCEPT !.at = Files[i + 1]]
                       ELSE [convert EXCEPT !.at = "next", !.todo = Tail(@),
                                            !.documents[Pdf] = convert.sha256]
           IN IF written[Pdf][Files[i]] = text THEN convert' = next /\ UNCHANGED written
              ELSE /\ written' = [written EXCEPT ![Pdf][Files[i]] =
                                    IF @ = Torn THEN text ELSE Torn]
                   /\ convert' = IF written[Pdf][Files[i]] = Torn THEN next ELSE convert
        /\ UNCHANGED <<source, manifest, runs, halfClean, seen, restored, disturbed>>
  BY FilesAre DEF write_file, Entry, convertHistory
<1>2. /\ convert.at \in FileNames /\ convert.at \in Writing /\ convert.at # "text"
      /\ convert.todo # <<>> /\ Files[i] \in FileNames
      /\ Pdf \in Documents /\ source[Pdf] \in Nat \ {0}
      /\ text \in Nat /\ convert.sha256 \in Nat /\ convert.sha256 \in seen[Pdf]
      /\ Trusted(Pdf) =>
           /\ manifest[Pdf] # source[Pdf]
           /\ source[Pdf] \in {convert.sha256, convert.documents[Pdf]} => text = source[Pdf]
      /\ ConvertTypeOK /\ NoneForgotten /\ OnlyOfThePast
  BY <1>1, FilesAre, PdfType
  DEF ConvertInv, ConvertTypeOK, ConvertType, WrittenForAReason, Writing, OnlyOfThePast
<1>3. /\ written' \in [Documents -> [FileNames -> Int]]
      /\ \A d \in Documents : d # Pdf => written'[d] = written[d]
      /\ \A f \in FileNames : f # Files[i] => written'[Pdf][f] = written[Pdf][f]
      /\ convert' # convert => written'[Pdf][Files[i]] = text
      /\ written[Pdf][Files[i]] = text => UNCHANGED written
  <2>1. CASE UNCHANGED written
    BY <1>1, <1>2, <2>1 DEF ConvertTypeOK
  <2>2. CASE written[Pdf][Files[i]] # text
    <3> DEFINE stored == IF written[Pdf][Files[i]] = Torn THEN text ELSE Torn
    <3>1. /\ written' = [written EXCEPT ![Pdf] = [@ EXCEPT ![Files[i]] = stored]]
          /\ convert' # convert => stored = text
      BY <1>1, <2>2
    <3>2. stored \in Int
      BY <1>2 DEF Torn
    <3>3. /\ written[Pdf] \in [FileNames -> Int]
          /\ [written[Pdf] EXCEPT ![Files[i]] = stored] \in [FileNames -> Int]
      BY <1>2, <3>2 DEF ConvertTypeOK
    <3> HIDE DEF stored
    <3> QED
      BY <1>2, <2>2, <3>1, <3>3 DEF ConvertTypeOK
  <2> QED
    BY <1>1, <2>1, <2>2
\* An entry that was right stays so: the files of another document are not
\* touched, those of this one are already what is written.
<1>4. \A d \in Documents :
        Trusted(d) /\ source[d] \in {manifest[d], convert.documents[d]} => Fresh(d)'
  <2> SUFFICES ASSUME NEW d \in Documents, Trusted(d),
                      source[d] \in {manifest[d], convert.documents[d]}
               PROVE  Fresh(d)'
    OBVIOUS
  <2>1. Fresh(d)
    BY DEF ConvertInv, EntriesTrue
  <2>2. d = Pdf => text = source[d]
    BY <1>2
  <2>3. d = Pdf => UNCHANGED written
    BY <1>2, <1>3, <2>1, <2>2 DEF Fresh
  <2> QED
    BY <1>1, <1>3, <2>1, <2>3 DEF Fresh
<1>5. \A d \in Documents : Trusted(d)' <=> Trusted(d)
  BY <1>1 DEF Trusted
<1>6. CASE convert' = convert
  <2>1. ConvertTypeOK'
    BY <1>1, <1>3, <1>6 DEF ConvertInv, ConvertTypeOK
  <2>2. OnlyOfThePast' /\ NoneForgotten' /\ CacheIsManifest'
    BY <1>1, <1>6 DEF ConvertInv, OnlyOfThePast, NoneForgotten, CacheIsManifest, Pdf
  <2>3. WrittenForAReason' /\ EditsNoticed' /\ RunEnds'
    BY <1>1, <1>6 DEF ConvertInv, WrittenForAReason, Trusted, EditsNoticed, RunEnds, Pdf
  <2>4. FilesSoFar'
    BY <1>1, <1>3, <1>6, FilesAre DEF ConvertInv, FilesSoFar, Pdf
  <2>5. EntriesTrue'
    BY <1>1, <1>4, <1>5, <1>6 DEF EntriesTrue
  <2>6. FilesAreTheManifests'
    BY <1>2, <1>6 DEF FilesAreTheManifests, FileNames, Files
  <2> QED
    BY <2>1, <2>2, <2>3, <2>4, <2>5, <2>6 DEF ConvertInv
<1>7. CASE convert' # convert /\ i < 3
  <2>1. convert' = [convert EXCEPT !.at = Files[i + 1]]
    BY <1>1, <1>7
  <2>2. /\ convert' \in ConvertType
        /\ convert'.at = Files[i + 1] /\ convert'.todo = convert.todo
        /\ convert'.sha256 = convert.sha256 /\ convert'.text = text
        /\ convert'.cached = convert.cached /\ convert'.quiet = convert.quiet
        /\ convert'.documents = convert.documents
        /\ Pdf' = Pdf
    <3>1. Files[i + 1] \in Points
      BY <1>7, FilesAre DEF Points
    <3> QED
      BY <1>2, <2>1, <3>1 DEF ConvertTypeOK, ConvertType, Pdf
  <2>3. ConvertTypeOK'
    BY <1>1, <1>3, <2>2 DEF ConvertInv, ConvertTypeOK
  <2>4. convert'.at \in FileNames /\ convert'.at \in Writing /\ convert'.at # "text"
    BY <1>7, <2>2, FilesAre
  <2>5. convert'.at \notin {"idle", "clean", "next", "done"}
    BY <2>4 DEF FileNames, Files
  <2>6. OnlyOfThePast' /\ NoneForgotten'
    <3>1. OnlyOfThePast'
      BY <1>1, <1>2, <2>2 DEF OnlyOfThePast
    <3>2. convert.at # "idle"
      BY <1>2 DEF FileNames, Files
    <3>3. NoneForgotten'
      BY <1>1, <1>2, <2>2, <3>2 DEF NoneForgotten
    <3> QED
      BY <3>1, <3>3
  <2>7. CacheIsManifest'
    BY <1>1, <1>2, <2>2, <2>4 DEF ConvertInv, CacheIsManifest
  <2>8. WrittenForAReason'
    BY <1>1, <1>2, <2>2, <2>4 DEF WrittenForAReason, Trusted
  <2>9. FilesSoFar'
    <3> SUFFICES ASSUME NEW k \in 1 .. 3, convert'.at = Files[k], NEW j \in 1 .. k - 1
                 PROVE  written'[Pdf][Files[j]] = text
      BY <2>2, FilesAre DEF FilesSoFar
    <3>1. k = i + 1
      <4>1. i + 1 \in 1 .. 3 /\ Files[i + 1] = Files[k]
        BY <1>7, <2>2
      <4> QED
        BY <4>1, FilesAre
    <3>2. CASE j = i
      BY <1>3, <1>7, <3>2
    <3>3. CASE j # i
      <4>1. j \in 1 .. i - 1 /\ Files[j] # Files[i] /\ Files[j] \in FileNames
        BY <3>1, <3>3, FilesAre
      <4> QED
        BY <1>1, <1>3, <4>1, FilesAre DEF ConvertInv, FilesSoFar
    <3> QED
      BY <3>2, <3>3
  <2>10. EntriesTrue'
    BY <1>1, <1>4, <1>5, <2>2 DEF EntriesTrue
  <2>11. FilesAreTheManifests' /\ RunEnds'
    BY <2>5 DEF FilesAreTheManifests, RunEnds
  <2>12. EditsNoticed'
    BY <1>1, <2>2, <2>5 DEF ConvertInv, EditsNoticed
  <2> QED
    BY <2>3, <2>6, <2>7, <2>8, <2>9, <2>10, <2>11, <2>12 DEF ConvertInv
<1>8. CASE convert' # convert /\ i = 3
  <2>1. convert' = [convert EXCEPT !.at = "next", !.todo = Tail(@),
                                   !.documents[Pdf] = convert.sha256]
    BY <1>1, <1>8
  <2>2. /\ convert' \in ConvertType
        /\ convert'.at = "next" /\ convert'.todo = Tail(convert.todo)
        /\ convert'.cached = convert.cached /\ convert'.quiet = convert.quiet
        /\ convert'.documents = [convert.documents EXCEPT ![Pdf] = convert.sha256]
    <3>1. /\ Tail(convert.todo) \in Seq(Documents)
          /\ [convert.documents EXCEPT ![Pdf] = convert.sha256] \in [Documents -> Int]
      BY <1>2, PdfType DEF ConvertTypeOK, ConvertType
    <3> QED
      BY <1>2, <2>1, <3>1 DEF ConvertTypeOK, ConvertType, Points
  <2>3. ConvertTypeOK'
    BY <1>1, <1>3, <2>2 DEF ConvertInv, ConvertTypeOK
  <2>4. convert'.at \notin Writing
    BY <2>2 DEF Writing, FileNames, Files
  <2>5. OnlyOfThePast'
    BY <1>1, <1>2, <2>2, <2>4 DEF OnlyOfThePast, ConvertTypeOK, ConvertType
  <2>6. NoneForgotten'
    <3>1. convert.at # "idle"
      BY <1>2 DEF FileNames, Files
    <3>2. convert.quiet => convert.sha256 = source[Pdf]
      BY <1>2, <3>1 DEF NoneForgotten
    <3> QED
      BY <1>1, <1>2, <2>2, <3>1, <3>2, TurnTaken
  <2>7. CacheIsManifest'
    BY <1>1, <1>2, <2>2 DEF ConvertInv, CacheIsManifest
  <2>8. WrittenForAReason' /\ FilesAreTheManifests' /\ RunEnds'
    BY <2>2, <2>4 DEF WrittenForAReason, FilesAreTheManifests, RunEnds
  <2>9. FilesSoFar'
    BY <2>2, FilesAre DEF FilesSoFar
  <2>10. \A f \in FileNames : written'[Pdf][f] = text
    BY <1>1, <1>3, <1>8, FilesAre DEF ConvertInv, FilesSoFar
  <2>11. Trusted(Pdf) /\ convert.sha256 = source[Pdf] =>
           \A f \in FileNames : written'[Pdf][f] = source[Pdf]
    BY <1>2, <2>10
  <2>12. EntriesTrue'
    <3> SUFFICES ASSUME NEW d \in Documents, Trusted(d),
                        source[d] \in {manifest[d], convert'.documents[d]}
                 PROVE  Fresh(d)'
      BY <1>1, <1>5 DEF EntriesTrue
    <3>1. CASE source[d] \in {manifest[d], convert.documents[d]}
      BY <1>4, <3>1
    <3>2. CASE d = Pdf /\ convert.sha256 = source[d]
      BY <1>1, <2>11, <3>2 DEF Fresh
    <3> QED
      BY <1>2, <2>2, <3>1, <3>2 DEF ConvertTypeOK, ConvertType
  <2>13. EditsNoticed'
    BY <1>1, <2>2 DEF ConvertInv, EditsNoticed
  <2> QED
    BY <2>3, <2>5, <2>6, <2>7, <2>8, <2>9, <2>12, <2>13 DEF ConvertInv
<1> QED
  BY <1>6, <1>7, <1>8

\* The manifest gets the entries of the documents, or does not parse.
LEMMA ManifestStep == ASSUME ConvertInv, WriteManifest PROVE ConvertInv'
<1>0. /\ convert.at = "next" /\ convert.todo = <<>>
      /\ UNCHANGED <<source, written, runs, halfClean, seen, restored, disturbed>>
      /\ ConvertTypeOK /\ OnlyOfThePast
  BY DEF WriteManifest, ConvertInv, convertHistory
<1>1. manifest' = convert.documents \/ manifest' = Unreadable
  BY DEF WriteManifest
<1>2. /\ convert' \in ConvertType
      /\ convert'.at \in {"next", "done"} /\ convert'.todo = <<>>
      /\ convert'.cached = convert.cached /\ convert'.quiet = convert.quiet
      /\ convert'.documents = convert.documents
      /\ convert'.at = "done" => manifest' = convert.documents
  <2>1. CASE manifest' = convert.documents
    <3>1. convert' = [convert EXCEPT !.at = "done"]
      BY <2>1 DEF WriteManifest
    <3> QED
      BY <1>0, <2>1, <3>1 DEF ConvertTypeOK, ConvertType, Points
  <2>2. CASE manifest' # convert.documents
    <3>1. convert' = convert
      BY <2>2 DEF WriteManifest
    <3> QED
      BY <1>0, <3>1 DEF ConvertTypeOK
  <2> QED
    BY <2>1, <2>2
<1>3. manifest' \in [Documents -> Int]
  BY <1>0, <1>1 DEF ConvertTypeOK, ConvertType, Unreadable, Torn
<1>4. ConvertTypeOK'
  BY <1>0, <1>2, <1>3 DEF ConvertTypeOK
<1>5. convert'.at \notin Writing
  BY <1>2 DEF Writing, FileNames, Files
<1>6. OnlyOfThePast'
  BY <1>0, <1>1, <1>2, <1>5 DEF OnlyOfThePast, Unreadable
<1>7. EntriesTrue'
  <2>1. \A d \in Documents : Unreadable[d] # source[d]
    BY <1>0 DEF ConvertTypeOK, Unreadable, Torn
  <2>2. \A d \in Documents : source[d] \in {manifest'[d], convert'.documents[d]} =>
                               source[d] = convert.documents[d]
    BY <1>1, <1>2, <2>1
  <2> QED
    BY <1>0, <2>2 DEF ConvertInv, EntriesTrue, Trusted, Fresh
<1>8. CacheIsManifest' /\ WrittenForAReason' /\ FilesAreTheManifests' /\ RunEnds'
  BY <1>2, <1>5 DEF CacheIsManifest, WrittenForAReason, FilesAreTheManifests, RunEnds
<1>9. FilesSoFar'
  BY <1>2, FilesAre DEF FilesSoFar
<1>10. EditsNoticed'
  BY <1>0, <1>2 DEF ConvertInv, EditsNoticed
<1>11. NoneForgotten'
  BY <1>0, <1>2, <1>5 DEF ConvertInv, NoneForgotten
<1> QED
  BY <1>4, <1>6, <1>7, <1>8, <1>9, <1>10, <1>11 DEF ConvertInv

\* A quiet run ends with a manifest of the PDFs as they are.
LEMMA QuietEnd ==
  ASSUME ConvertInv, convert.at = "done", convert.quiet PROVE manifest = source
<1>1. manifest = convert.documents /\ convert.todo = <<>>
  BY DEF ConvertInv, RunEnds
<1>2. \A d \in Documents : manifest[d] = source[d]
  BY <1>1 DEF ConvertInv, NoneForgotten
<1>3. manifest \in [Documents -> Int] /\ source \in [Documents -> Nat \ {0}]
  BY DEF ConvertInv, ConvertTypeOK
<1> QED
  BY <1>2, <1>3

\* A run that ends or is cut leaves the files as they are.
LEMMA StopStep == ASSUME ConvertInv, Finish \/ Cut PROVE ConvertInv'
<1>1. /\ convert' = Stopped
      /\ UNCHANGED <<source, written, manifest, runs, halfClean, seen, restored>>
      /\ (convert.at = "done" /\ disturbed' = disturbed) \/ disturbed'
  BY DEF Finish, Cut, convertHistory
<1>2. /\ convert'.at = "idle" /\ convert'.documents = NoEntries /\ convert'.quiet
  BY <1>1 DEF Stopped
<1>3. ConvertTypeOK'
  BY <1>1, StoppedType DEF ConvertInv, ConvertTypeOK
<1>4. convert'.at \notin Writing
  BY <1>2 DEF Writing, FileNames, Files
<1>5. OnlyOfThePast'
  BY <1>1, <1>2, <1>4 DEF ConvertInv, OnlyOfThePast, NoEntries
<1>6. EntriesTrue'
  <2>1. \A d \in Documents : Trusted(d)' => Trusted(d)
    BY <1>1 DEF Trusted
  <2>2. \A d \in Documents : source[d] # convert'.documents[d]
    BY <1>2 DEF NoEntries, Absent, ConvertInv, ConvertTypeOK
  <2> QED
    BY <1>1, <2>1, <2>2 DEF ConvertInv, EntriesTrue, Fresh
<1>7. FilesAreTheManifests'
  <2> SUFFICES ASSUME ~halfClean, ~disturbed', NEW d \in Documents, NEW f \in FileNames
               PROVE  written[d][f] = manifest[d]
    BY <1>1 DEF FilesAreTheManifests
  <2>1. convert.at = "done" /\ ~disturbed
    BY <1>1
  <2>2. manifest = source
    BY <2>1, QuietEnd DEF ConvertInv, EditsNoticed
  <2>3. Fresh(d)
    BY <2>1, <2>2 DEF ConvertInv, EntriesTrue, Trusted
  <2> QED
    BY <2>2, <2>3 DEF Fresh
<1>8. CacheIsManifest' /\ WrittenForAReason' /\ NoneForgotten' /\ RunEnds'
  BY <1>2, <1>4 DEF CacheIsManifest, WrittenForAReason, NoneForgotten, RunEnds
<1>9. FilesSoFar'
  BY <1>2, FilesAre DEF FilesSoFar
<1>10. EditsNoticed'
  BY <1>2 DEF EditsNoticed
<1> QED
  BY <1>3, <1>5, <1>6, <1>7, <1>8, <1>9, <1>10 DEF ConvertInv

LEMMA ConvertInductive == ConvertInv /\ [ConvertNext]_convertVars => ConvertInv'
<1> SUFFICES ASSUME ConvertInv, [ConvertNext]_convertVars PROVE ConvertInv'
  OBVIOUS
<1>1. CASE UNCHANGED convertVars
  BY <1>1 DEF convertVars, ConvertInv, ConvertTypeOK, OnlyOfThePast, CacheIsManifest, Trusted,
     WrittenForAReason, FilesSoFar, EntriesTrue, Fresh, FilesAreTheManifests, EditsNoticed,
     NoneForgotten, RunEnds, Pdf
<1> QED
  BY <1>1, EditStep, StartStep, CleanStep, HashStep, TextStep, WriteStep, ManifestStep,
     StopStep DEF ConvertNext

-----------------------------------------------------------------------------
\* The files, the manifest and the state of a run are always what convert takes
\* them to be: in particular the document whose turn it is, is one of the PDFs.
THEOREM ConvertTypeCorrect == ConvertSpec => []ConvertTypeOK
<1>1. ConvertInv => ConvertTypeOK
  BY DEF ConvertInv
<1> QED
  BY <1>1, ConvertInitInv, ConvertInductive, PTL DEF ConvertSpec

\* The cache of convert for any list of PDFs, versions, edits, failures and runs:
\* what the manifest lets the next run skip is whole and up to date, unless a clean
\* run was cut, or since the last one that PDF has gone back to a version it had
\* before and a run was cut or edited under; and a run that no edit disturbed
\* leaves a manifest of just the PDFs that there are.
THEOREM CacheIsSafe == ConvertSpec => []SkipIsSafe
<1>1. ConvertInv => SkipIsSafe
  <2> SUFFICES ASSUME ConvertInv PROVE SkipIsSafe
    OBVIOUS
  <2>1. ASSUME ~halfClean, NEW d \in Documents, manifest[d] = source[d]
        PROVE  Fresh(d) \/ (restored[d] /\ disturbed)
    BY <2>1 DEF ConvertInv, EntriesTrue, Trusted
  <2> QED
    BY <2>1, QuietEnd DEF SkipIsSafe
<1> QED
  BY <1>1, ConvertInitInv, ConvertInductive, PTL DEF ConvertSpec

-----------------------------------------------------------------------------
(***************************************************************************)
(* The fault record                                                        *)
(***************************************************************************)
FieldSet == {Fields[i] : i \in 1 .. RECORD_SIZE}

\* The words of exception x that its checksum is about.
BodyOf(x) ==
  <<PM_MAGIC, PM_VERSION, <<x.exc_type>>, <<x.number>>, <<x.lr - lr_to_pc_offset(x.exc_type)>>,
    <<x.lr>>, <<x.number>>, <<x.number>>, <<x.number>>, <<x.number>>>>

\* The value that exception x leaves in a field, the checksum included.
Left(x, f) == IF f = "crc32" THEN BodyOf(x) ELSE Value(x, f, <<>>)

Latest == faults[Len(faults)]

Exceptions == [exc_type : Types, lr : Links, number : Nat]

\* Too short for a checksum.
Short(word) == Len(word) < RECORD_SIZE - 1

\* The checksum is that of an exception, and nothing else is a checksum.
SealIsOfOne ==
  /\ pm_record = [f \in FieldSet |-> pm_record[f]]
  /\ \A f \in FieldSet \ {"crc32"} : Short(pm_record[f])
  /\ \/ pm_record["crc32"] = Garbage
     \/ \E n \in 1 .. Len(faults) : pm_record["crc32"] = BodyOf(faults[n])

\* The handler has stored so many fields, and in the hook all of them.
StoredSoFar ==
  /\ core.at = "save" =>
       /\ core.next \in 1 .. Len(Stores) /\ faults # <<>>
       /\ \A i \in 1 .. core.next - 1 : pm_record[Stores[i]] = Left(Latest, Stores[i])
  /\ core.at \in {"hook", "printed"} => faults # <<>> /\ WordsOf(pm_record) = Whole(Latest)

FaultInv ==
  /\ core \in [at : {"program", "save", "hook", "printed", "spin"}, next : Nat]
  /\ faults \in Seq(Exceptions)
  /\ SealIsOfOne /\ StoredSoFar
  /\ uart.tag = "OK" => Real(uart.words)

LEMMA FieldsAre ==
  /\ RECORD_SIZE = 11 /\ Len(Stores) = 11
  /\ Fields[1] = "magic" /\ Fields[2] = "version" /\ Fields[3] = "exc_type" /\ Fields[4] = "cpsr"
  /\ Fields[5] = "pc" /\ Fields[6] = "lr_raw" /\ Fields[7] = "r" /\ Fields[8] = "dfsr"
  /\ Fields[9] = "dfar" /\ Fields[10] = "ifsr" /\ Fields[11] = "crc32"
  /\ FieldSet = {"magic", "version", "exc_type", "cpsr", "pc", "lr_raw", "r", "dfsr", "dfar",
                 "ifsr", "crc32"}
<1>1. RECORD_SIZE = 11 /\ Len(Stores) = 11
  BY DEF RECORD_SIZE, Fields, Stores
<1>2. /\ Fields[1] = "magic" /\ Fields[2] = "version" /\ Fields[3] = "exc_type" /\ Fields[4] = "cpsr"
      /\ Fields[5] = "pc" /\ Fields[6] = "lr_raw" /\ Fields[7] = "r" /\ Fields[8] = "dfsr"
      /\ Fields[9] = "dfar" /\ Fields[10] = "ifsr" /\ Fields[11] = "crc32"
  BY DEF Fields
<1>3. \A i \in 1 .. 11 : \/ i = 1 \/ i = 2 \/ i = 3 \/ i = 4 \/ i = 5 \/ i = 6 \/ i = 7
                         \/ i = 8 \/ i = 9 \/ i = 10 \/ i = 11
  OBVIOUS
<1>4. FieldSet = {"magic", "version", "exc_type", "cpsr", "pc", "lr_raw", "r", "dfsr", "dfar",
                 "ifsr", "crc32"}
  <2>1. FieldSet = {Fields[i] : i \in 1 .. 11}
    BY <1>1 DEF FieldSet
  <2> QED
    BY <1>2, <1>3, <2>1
<1> QED
  BY <1>1, <1>2, <1>4

LEMMA WordsAre ==
  ASSUME NEW rec
  PROVE  /\ WordsOf(rec) = [i \in 1 .. 11 |-> rec[Fields[i]]]
         /\ Len(WordsOf(rec)) = 11
<1>1. WordsOf(rec) = [i \in 1 .. 11 |-> rec[Fields[i]]]
  BY FieldsAre DEF WordsOf
<1> QED
  BY <1>1

LEMMA ValueIs ==
  ASSUME NEW x, NEW rec
  PROVE  /\ \A f \in FieldSet \ {"crc32"} : Value(x, f, rec) = Left(x, f)
         /\ \A i \in 1 .. 10 : /\ Fields[i] \in FieldSet \ {"crc32"}
                               /\ Left(x, Fields[i]) = BodyOf(x)[i]
         /\ \A f \in FieldSet \ {"crc32"} : Len(Left(x, f)) = 1
         /\ Len(BodyOf(x)) = 10
<1>1. \A f \in FieldSet \ {"crc32"} : Value(x, f, rec) = Left(x, f)
  BY FieldsAre DEF Value, Left
<1>2. \A i \in 1 .. 10 : \/ i = 1 \/ i = 2 \/ i = 3 \/ i = 4 \/ i = 5 \/ i = 6 \/ i = 7
                         \/ i = 8 \/ i = 9 \/ i = 10
  OBVIOUS
<1>3. \A i \in 1 .. 10 : Fields[i] \in FieldSet \ {"crc32"}
  BY <1>2, FieldsAre
<1>4. /\ Left(x, "magic") = PM_MAGIC /\ Left(x, "version") = PM_VERSION
      /\ Left(x, "exc_type") = <<x.exc_type>> /\ Left(x, "lr_raw") = <<x.lr>>
      /\ Left(x, "pc") = <<x.lr - lr_to_pc_offset(x.exc_type)>>
      /\ \A f \in {"cpsr", "r", "dfsr", "dfar", "ifsr"} : Left(x, f) = <<x.number>>
  BY DEF Left, Value
<1> HIDE DEF Left
<1> DEFINE m == <<x.lr - lr_to_pc_offset(x.exc_type)>>
           t == <<x.exc_type>>
           l == <<x.lr>>
           n == <<x.number>>
<1>5. BodyOf(x) = <<PM_MAGIC, PM_VERSION, t, n, m, l, n, n, n, n>>
  BY DEF BodyOf
<1>6. Len(PM_MAGIC) = 1 /\ Len(PM_VERSION) = 1 /\ Len(m) = 1 /\ Len(t) = 1 /\ Len(l) = 1 /\ Len(n) = 1
  BY DEF PM_MAGIC, PM_VERSION
<1> HIDE DEF m, t, l, n
<1>7. /\ BodyOf(x)[1] = PM_MAGIC /\ BodyOf(x)[2] = PM_VERSION /\ BodyOf(x)[3] = t
      /\ BodyOf(x)[4] = n /\ BodyOf(x)[5] = m /\ BodyOf(x)[6] = l /\ BodyOf(x)[7] = n
      /\ BodyOf(x)[8] = n /\ BodyOf(x)[9] = n /\ BodyOf(x)[10] = n /\ Len(BodyOf(x)) = 10
  BY <1>5
<1>8. /\ Left(x, "exc_type") = t /\ Left(x, "lr_raw") = l /\ Left(x, "pc") = m
      /\ \A f \in {"cpsr", "r", "dfsr", "dfar", "ifsr"} : Left(x, f) = n
  BY <1>4 DEF m, t, l, n
<1>9. \A i \in 1 .. 10 : Left(x, Fields[i]) = BodyOf(x)[i]
  BY <1>2, <1>4, <1>7, <1>8, FieldsAre
<1>10. \A f \in FieldSet \ {"crc32"} : Len(Left(x, f)) = 1
  BY <1>4, <1>6, <1>8, FieldsAre
<1> QED
  BY <1>1, <1>3, <1>7, <1>9, <1>10

\* The first ten words of a record that has the body of x.
LEMMA BodyIs ==
  ASSUME NEW x, NEW rec, \A f \in FieldSet \ {"crc32"} : rec[f] = Left(x, f)
  PROVE  SubSeq(WordsOf(rec), 1, RECORD_SIZE - 1) = BodyOf(x)
<1> DEFINE w == WordsOf(rec)
           b == BodyOf(x)
           S == {w[i] : i \in 1 .. 11}
<1>1. w = [i \in 1 .. 11 |-> rec[Fields[i]]] /\ RECORD_SIZE - 1 = 10
  BY WordsAre, FieldsAre
<1>2. \A i \in 1 .. 10 : w[i] = b[i]
  BY <1>1, ValueIs
<1>3. Len(b) = 10 /\ b = [i \in 1 .. 10 |-> b[i]]
  BY DEF BodyOf
<1> HIDE DEF w, b
<1>4. /\ SubSeq(w, 1, 10) \in Seq(S) /\ Len(SubSeq(w, 1, 10)) = 10
      /\ \A i \in 1 .. 10 : SubSeq(w, 1, 10)[i] = w[i]
  <2>1. \A i \in 1 .. 10 : w[i] \in S
    OBVIOUS
  <2> HIDE DEF S
  <2>2. /\ SubSeq(w, 1, 10) \in Seq(S) /\ Len(SubSeq(w, 1, 10)) = 10 - 1 + 1
        /\ \A i \in 1 .. 10 - 1 + 1 : SubSeq(w, 1, 10)[i] = w[1 + i - 1]
    BY <2>1, SubSeqProperties
  <2> QED
    BY <2>2
<1> HIDE DEF S
<1>5. SubSeq(w, 1, 10) = [i \in 1 .. 10 |-> SubSeq(w, 1, 10)[i]]
  BY <1>4, LenProperties
<1> QED
  BY <1>1, <1>2, <1>3, <1>4, <1>5 DEF w, b

\* A record with the body of x and its checksum is the record of x.
LEMMA WholeIs ==
  ASSUME NEW x
  PROVE  Whole(x) = [i \in 1 .. 11 |-> IF i = 11 THEN BodyOf(x) ELSE BodyOf(x)[i]]
<1> DEFINE blank == [f \in FieldSet |-> Garbage]
           body == [f \in FieldSet |-> IF f = "crc32" THEN Garbage ELSE Value(x, f, blank)]
           rec == [body EXCEPT !["crc32"] = Value(x, "crc32", body)]
<1>1. Whole(x) = WordsOf(rec)
  BY DEF Whole, FieldSet
<1>2. \A f \in FieldSet \ {"crc32"} : body[f] = Left(x, f)
  BY ValueIs
<1>3. Value(x, "crc32", body) = BodyOf(x)
  <2> HIDE DEF body
  <2>1. SubSeq(WordsOf(body), 1, RECORD_SIZE - 1) = BodyOf(x)
    BY <1>2, BodyIs
  <2> QED
    BY <2>1 DEF Value, crc32
<1>4. DOMAIN body = FieldSet
  OBVIOUS
<1> HIDE DEF body
<1>5. /\ rec["crc32"] = BodyOf(x)
      /\ \A f \in FieldSet \ {"crc32"} : rec[f] = Left(x, f)
  <2>1. "crc32" \in FieldSet
    BY FieldsAre
  <2> QED
    BY <1>2, <1>3, <1>4, <2>1
<1> HIDE DEF rec
<1>6. WordsOf(rec) = [i \in 1 .. 11 |-> rec[Fields[i]]]
  BY WordsAre
<1>7. \A i \in 1 .. 11 : rec[Fields[i]] = IF i = 11 THEN BodyOf(x) ELSE BodyOf(x)[i]
  <2> SUFFICES ASSUME NEW i \in 1 .. 11
               PROVE  rec[Fields[i]] = IF i = 11 THEN BodyOf(x) ELSE BodyOf(x)[i]
    OBVIOUS
  <2>1. CASE i = 11
    BY <1>5, <2>1, FieldsAre
  <2>2. CASE i # 11
    <3>1. i \in 1 .. 10
      BY <2>2
    <3> QED
      BY <1>5, <2>2, <3>1, ValueIs
  <2> QED
    BY <2>1, <2>2
<1> QED
  BY <1>1, <1>6, <1>7

-----------------------------------------------------------------------------
\* Words that are the same as another eleven.
LEMMA SubSeqIs ==
  ASSUME NEW S, NEW d \in Seq(S), NEW w \in Seq(S), NEW m \in Nat, NEW n \in Nat,
         n - m + 1 = Len(w), Len(w) > 0, \A i \in m .. n : d[i] \in S,
         \A i \in 1 .. Len(w) : d[m + i - 1] = w[i]
  PROVE  SubSeq(d, m, n) = w
<1>1. m <= n /\ Len(w) \in Nat
  BY LenProperties
<1>2. /\ SubSeq(d, m, n) \in Seq(S) /\ Len(SubSeq(d, m, n)) = Len(w)
      /\ \A i \in 1 .. Len(w) : SubSeq(d, m, n)[i] = d[m + i - 1]
  BY <1>1, SubSeqProperties
<1>3. \A i \in 1 .. Len(w) : SubSeq(d, m, n)[i] = w[i]
  BY <1>2
<1>4. SubSeq(d, m, n) = [i \in 1 .. Len(w) |-> SubSeq(d, m, n)[i]]
  BY <1>2, LenProperties
<1>5. w = [i \in 1 .. Len(w) |-> w[i]]
  BY LenProperties
<1> QED
  BY <1>3, <1>4, <1>5

\* A name keeps the concatenation out of the provers' sight.
Dump(before, words) == before \o words

LEMMA DumpAt ==
  ASSUME NEW S, NEW s \in Seq(S), NEW t \in Seq(S)
  PROVE  /\ Dump(s, t) \in Seq(S) /\ Len(Dump(s, t)) = Len(s) + Len(t)
         /\ \A i \in 1 .. Len(s) + Len(t) :
              Dump(s, t)[i] = IF i <= Len(s) THEN s[i] ELSE t[i - Len(s)]
BY ConcatProperties DEF Dump

\* Of a dump the record is printed, if it looks like one, wherever it begins, and
\* else nothing that is sealed.
LEMMA DecodeIs ==
  ASSUME NEW S, NEW before \in Seq(S), NEW w \in Seq(S), Len(w) = RECORD_SIZE,
         \A i \in 1 .. Len(before) : Short(before[i]),
         \A i \in 1 .. RECORD_SIZE - 1 : Short(w[i])
  PROVE  /\ \A p \in decode(Dump(before, w)) :
              \/ p = Printed(w) /\ Prints(w)
              \/ p.tag = "BAD" /\ Short(p.words[RECORD_SIZE])
         /\ Prints(w) => Printed(w) \in decode(Dump(before, w))
<1> DEFINE d == Dump(before, w)
           b == Len(before)
           At(i) == SubSeq(d, i, i + RECORD_SIZE - 1)
           printed == {i \in Offsets(d) : Prints(At(i))}
           good == {i \in printed : crc_ok(At(i))}
<1>1. RECORD_SIZE \in Nat /\ RECORD_SIZE > 1
  BY FieldsAre
<1>2. /\ d \in Seq(S) /\ Len(d) = b + RECORD_SIZE /\ b \in Nat
      /\ \A i \in 1 .. b : d[i] = before[i]
      /\ \A i \in 1 .. RECORD_SIZE : d[b + i] = w[i]
  <2>1. /\ d \in Seq(S) /\ Len(d) = b + RECORD_SIZE /\ b \in Nat
        /\ \A i \in 1 .. b + RECORD_SIZE : d[i] = IF i <= b THEN before[i] ELSE w[i - b]
    BY DumpAt, LenProperties
  <2> HIDE DEF d, b
  <2>2. \A i \in 1 .. RECORD_SIZE : b + i \in 1 .. b + RECORD_SIZE /\ ~(b + i <= b) /\ b + i - b = i
    BY <1>1, <2>1
  <2>3. \A i \in 1 .. b : i \in 1 .. b + RECORD_SIZE /\ i <= b
    BY <1>1, <2>1
  <2> QED
    BY <2>1, <2>2, <2>3
<1>3. decode(d) = {Printed(At(i)) : i \in {i \in printed : \A j \in good : i <= j}}
  BY DEF decode
<1> HIDE DEF d, b
<1>4. Offsets(d) = 1 .. b + 1 /\ \A i \in 1 .. Len(d) : d[i] \in S
  BY <1>1, <1>2, LenProperties DEF Offsets
<1>5. At(b + 1) = w
  <2> DEFINE n == b + 1 + RECORD_SIZE - 1
  <2>1. /\ b + 1 \in Nat /\ n \in Nat /\ n = Len(d) /\ n - (b + 1) + 1 = Len(w) /\ Len(w) > 0
        /\ \A i \in b + 1 .. n : d[i] \in S
    BY <1>1, <1>2, <1>4
  <2>2. ASSUME NEW i \in 1 .. Len(w) PROVE d[b + 1 + i - 1] = w[i]
    <3>1. b + 1 + i - 1 = b + i
      BY <1>1, <1>2
    <3>2. d[b + i] = w[i]
      BY <1>2
    <3> QED
      BY <3>1, <3>2
  <2>3. d \in Seq(S) /\ w \in Seq(S)
    BY <1>2
  <2> HIDE DEF n
  <2>4. SubSeq(d, b + 1, n) = w
    BY <2>1, <2>2, <2>3, SubSeqIs
  <2> QED
    BY <2>4 DEF n
<1>6. ASSUME NEW i \in 1 .. b PROVE ~crc_ok(At(i)) /\ Short(At(i)[RECORD_SIZE])
  <2> DEFINE n == i + RECORD_SIZE - 1
             a == At(i)
  <2>1. n \in Nat /\ i <= n /\ n - i + 1 = RECORD_SIZE /\ \A j \in i .. n : d[j] \in S
    BY <1>1, <1>2, <1>4
  <2>2. \A j \in 1 .. RECORD_SIZE : a[j] = d[i + j - 1] /\ a[j] \in S
    <3>1. a = SubSeq(d, i, n)
      OBVIOUS
    <3> HIDE DEF n, a
    <3>2. \A j \in 1 .. n - i + 1 : SubSeq(d, i, n)[j] = d[i + j - 1]
      BY <1>1, <2>1, SubSeqProperties
    <3>3. \A j \in 1 .. RECORD_SIZE : i + j - 1 \in i .. n
      BY <1>1, <2>1
    <3> QED
      BY <2>1, <3>1, <3>2, <3>3
  <2> HIDE DEF a
  <2>3. a[RECORD_SIZE] = d[n]
    BY <1>1, <2>2
  <2>4. Short(d[n])
    <3>1. CASE n <= b
      <4>1. n \in 1 .. b
        BY <1>1, <2>1, <3>1
      <4> QED
        BY <1>2, <4>1 DEF b
    <3>2. CASE n > b
      <4> DEFINE j == n - b
      <4>1. j \in 1 .. RECORD_SIZE - 1 /\ j \in 1 .. RECORD_SIZE /\ b + j = n
        BY <1>1, <1>2, <3>2
      <4> HIDE DEF j, n
      <4>2. d[b + j] = w[j] /\ Short(w[j])
        BY <1>2, <4>1
      <4> QED
        BY <4>1, <4>2
    <3> QED
      BY <1>1, <1>2, <3>1, <3>2
  <2>5. Len(SubSeq(a, 1, RECORD_SIZE - 1)) = RECORD_SIZE - 1
    <3>1. \A j \in 1 .. RECORD_SIZE - 1 : a[j] \in S
      BY <1>1, <2>2
    <3> QED
      BY <1>1, <3>1, SubSeqProperties
  <2> QED
    BY <1>1, <2>3, <2>4, <2>5 DEF crc_ok, crc32, Short, a
<1> HIDE DEF At, printed, good
<1>7. \A i \in printed : i \in Offsets(d) /\ (i \in 1 .. b \/ i = b + 1)
  BY <1>2, <1>4 DEF printed
<1>8. \A i \in good : i = b + 1
  BY <1>6, <1>7 DEF good
<1>9. ASSUME NEW p \in decode(d)
      PROVE  \/ p = Printed(w) /\ Prints(w)
             \/ p.tag = "BAD" /\ Short(p.words[RECORD_SIZE])
  <2>1. PICK i \in printed : p = Printed(At(i))
    BY <1>3
  <2>2. Prints(At(i))
    BY <2>1 DEF printed
  <2>3. CASE i = b + 1
    <3>1. At(i) = w
      BY <1>5, <2>3
    <3> QED
      BY <2>1, <2>2, <3>1, Zenon
  <2>4. CASE i \in 1 .. b
    <3>1. ~crc_ok(At(i)) /\ Short(At(i)[RECORD_SIZE])
      BY <1>6, <2>4
    <3> QED
      BY <2>1, <3>1 DEF Printed
  <2> QED
    BY <1>7, <2>1, <2>3, <2>4
<1>10. ASSUME Prints(w) PROVE Printed(w) \in decode(d)
  <2>1. b + 1 \in printed
    BY <1>2, <1>4, <1>5, <1>10 DEF printed
  <2>2. \A j \in good : b + 1 <= j
    BY <1>2, <1>8
  <2>3. Printed(At(b + 1)) \in decode(d)
    BY <1>3, <2>1, <2>2
  <2> QED
    BY <1>5, <2>3
<1> QED
  BY <1>9, <1>10 DEF d

-----------------------------------------------------------------------------
\* The words of the record, and which of them are too short for a checksum.
LEMMA RecordIs ==
  ASSUME SealIsOfOne
  PROVE  LET w == WordsOf(pm_record) IN
         /\ w \in Seq({pm_record[f] : f \in FieldSet})
         /\ Len(w) = RECORD_SIZE /\ w[RECORD_SIZE] = pm_record["crc32"]
         /\ \A i \in 1 .. RECORD_SIZE - 1 : Short(w[i])
<1> DEFINE w == WordsOf(pm_record)
           S == {pm_record[f] : f \in FieldSet}
<1>1. RECORD_SIZE \in Nat /\ RECORD_SIZE > 1 /\ RECORD_SIZE - 1 = 10
  BY FieldsAre
<1>2. \A i \in 1 .. RECORD_SIZE - 1 : Fields[i] \in FieldSet \ {"crc32"}
  BY <1>1, ValueIs
<1>3. Fields[RECORD_SIZE] = "crc32" /\ "crc32" \in FieldSet
  BY FieldsAre
<1>4. w = [i \in 1 .. RECORD_SIZE |-> pm_record[Fields[i]]]
  BY DEF WordsOf
<1>5. \A i \in 1 .. RECORD_SIZE : pm_record[Fields[i]] \in S
  <2>1. \A i \in 1 .. RECORD_SIZE : i \in 1 .. RECORD_SIZE - 1 \/ i = RECORD_SIZE
    BY <1>1
  <2> QED
    BY <1>2, <1>3, <2>1
<1> HIDE DEF S
<1>6. w \in Seq(S) /\ Len(w) = RECORD_SIZE
  BY <1>1, <1>4, <1>5
<1>7. \A i \in 1 .. RECORD_SIZE - 1 : Short(w[i])
  BY <1>1, <1>2, <1>4 DEF SealIsOfOne
<1>8. w[RECORD_SIZE] = pm_record["crc32"]
  BY <1>1, <1>3, <1>4
<1> QED
  BY <1>6, <1>7, <1>8 DEF S

LEMMA WholeParses ==
  ASSUME NEW x
  PROVE  /\ Prints(Whole(x)) /\ crc_ok(Whole(x)) /\ Len(Whole(x)) = RECORD_SIZE
         /\ ~Short(Whole(x)[RECORD_SIZE])
         /\ SubSeq(Whole(x), 1, RECORD_SIZE - 1) = BodyOf(x)
<1> DEFINE w == Whole(x)
           b == BodyOf(x)
           S == {w[i] : i \in 1 .. RECORD_SIZE}
<1>1. RECORD_SIZE \in Nat /\ RECORD_SIZE > 2
  BY FieldsAre
<1>2. w = [i \in 1 .. RECORD_SIZE |-> IF i = RECORD_SIZE THEN b ELSE b[i]]
  BY FieldsAre, WholeIs
<1>3. Len(b) = RECORD_SIZE - 1 /\ b = [i \in 1 .. RECORD_SIZE - 1 |-> b[i]]
      /\ b[1] = PM_MAGIC /\ b[2] = PM_VERSION
  <2>1. Len(b) = 10 /\ b[1] = PM_MAGIC /\ b[2] = PM_VERSION /\ b = [i \in 1 .. 10 |-> b[i]]
    BY DEF BodyOf
  <2> HIDE DEF b
  <2> QED
    BY <2>1, FieldsAre
<1> HIDE DEF w, b
<1>4. w[1] = PM_MAGIC /\ w[2] = PM_VERSION /\ w[RECORD_SIZE] = b
  <2>1. /\ 1 \in 1 .. RECORD_SIZE /\ 1 # RECORD_SIZE /\ 2 \in 1 .. RECORD_SIZE /\ 2 # RECORD_SIZE
        /\ RECORD_SIZE \in 1 .. RECORD_SIZE
    BY <1>1
  <2>2. w[1] = b[1] /\ w[2] = b[2] /\ w[RECORD_SIZE] = b
    BY <1>2, <2>1
  <2> QED
    BY <1>3, <2>2
<1>5. Len(w) = RECORD_SIZE /\ w \in Seq(S)
  <2>1. \A i \in 1 .. RECORD_SIZE : w[i] \in S
    OBVIOUS
  <2> HIDE DEF S
  <2> QED
    BY <1>1, <1>2, <2>1
<1>6. b \in Seq(S) /\ \A i \in 1 .. RECORD_SIZE - 1 : b[i] = w[i] /\ w[i] \in S
  <2>1. \A i \in 1 .. RECORD_SIZE - 1 : b[i] = w[i] /\ w[i] \in S
    BY <1>1, <1>2
  <2> HIDE DEF S
  <2> QED
    BY <1>1, <1>3, <2>1
<1> HIDE DEF S
<1>7. SubSeq(w, 1, RECORD_SIZE - 1) = b
  BY <1>1, <1>3, <1>5, <1>6, SubSeqIs
<1> QED
  BY <1>1, <1>3, <1>4, <1>5, <1>7 DEF Prints, crc_ok, crc32, Short, w, b

\* A record whose checksum is right is that of one exception.
LEMMA SealedIsOne ==
  ASSUME SealIsOfOne, crc_ok(WordsOf(pm_record))
  PROVE  \E n \in 1 .. Len(faults) : WordsOf(pm_record) = Whole(faults[n])
<1> DEFINE w == WordsOf(pm_record)
           S == {pm_record[f] : f \in FieldSet}
<1>1. RECORD_SIZE \in Nat /\ RECORD_SIZE > 2
  BY FieldsAre
<1>2. w \in Seq(S) /\ Len(w) = RECORD_SIZE /\ w[RECORD_SIZE] = pm_record["crc32"]
  BY RecordIs
<1>3. SubSeq(w, 1, RECORD_SIZE - 1) = w[RECORD_SIZE]
  BY DEF crc_ok, crc32
<1> HIDE DEF w, S
<1>4. /\ Len(SubSeq(w, 1, RECORD_SIZE - 1)) = RECORD_SIZE - 1
      /\ \A i \in 1 .. RECORD_SIZE - 1 : SubSeq(w, 1, RECORD_SIZE - 1)[i] = w[i]
  <2> DEFINE k == RECORD_SIZE - 1
  <2>1. k \in Nat /\ k > 0 /\ \A i \in 1 .. k : w[i] \in S
    BY <1>1, <1>2, LenProperties
  <2> HIDE DEF k
  <2>2. Len(SubSeq(w, 1, k)) = k - 1 + 1 /\ \A i \in 1 .. k - 1 + 1 : SubSeq(w, 1, k)[i] = w[1 + i - 1]
    BY <2>1, SubSeqProperties
  <2> QED
    BY <2>1, <2>2 DEF k
<1>5. pm_record["crc32"] # Garbage
  BY <1>1, <1>2, <1>3, <1>4 DEF Garbage
<1>6. PICK n \in 1 .. Len(faults) : pm_record["crc32"] = BodyOf(faults[n])
  BY <1>5 DEF SealIsOfOne
<1>7. \A i \in 1 .. RECORD_SIZE - 1 : w[i] = BodyOf(faults[n])[i]
  BY <1>2, <1>3, <1>4, <1>6
<1>8. Whole(faults[n]) = [i \in 1 .. RECORD_SIZE |->
                            IF i = RECORD_SIZE THEN BodyOf(faults[n]) ELSE BodyOf(faults[n])[i]]
  BY FieldsAre, WholeIs
<1>9. w = [i \in 1 .. RECORD_SIZE |-> w[i]]
  BY <1>2, LenProperties
<1>10. \A i \in 1 .. RECORD_SIZE : i = RECORD_SIZE \/ i \in 1 .. RECORD_SIZE - 1
  BY <1>1
<1>11. w = Whole(faults[n])
  BY <1>2, <1>6, <1>7, <1>8, <1>9, <1>10
<1> QED
  BY <1>11 DEF w

\* What the decoder prints of a dump.
LEMMA DumpDecodes ==
  ASSUME SealIsOfOne, NEW before \in Before
  PROVE  LET w == WordsOf(pm_record)
             out == decode(before \o w)
         IN /\ \A p \in out :
                 \/ p = Printed(w) /\ Prints(w)
                 \/ p.tag = "BAD" /\ Short(p.words[RECORD_SIZE])
            /\ Prints(w) => Printed(w) \in out
<1> DEFINE w == WordsOf(pm_record)
           R == {pm_record[f] : f \in FieldSet}
           S == R \cup Seq(Int)
<1>1. before \in Seq(Seq(Int)) /\ \A i \in 1 .. Len(before) : Short(before[i])
  BY DumpAssumption DEF Short
<1>2. /\ w \in Seq(R) /\ Len(w) = RECORD_SIZE /\ \A i \in 1 .. RECORD_SIZE - 1 : Short(w[i])
  BY RecordIs
<1> HIDE DEF w, R
<1>3. before \in Seq(S) /\ w \in Seq(S)
  BY <1>1, <1>2
<1> HIDE DEF S
<1> HIDE DEF Short, Prints, Printed, decode
<1>4. /\ \A p \in decode(Dump(before, w)) :
           \/ p = Printed(w) /\ Prints(w)
           \/ p.tag = "BAD" /\ Short(p.words[RECORD_SIZE])
      /\ Prints(w) => Printed(w) \in decode(Dump(before, w))
  BY <1>1, <1>2, <1>3, DecodeIs, Zenon
<1> QED
  BY <1>4 DEF Dump, w

-----------------------------------------------------------------------------
LEMMA StoresAre ==
  /\ Len(Stores) = 11 /\ Stores[11] = "crc32"
  /\ \A i \in 1 .. 10 : Stores[i] \in FieldSet \ {"crc32"}
  /\ \A f \in FieldSet \ {"crc32"} : \E i \in 1 .. 10 : Stores[i] = f
<1>1. /\ Len(Stores) = 11
      /\ Stores[1] = "magic" /\ Stores[2] = "version" /\ Stores[3] = "exc_type"
      /\ Stores[4] = "cpsr" /\ Stores[5] = "lr_raw" /\ Stores[6] = "pc" /\ Stores[7] = "r"
      /\ Stores[8] = "dfsr" /\ Stores[9] = "dfar" /\ Stores[10] = "ifsr" /\ Stores[11] = "crc32"
  BY DEF Stores
<1>2. \A i \in 1 .. 10 : \/ i = 1 \/ i = 2 \/ i = 3 \/ i = 4 \/ i = 5 \/ i = 6 \/ i = 7
                         \/ i = 8 \/ i = 9 \/ i = 10
  OBVIOUS
<1>3. 1 \in 1 .. 10 /\ 2 \in 1 .. 10 /\ 3 \in 1 .. 10 /\ 4 \in 1 .. 10 /\ 5 \in 1 .. 10
      /\ 6 \in 1 .. 10 /\ 7 \in 1 .. 10 /\ 8 \in 1 .. 10 /\ 9 \in 1 .. 10 /\ 10 \in 1 .. 10
  OBVIOUS
<1>4. \A i \in 1 .. 10 : Stores[i] \in FieldSet \ {"crc32"}
  BY <1>1, <1>2, FieldsAre
<1>5. \A f \in FieldSet \ {"crc32"} : \E i \in 1 .. 10 : Stores[i] = f
  BY <1>1, <1>3, FieldsAre
<1> QED
  BY <1>1, <1>4, <1>5

LEMMA FaultInitInv == FaultInit => FaultInv
<1> SUFFICES ASSUME FaultInit PROVE FaultInv
  OBVIOUS
<1>1. pm_record = [f \in FieldSet |-> Garbage] /\ faults = <<>> /\ faults \in Seq(Exceptions)
  BY DEF FaultInit, FieldSet
<1>2. Short(Garbage)
  BY FieldsAre DEF Short, Garbage
<1>3. SealIsOfOne
  BY <1>1, <1>2, FieldsAre DEF SealIsOfOne
<1> QED
  BY <1>1, <1>3 DEF FaultInit, FaultInv, StoredSoFar

LEMMA FaultStep ==
  ASSUME FaultInv, Fault
  PROVE  FaultInv'
<1>1. PICK t \in Types, lr \in Links :
        faults' = Append(faults, [exc_type |-> t, lr |-> lr, number |-> Len(faults) + 1])
  BY DEF Fault
<1> DEFINE x == [exc_type |-> t, lr |-> lr, number |-> Len(faults) + 1]
<1>2. faults \in Seq(Exceptions) /\ Len(faults) \in Nat /\ x \in Exceptions
  BY LenProperties DEF FaultInv, Exceptions
<1> HIDE DEF x
<1>3. /\ faults' \in Seq(Exceptions) /\ faults' # <<>> /\ Len(faults') = Len(faults) + 1
      /\ \A i \in 1 .. Len(faults) : faults'[i] = faults[i] /\ i \in 1 .. Len(faults')
  <2>1. faults' = Append(faults, x)
    BY <1>1 DEF x
  <2> QED
    BY <1>2, <2>1, AppendProperties
<1>4. UNCHANGED <<pm_record, uart>> /\ core' = [at |-> "save", next |-> 1]
  BY DEF Fault
<1>5. SealIsOfOne'
  BY <1>3, <1>4 DEF FaultInv, SealIsOfOne
<1>6. StoredSoFar'
  BY <1>3, <1>4, StoresAre DEF StoredSoFar
<1>7. uart'.tag = "OK" => Real(uart.words)'
  BY <1>3, <1>4 DEF FaultInv, Real
<1>8. core' \in [at : {"program", "save", "hook", "printed", "spin"}, next : Nat]
  BY <1>4
<1> QED
  BY <1>3, <1>5, <1>6, <1>7, <1>8 DEF FaultInv

LEMMA SaveStep ==
  ASSUME FaultInv, pm_save_from_exc
  PROVE  FaultInv'
<1> DEFINE f == Stores[core.next]
           v == Value(Latest, f, pm_record)
<1>1. /\ core.at = "save" /\ pm_record' = [pm_record EXCEPT ![f] = v]
      /\ core' = IF core.next = Len(Stores) THEN [at |-> "hook", next |-> 0]
                 ELSE [core EXCEPT !.next = @ + 1]
      /\ UNCHANGED <<faults, uart>>
  BY DEF pm_save_from_exc, Latest
<1>2. /\ core \in [at : {"program", "save", "hook", "printed", "spin"}, next : Nat]
      /\ core.next \in 1 .. Len(Stores) /\ faults # <<>> /\ faults \in Seq(Exceptions)
      /\ \A i \in 1 .. core.next - 1 : pm_record[Stores[i]] = Left(Latest, Stores[i])
  BY <1>1 DEF FaultInv, StoredSoFar
<1>3. /\ pm_record = [g \in FieldSet |-> pm_record[g]]
      /\ \A g \in FieldSet \ {"crc32"} : Short(pm_record[g])
  BY DEF FaultInv, SealIsOfOne
<1>4. Latest' = Latest /\ \A words : Real(words)' <=> Real(words)
  BY <1>1 DEF Latest, Real
<1>5. Len(faults) \in 1 .. Len(faults)
  BY <1>2, EmptySeq, LenProperties
<1>6. core' \in [at : {"program", "save", "hook", "printed", "spin"}, next : Nat]
  BY <1>1, <1>2
<1>7. CASE core.next # Len(Stores)
  <2>1. core.next \in 1 .. 10 /\ core'.at = "save" /\ core'.next = core.next + 1
    BY <1>1, <1>2, <1>7, StoresAre
  <2>2. f \in FieldSet \ {"crc32"} /\ v = Left(Latest, f) /\ Short(v)
    <3>1. f \in FieldSet \ {"crc32"}
      BY <2>1, StoresAre
    <3> HIDE DEF f
    <3>2. v = Left(Latest, f) /\ Len(v) = 1
      BY <3>1, ValueIs
    <3> HIDE DEF v
    <3> QED
      BY <3>1, <3>2, FieldsAre DEF Short
  <2> HIDE DEF f, v
  <2>3. /\ pm_record' = [g \in FieldSet |-> pm_record'[g]]
        /\ \A g \in FieldSet \ {"crc32"} : Short(pm_record'[g])
        /\ pm_record'["crc32"] = pm_record["crc32"] /\ pm_record'[f] = v
        /\ \A g \in FieldSet \ {f} : pm_record'[g] = pm_record[g]
    BY <1>1, <1>3, <2>2, FieldsAre
  <2>4. SealIsOfOne'
    BY <1>1, <2>3 DEF FaultInv, SealIsOfOne
  <2>5. StoredSoFar'
    <3>1. ASSUME NEW i \in 1 .. core'.next - 1
          PROVE  pm_record'[Stores[i]] = Left(Latest', Stores[i])
      <4>1. CASE Stores[i] = f
        BY <1>4, <2>2, <2>3, <4>1
      <4>2. CASE Stores[i] # f
        <5>1. i \in 1 .. core.next - 1 /\ i \in 1 .. 10
          BY <2>1, <4>2 DEF f
        <5> QED
          BY <1>2, <1>4, <2>3, <4>2, <5>1, StoresAre
      <4> QED
        BY <4>1, <4>2
    <3>2. core'.next \in 1 .. Len(Stores)
      BY <2>1, StoresAre
    <3> QED
      BY <1>1, <1>2, <2>1, <3>1, <3>2 DEF StoredSoFar
  <2> QED
    BY <1>1, <1>2, <1>4, <1>6, <2>4, <2>5 DEF FaultInv
<1>8. CASE core.next = Len(Stores)
  <2>1. core'.at = "hook" /\ f = "crc32" /\ core.next - 1 = 10
    BY <1>1, <1>8, StoresAre
  <2>2. \A g \in FieldSet \ {"crc32"} : pm_record[g] = Left(Latest, g)
    BY <1>2, <2>1, StoresAre
  <2>3. v = BodyOf(Latest)
    <3>1. SubSeq(WordsOf(pm_record), 1, RECORD_SIZE - 1) = BodyOf(Latest)
      BY <2>2, BodyIs
    <3> QED
      BY <2>1, <3>1 DEF Value, crc32
  <2> HIDE DEF f, v
  <2>4. /\ pm_record' = [g \in FieldSet |-> pm_record'[g]]
        /\ \A g \in FieldSet \ {"crc32"} : pm_record'[g] = pm_record[g]
        /\ pm_record'["crc32"] = BodyOf(Latest)
    BY <1>1, <1>3, <2>1, <2>3, FieldsAre
  <2>5. SealIsOfOne'
    BY <1>1, <1>3, <1>5, <2>4 DEF SealIsOfOne, Latest
  <2>6. WordsOf(pm_record') = Whole(Latest)
    <3>1. WordsOf(pm_record') = [i \in 1 .. 11 |-> pm_record'[Fields[i]]]
      BY WordsAre
    <3>2. ASSUME NEW i \in 1 .. 11
          PROVE  pm_record'[Fields[i]] = IF i = 11 THEN BodyOf(Latest) ELSE BodyOf(Latest)[i]
      <4>1. CASE i = 11
        BY <2>4, <4>1, FieldsAre
      <4>2. CASE i # 11
        <5>1. i \in 1 .. 10
          BY <4>2
        <5>2. Fields[i] \in FieldSet \ {"crc32"} /\ Left(Latest, Fields[i]) = BodyOf(Latest)[i]
          BY <5>1, ValueIs
        <5> QED
          BY <2>2, <2>4, <4>2, <5>2
      <4> QED
        BY <4>1, <4>2
    <3> QED
      BY <3>1, <3>2, WholeIs
  <2>7. StoredSoFar'
    BY <1>1, <1>2, <1>4, <2>1, <2>6 DEF StoredSoFar
  <2> QED
    BY <1>1, <1>2, <1>4, <1>6, <2>5, <2>7 DEF FaultInv
<1> QED
  BY <1>7, <1>8

LEMMA PrintStep ==
  ASSUME FaultInv, pm_print
  PROVE  FaultInv'
<1>1. core.at = "hook" /\ UNCHANGED <<pm_record, faults>>
  BY DEF pm_print
<1>2. core' \in [at : {"program", "save", "hook", "printed", "spin"}, next : Nat]
      /\ core'.at \in {"printed", "spin"}
  BY DEF pm_print, FaultInv
<1>3. WordsOf(pm_record) = Whole(Latest) /\ faults # <<>> /\ faults \in Seq(Exceptions)
  BY <1>1 DEF FaultInv, StoredSoFar
<1>4. Real(Whole(Latest))
  BY <1>3, EmptySeq, LenProperties DEF Real, Latest
<1>5. uart'.tag = "OK" => Real(uart.words)'
  <2>1. Real(uart.words)' <=> Real(uart'.words)
    BY <1>1 DEF Real
  <2>2. uart' = uart \/ uart'.words = WordsOf(pm_record)
    BY DEF pm_print, Printed
  <2> QED
    BY <1>3, <1>4, <2>1, <2>2 DEF FaultInv
<1>6. SealIsOfOne' /\ (\A words : Real(words)' <=> Real(words)) /\ Latest' = Latest
  BY <1>1 DEF FaultInv, SealIsOfOne, Real, Latest
<1>7. StoredSoFar'
  BY <1>1, <1>2, <1>3, <1>6 DEF StoredSoFar
<1> QED
  BY <1>1, <1>2, <1>3, <1>5, <1>6, <1>7 DEF FaultInv

LEMMA InvalidateStep ==
  ASSUME FaultInv, Invalidate
  PROVE  FaultInv'
<1>1. /\ core.at = "printed" /\ UNCHANGED <<faults, uart>>
      /\ pm_record' = [pm_record EXCEPT !["magic"] = <<0>>]
  BY DEF Invalidate
<1>2. core' \in [at : {"program", "save", "hook", "printed", "spin"}, next : Nat]
      /\ core'.at = "spin"
  BY DEF Invalidate, FaultInv
<1>3. "magic" \in FieldSet /\ "crc32" \in FieldSet /\ Short(<<0>>)
  BY FieldsAre DEF Short
<1>4. SealIsOfOne'
  BY <1>1, <1>3 DEF FaultInv, SealIsOfOne
<1> QED
  BY <1>1, <1>2, <1>4 DEF FaultInv, StoredSoFar, Real

LEMMA ResetStep ==
  ASSUME FaultInv, WarmReset \/ UNCHANGED faultVars
  PROVE  FaultInv'
<1>1. CASE WarmReset
  BY <1>1 DEF WarmReset, FaultInv, SealIsOfOne, StoredSoFar, Real, Latest
<1>2. CASE UNCHANGED faultVars
  BY <1>2 DEF faultVars, FaultInv, SealIsOfOne, StoredSoFar, Real, Latest
<1> QED
  BY <1>1, <1>2

LEMMA FaultInvariant == FaultSpec => []FaultInv
<1>1. FaultInv /\ [FaultNext]_faultVars => FaultInv'
  BY FaultStep, SaveStep, PrintStep, InvalidateStep, ResetStep DEF FaultNext
<1> QED
  BY FaultInitInv, <1>1, PTL DEF FaultSpec

LEMMA FaultInvImplies == FaultInv => ReportsOneException
<1> SUFFICES ASSUME FaultInv PROVE ReportsOneException
  OBVIOUS
<1> DEFINE w == WordsOf(pm_record)
<1>1. SealIsOfOne
  BY DEF FaultInv
<1>2. crc_ok(w) <=> Real(w)
  BY <1>1, SealedIsOne, WholeParses DEF Real
<1>3. \A words : Real(words) => ~Short(words[RECORD_SIZE])
  BY WholeParses DEF Real
<1>4. /\ Printed(w).words = w
      /\ Printed(w).tag = "OK" <=> crc_ok(w)
  BY DEF Printed
<1>5. core.at \in {"hook", "printed"} => w = Whole(Latest) /\ Prints(w) /\ crc_ok(w)
  BY WholeParses DEF FaultInv, StoredSoFar
<1> HIDE DEF w
<1>6. ASSUME NEW before \in Before, NEW out, out = decode(before \o w)
      PROVE  /\ \A p \in out : p.tag = "OK" <=> Real(p.words)
             /\ core.at \in {"hook", "printed"} =>
                  {p.words : p \in {p \in out : p.tag = "OK"}} = {Whole(Latest)}
  <2>1. /\ \A p \in out :
             \/ p = Printed(w) /\ Prints(w)
             \/ p.tag = "BAD" /\ Short(p.words[RECORD_SIZE])
        /\ Prints(w) => Printed(w) \in out
    BY <1>1, <1>6, DumpDecodes DEF w
  <2>2. "BAD" # "OK"
    OBVIOUS
  <2>3. \A p \in out : p.tag = "OK" <=> Real(p.words)
    BY <1>2, <1>3, <1>4, <2>1, <2>2
  <2>4. \A p \in out : p.tag = "OK" => p = Printed(w)
    BY <2>1, <2>2
  <2>5. ASSUME core.at \in {"hook", "printed"}
        PROVE  {p.words : p \in {p \in out : p.tag = "OK"}} = {Whole(Latest)}
    <3>1. Printed(w) \in out /\ Printed(w).tag = "OK" /\ Printed(w).words = Whole(Latest)
      BY <1>4, <1>5, <2>1, <2>5
    <3> QED
      BY <2>4, <3>1
  <2> QED
    BY <2>3, <2>5
<1>7. uart.tag = "OK" => Real(uart.words)
  BY DEF FaultInv
<1> QED
  BY <1>6, <1>7 DEF ReportsOneException, Latest, w

\* Whatever a reset interrupts and whenever the memory is dumped, what is printed
\* with the tag OK is one exception whole, and a record torn by a reset is printed
\* only as BAD (sdk/bsp/rpu/postmortem.c stores the checksum last,
\* tooling/pm_decode/src/main.rs tries every offset, prints and checks), for every
\* content before the record that holds no checksum.
THEOREM OneException == FaultSpec => []ReportsOneException
BY FaultInvariant, FaultInvImplies, PTL

-----------------------------------------------------------------------------
(***************************************************************************)
(* The JTAG bridge                                                         *)
(***************************************************************************)
Bytes ==
  {Levels(clock, mode, data) : clock \in Level, mode \in Level, data \in Level}
  \cup {Sample, Quit} \cup {Resets(srst, trst) : srst \in Level, trst \in Level}
Clocks == {Sequence(mode, data) : mode \in Level, data \in Level}
PinRequests == {Pins(trst, reset) : trst \in Level, reset \in Level}
Requests == Clocks \cup PinRequests

\* The bridge waits exactly while the engine has a request.
BridgeType ==
  /\ stream \in Seq(Bytes) /\ owed \in Seq(Requests)
  /\ request \in Requests \cup {NoRequest}
  /\ bridge \in {"reading", "waiting", "ended"} /\ (bridge = "waiting" <=> request # NoRequest)
  /\ tck \in Level

\* The requests in asked are what the bytes ask for, in order: the f[i]-th byte
\* asks for the i-th of them, and no other byte asks for anything.
AskedFor(asked, bytes, f) ==
  /\ f \in [1 .. Len(asked) -> 1 .. Len(bytes)]
  /\ \A i, j \in 1 .. Len(asked) : i < j => f[i] < f[j]
  /\ \A k \in 1 .. Len(bytes) : Request(bytes[k]) # NoRequest =>
       \E i \in 1 .. Len(asked) : f[i] = k
  /\ \A i \in 1 .. Len(asked) : asked[i] = Request(bytes[f[i]]) /\ asked[i] # NoRequest
Matches(asked, bytes) == \E f : AskedFor(asked, bytes, f)

\* The engine has a request for which the pins have not changed yet.
Begun == request # NoRequest /\ ~(request.op = "sequence" /\ tck = 1)
StillAsked == IF Begun THEN Tail(owed) ELSE owed

\* What is owed is the engine's request and then what the stream asks for; TCK is
\* low but in the middle of a clock.
OwedIsAsked ==
  bridge # "ended" =>
    /\ request \notin Clocks => tck = 0
    /\ Begun => owed # <<>> /\ Head(owed) = request
    /\ Matches(StillAsked, stream)

BridgeInv == BridgeType /\ OwedIsAsked

LEMMA RequestsAre ==
  /\ \A r \in Clocks : r.op = "sequence" /\ r = Sequence(r.mode, r.data) /\ r.mode \in Level /\ r.data \in Level
  /\ \A r \in PinRequests : r.op = "pins" /\ r = Pins(r.ntrst, r.nreset)
  /\ NoRequest.op = "none"
BY DEF Clocks, PinRequests, Sequence, Pins, NoRequest, Level

LEMMA BytesAsk ==
  /\ \A mode \in Level, data \in Level :
       /\ Levels(0, mode, data) \in Bytes /\ Levels(1, mode, data) \in Bytes
       /\ Request(Levels(0, mode, data)) = NoRequest
       /\ Request(Levels(1, mode, data)) = Sequence(mode, data)
  /\ \A srst \in Level, trst \in Level :
       /\ Resets(srst, trst) \in Bytes
       /\ Request(Resets(srst, trst)) = Pins(1 - trst, 1 - srst)
       /\ 1 - trst \in Level /\ 1 - srst \in Level
  /\ Sample \in Bytes /\ Request(Sample) = NoRequest
  /\ Quit \in Bytes /\ Request(Quit) = NoRequest
  /\ \A b \in Bytes : Request(b) \in Requests \cup {NoRequest}
<1>1. 0 \in Level /\ 1 \in Level /\ \A x \in Level : 1 - x \in Level
  BY DEF Level
<1>2. \A clock \in Level, mode \in Level, data \in Level :
        /\ Levels(clock, mode, data) \in Bytes
        /\ Request(Levels(clock, mode, data)) = IF clock = 1 THEN Sequence(mode, data) ELSE NoRequest
  BY DEF Bytes, Levels, Request
<1>3. \A srst \in Level, trst \in Level :
        /\ Resets(srst, trst) \in Bytes
        /\ Request(Resets(srst, trst)) = Pins(1 - trst, 1 - srst)
  BY DEF Bytes, Resets, Request
<1>4. /\ Sample \in Bytes /\ Request(Sample) = NoRequest
      /\ Quit \in Bytes /\ Request(Quit) = NoRequest
  BY DEF Bytes, Sample, Quit, Request
<1>5. \A b \in Bytes : Request(b) \in Requests \cup {NoRequest}
  BY <1>1, <1>2, <1>3, <1>4 DEF Bytes, Requests, Clocks, PinRequests
<1> QED
  BY <1>1, <1>2, <1>3, <1>4, <1>5

-----------------------------------------------------------------------------
\* Bytes that ask for nothing are appended.
LEMMA MatchQuiet ==
  ASSUME NEW asked, NEW bytes, NEW longer, Len(asked) \in Nat, Len(bytes) \in Nat,
         Matches(asked, bytes), Len(longer) \in Nat, Len(longer) >= Len(bytes),
         \A k \in 1 .. Len(bytes) : longer[k] = bytes[k],
         \A k \in Len(bytes) + 1 .. Len(longer) : Request(longer[k]) = NoRequest
  PROVE  Matches(asked, longer)
<1>1. PICK f : AskedFor(asked, bytes, f)
  BY DEF Matches
<1>2. AskedFor(asked, longer, f)
  <2>1. f \in [1 .. Len(asked) -> 1 .. Len(longer)]
    BY <1>1 DEF AskedFor
  <2>2. ASSUME NEW k \in 1 .. Len(longer), Request(longer[k]) # NoRequest
        PROVE  \E i \in 1 .. Len(asked) : f[i] = k
    <3>1. k \in 1 .. Len(bytes) /\ longer[k] = bytes[k]
      BY <2>2
    <3> QED
      BY <1>1, <2>2, <3>1 DEF AskedFor
  <2> QED
    BY <1>1, <2>1, <2>2 DEF AskedFor
<1> QED
  BY <1>2 DEF Matches

\* Of the bytes that are appended only the last asks for something.
LEMMA MatchAppend ==
  ASSUME NEW asked \in Seq(Requests), NEW q \in Requests, q # NoRequest,
         NEW bytes, NEW longer, Len(bytes) \in Nat,
         Matches(asked, bytes), Len(longer) \in Nat, Len(longer) > Len(bytes),
         \A k \in 1 .. Len(bytes) : longer[k] = bytes[k],
         \A k \in Len(bytes) + 1 .. Len(longer) - 1 : Request(longer[k]) = NoRequest,
         Request(longer[Len(longer)]) = q
  PROVE  Matches(Append(asked, q), longer)
<1>1. PICK f : AskedFor(asked, bytes, f)
  BY DEF Matches
<1> DEFINE more == Append(asked, q)
           n == Len(asked)
           g == [i \in 1 .. n + 1 |-> IF i = n + 1 THEN Len(longer) ELSE f[i]]
<1>2. /\ n \in Nat /\ Len(more) = n + 1 /\ more[n + 1] = q
      /\ \A i \in 1 .. n : more[i] = asked[i]
  BY AppendProperties, LenProperties
<1> HIDE DEF more, n
<1>3. /\ f \in [1 .. n -> 1 .. Len(bytes)] /\ \A i, j \in 1 .. n : i < j => f[i] < f[j]
      /\ \A k \in 1 .. Len(bytes) : Request(bytes[k]) # NoRequest => \E i \in 1 .. n : f[i] = k
      /\ \A i \in 1 .. n : asked[i] = Request(bytes[f[i]]) /\ asked[i] # NoRequest
  BY <1>1 DEF AskedFor, n
<1>4. \A i \in 1 .. n : i \in 1 .. n + 1 /\ i # n + 1 /\ g[i] = f[i] /\ f[i] \in 1 .. Len(bytes)
  BY <1>2, <1>3
<1>5. n + 1 \in 1 .. n + 1 /\ g[n + 1] = Len(longer)
  BY <1>2
<1>6. \A i \in 1 .. n + 1 : i \in 1 .. n \/ i = n + 1
  BY <1>2
<1>7. g \in [1 .. n + 1 -> 1 .. Len(longer)]
  <2>1. g = [i \in 1 .. n + 1 |-> g[i]]
    OBVIOUS
  <2> HIDE DEF g
  <2>2. \A i \in 1 .. n : g[i] \in 1 .. Len(longer)
    BY <1>4
  <2>3. g[n + 1] \in 1 .. Len(longer)
    BY <1>5
  <2> QED
    BY <1>6, <2>1, <2>2, <2>3
<1> HIDE DEF g
<1>8. ASSUME NEW i \in 1 .. n + 1, NEW j \in 1 .. n + 1, i < j PROVE g[i] < g[j]
  <2>1. i \in 1 .. n
    BY <1>2, <1>8
  <2> QED
    BY <1>3, <1>4, <1>5, <1>6, <1>8, <2>1
<1>9. ASSUME NEW k \in 1 .. Len(longer), Request(longer[k]) # NoRequest
      PROVE  \E i \in 1 .. n + 1 : g[i] = k
  <2>1. CASE k = Len(longer)
    BY <1>5, <2>1
  <2>2. CASE k # Len(longer)
    <3>1. k \in 1 .. Len(bytes) /\ longer[k] = bytes[k]
      BY <1>9, <2>2
    <3>2. PICK i \in 1 .. n : f[i] = k
      BY <1>3, <1>9, <3>1
    <3> QED
      BY <1>4, <3>2
  <2> QED
    BY <2>1, <2>2
<1>10. ASSUME NEW i \in 1 .. n + 1
       PROVE  more[i] = Request(longer[g[i]]) /\ more[i] # NoRequest
  BY <1>2, <1>3, <1>4, <1>5, <1>6
<1>11. AskedFor(more, longer, g)
  BY <1>2, <1>7, <1>8, <1>9, <1>10 DEF AskedFor
<1> QED
  BY <1>11 DEF Matches, more

\* The first byte is taken, and with it what it asks for.
LEMMA MatchTail ==
  ASSUME NEW asked \in Seq(Requests), NEW bytes \in Seq(Bytes), bytes # <<>>,
         Matches(asked, bytes)
  PROVE  /\ Request(Head(bytes)) = NoRequest => Matches(asked, Tail(bytes))
         /\ Request(Head(bytes)) # NoRequest =>
              asked # <<>> /\ Head(asked) = Request(Head(bytes)) /\ Matches(Tail(asked), Tail(bytes))
<1>1. PICK f : AskedFor(asked, bytes, f)
  BY DEF Matches
<1> DEFINE n == Len(asked)
           m == Len(bytes)
           rest == Tail(bytes)
           after == Tail(asked)
<1>2. /\ m \in Nat /\ m > 0 /\ Len(rest) = m - 1 /\ Head(bytes) = bytes[1]
      /\ \A k \in 1 .. m - 1 : rest[k] = bytes[k + 1]
  BY HeadTailProperties, LenProperties, EmptySeq
<1>3. n \in Nat
  BY LenProperties
<1>4. asked # <<>> => /\ Head(asked) = asked[1] /\ Len(after) = n - 1 /\ n > 0
                      /\ \A i \in 1 .. n - 1 : after[i] = asked[i + 1]
  BY HeadTailProperties, LenProperties, EmptySeq
<1>5. n = 0 <=> asked = <<>>
  BY EmptySeq, LenProperties
<1> HIDE DEF rest, after, n, m
<1>6. /\ f \in [1 .. n -> 1 .. m] /\ \A i, j \in 1 .. n : i < j => f[i] < f[j]
      /\ \A k \in 1 .. m : Request(bytes[k]) # NoRequest => \E i \in 1 .. n : f[i] = k
      /\ \A i \in 1 .. n : asked[i] = Request(bytes[f[i]]) /\ asked[i] # NoRequest
  BY <1>1 DEF AskedFor, n, m
<1>7. \A k \in 1 .. m - 1 : k + 1 \in 1 .. m
  BY <1>2
<1>8. ASSUME Request(Head(bytes)) = NoRequest
      PROVE  Matches(asked, rest)
  <2> DEFINE g == [i \in 1 .. n |-> f[i] - 1]
  <2>1. \A i \in 1 .. n : f[i] \in 1 .. m /\ f[i] # 1
    BY <1>2, <1>6, <1>8
  <2>2. \A i \in 1 .. n : g[i] = f[i] - 1 /\ g[i] \in 1 .. m - 1 /\ g[i] + 1 = f[i]
    BY <1>2, <2>1
  <2>3. g \in [1 .. n -> 1 .. m - 1]
    BY <2>2
  <2> HIDE DEF g
  <2>4. \A i, j \in 1 .. n : i < j => g[i] < g[j]
    BY <1>6, <2>1, <2>2
  <2>5. ASSUME NEW k \in 1 .. m - 1, Request(rest[k]) # NoRequest
        PROVE  \E i \in 1 .. n : g[i] = k
    <3>1. PICK i \in 1 .. n : f[i] = k + 1
      BY <1>2, <1>6, <1>7, <2>5
    <3> QED
      BY <2>2, <3>1
  <2>6. \A i \in 1 .. n : asked[i] = Request(rest[g[i]]) /\ asked[i] # NoRequest
    BY <1>2, <1>6, <2>2
  <2>7. AskedFor(asked, rest, g)
    BY <1>2, <2>3, <2>4, <2>5, <2>6 DEF AskedFor, n
  <2> QED
    BY <2>7 DEF Matches
<1>9. ASSUME Request(Head(bytes)) # NoRequest
      PROVE  asked # <<>> /\ Head(asked) = Request(Head(bytes)) /\ Matches(after, rest)
  <2>1. PICK i \in 1 .. n : f[i] = 1
    <3>1. 1 \in 1 .. m
      BY <1>2
    <3> QED
      BY <1>2, <1>6, <1>9, <3>1
  <2>2. n > 0 /\ f[1] = 1 /\ 1 \in 1 .. n
    <3>1. 1 \in 1 .. n /\ f[1] \in 1 .. m
      BY <1>3, <1>6, <2>1
    <3>2. i = 1 \/ f[1] < f[i]
      BY <1>3, <1>6, <2>1, <3>1
    <3> QED
      BY <1>2, <1>3, <2>1, <3>1, <3>2
  <2>3. asked # <<>> /\ Head(asked) = Request(Head(bytes))
    BY <1>2, <1>4, <1>5, <1>6, <2>2
  <2> DEFINE g == [j \in 1 .. n - 1 |-> f[j + 1] - 1]
  <2>4. \A j \in 1 .. n - 1 : j + 1 \in 1 .. n /\ f[j + 1] \in 1 .. m /\ f[1] < f[j + 1]
    BY <1>3, <1>6, <2>2
  <2>5. \A j \in 1 .. n - 1 : g[j] = f[j + 1] - 1 /\ g[j] \in 1 .. m - 1 /\ g[j] + 1 = f[j + 1]
    BY <1>2, <2>2, <2>4
  <2>6. g \in [1 .. n - 1 -> 1 .. m - 1]
    BY <2>5
  <2> HIDE DEF g
  <2>7. ASSUME NEW j \in 1 .. n - 1, NEW k \in 1 .. n - 1, j < k PROVE g[j] < g[k]
    <3>1. f[j + 1] < f[k + 1]
      BY <1>3, <1>6, <2>4, <2>7
    <3> QED
      BY <2>4, <2>5, <3>1
  <2>8. ASSUME NEW k \in 1 .. m - 1, Request(rest[k]) # NoRequest
        PROVE  \E j \in 1 .. n - 1 : g[j] = k
    <3>1. PICK j \in 1 .. n : f[j] = k + 1
      BY <1>2, <1>6, <1>7, <2>8
    <3>2. j # 1 /\ j - 1 \in 1 .. n - 1 /\ j - 1 + 1 = j
      BY <1>3, <2>2, <3>1
    <3> QED
      BY <2>5, <3>1, <3>2
  <2>9. ASSUME NEW j \in 1 .. n - 1
        PROVE  after[j] = Request(rest[g[j]]) /\ after[j] # NoRequest
    <3>1. after[j] = asked[j + 1] /\ asked # <<>>
      BY <1>4, <2>3
    <3>2. asked[j + 1] = Request(bytes[f[j + 1]]) /\ asked[j + 1] # NoRequest
      BY <1>6, <2>4
    <3>3. rest[g[j]] = bytes[f[j + 1]]
      BY <1>2, <2>5
    <3> QED
      BY <3>1, <3>2, <3>3
  <2>10. AskedFor(after, rest, g)
    BY <1>2, <1>4, <2>3, <2>6, <2>7, <2>8, <2>9 DEF AskedFor
  <2> QED
    BY <2>3, <2>10 DEF Matches
<1> QED
  BY <1>8, <1>9 DEF rest, after

-----------------------------------------------------------------------------
LEMMA BridgeInitInv == BridgeInit => BridgeInv
<1> SUFFICES ASSUME BridgeInit PROVE BridgeInv
  OBVIOUS
<1>1. BridgeType
  BY EmptySeq DEF BridgeInit, BridgeType, Level
<1>2. AskedFor(<<>>, <<>>, [i \in 1 .. 0 |-> 0])
  BY DEF AskedFor
<1>3. ~Begun /\ request \notin Clocks
  BY RequestsAre DEF BridgeInit, Begun
<1>4. OwedIsAsked
  BY <1>2, <1>3 DEF BridgeInit, OwedIsAsked, StillAsked, Matches
<1> QED
  BY <1>1, <1>4 DEF BridgeInv

\* The client writes bytes of which the last asks for q.
LEMMA AskStep ==
  ASSUME BridgeInv, NEW q \in Requests, q # NoRequest, owed' = Append(owed, q),
         stream' \in Seq(Bytes), Len(stream') > Len(stream),
         \A k \in 1 .. Len(stream) : stream'[k] = stream[k],
         \A k \in Len(stream) + 1 .. Len(stream') - 1 : Request(stream'[k]) = NoRequest,
         Request(stream'[Len(stream')]) = q,
         UNCHANGED <<bridge, request, tck>>
  PROVE  BridgeInv'
<1>1. stream \in Seq(Bytes) /\ owed \in Seq(Requests)
  BY DEF BridgeInv, BridgeType
<1>2. owed' \in Seq(Requests) /\ owed' # <<>>
      /\ owed # <<>> => Head(owed') = Head(owed) /\ Tail(owed') = Append(Tail(owed), q)
                        /\ Tail(owed) \in Seq(Requests)
  BY <1>1
<1>3. BridgeType'
  BY <1>2 DEF BridgeInv, BridgeType
<1>4. ASSUME bridge # "ended"
      PROVE  Matches(StillAsked', stream')
  <2>1. StillAsked \in Seq(Requests) /\ StillAsked' = Append(StillAsked, q)
    BY <1>1, <1>2, <1>4 DEF BridgeInv, OwedIsAsked, StillAsked, Begun
  <2>2. Matches(StillAsked, stream) /\ Len(stream) \in Nat /\ Len(stream') \in Nat
    BY <1>1, <1>4, LenProperties DEF BridgeInv, OwedIsAsked
  <2> QED
    BY <2>1, <2>2, MatchAppend
<1>5. OwedIsAsked'
  BY <1>2, <1>4 DEF BridgeInv, OwedIsAsked, Begun
<1> QED
  BY <1>3, <1>5 DEF BridgeInv

LEMMA ClocksStep ==
  ASSUME BridgeInv, NEW mode \in Level, NEW data \in Level, NEW look \in BOOLEAN,
         ClientClocks(mode, data, look)
  PROVE  BridgeInv'
<1> DEFINE low == Levels(0, mode, data)
           high == Levels(1, mode, data)
           n == Len(stream)
<1>1. stream \in Seq(Bytes) /\ n \in Nat
  BY LenProperties DEF BridgeInv, BridgeType
<1>2. /\ stream' = stream \o <<low>> \o (IF look THEN <<Sample>> ELSE <<>>) \o <<high>>
      /\ owed' = Append(owed, Sequence(mode, data)) /\ UNCHANGED <<bridge, request, tck>>
  BY DEF ClientClocks, pinVars
<1>3. /\ low \in Bytes /\ high \in Bytes /\ Request(low) = NoRequest
      /\ Request(high) = Sequence(mode, data)
      /\ Sample \in Bytes /\ Request(Sample) = NoRequest
  BY BytesAsk
<1> HIDE DEF low, high
<1>4. stream' = IF look THEN Append(Append(Append(stream, low), Sample), high)
                ELSE Append(Append(stream, low), high)
  <2>1. Append(stream, low) = stream \o <<low>> /\ Append(stream, low) \in Seq(Bytes)
    BY <1>1, <1>3, AppendIsConcat
  <2> DEFINE a == Append(stream, low)
  <2> HIDE DEF a
  <2>2. a \in Seq(Bytes) /\ a = stream \o <<low>>
    BY <2>1 DEF a
  <2>3. Append(a, Sample) = a \o <<Sample>> /\ Append(a, Sample) \in Seq(Bytes)
    BY <1>3, <2>2, AppendIsConcat, AppendProperties
  <2>4. Append(a, high) = a \o <<high>>
    BY <1>3, <2>2, AppendIsConcat
  <2>5. Append(Append(a, Sample), high) = Append(a, Sample) \o <<high>>
    BY <1>3, <2>3, AppendIsConcat
  <2>6. a \o <<>> = a
    BY <2>2, ConcatEmptySeq
  <2> QED
    BY <1>2, <2>2, <2>3, <2>4, <2>5, <2>6 DEF a
<1>5. /\ stream' \in Seq(Bytes) /\ Len(stream') > n
      /\ \A k \in 1 .. n : stream'[k] = stream[k]
      /\ \A k \in n + 1 .. Len(stream') - 1 : stream'[k] \in {low, Sample}
      /\ stream'[Len(stream')] = high
  <2> DEFINE a == Append(stream, low)
             b == Append(a, Sample)
             c == Append(b, high)
             e == Append(a, high)
  <2>1. a \in Seq(Bytes) /\ Len(a) = n + 1 /\ a[n + 1] = low /\ \A k \in 1 .. n : a[k] = stream[k]
    BY <1>1, <1>3, AppendProperties
  <2>2. b \in Seq(Bytes) /\ Len(b) = n + 2 /\ b[n + 2] = Sample /\ \A k \in 1 .. n + 1 : b[k] = a[k]
    <3> HIDE DEF a
    <3> QED
      BY <1>1, <1>3, <2>1, AppendProperties
  <2>3. c \in Seq(Bytes) /\ Len(c) = n + 3 /\ c[n + 3] = high /\ \A k \in 1 .. n + 2 : c[k] = b[k]
    <3> HIDE DEF b
    <3> QED
      BY <1>1, <1>3, <2>2, AppendProperties
  <2>4. e \in Seq(Bytes) /\ Len(e) = n + 2 /\ e[n + 2] = high /\ \A k \in 1 .. n + 1 : e[k] = a[k]
    <3> HIDE DEF a
    <3> QED
      BY <1>1, <1>3, <2>1, AppendProperties
  <2>5. stream' = IF look THEN c ELSE e
    BY <1>4
  <2> HIDE DEF a, b, c, e, n
  <2>6. CASE look
    <3>1. \A k \in n + 1 .. n + 2 : k = n + 1 \/ k = n + 2
      BY <1>1
    <3>2. c[n + 1] = low /\ c[n + 2] = Sample
      BY <1>1, <2>1, <2>2, <2>3
    <3>3. stream' = c
      BY <2>5, <2>6
    <3>4. \A k \in 1 .. n : c[k] = stream[k]
      <4> SUFFICES ASSUME NEW k \in 1 .. n PROVE c[k] = stream[k]
        OBVIOUS
      <4>1. k \in 1 .. n + 1 /\ k \in 1 .. n + 2
        BY <1>1
      <4> QED
        BY <2>1, <2>2, <2>3, <4>1
    <3>5. Len(stream') = n + 3 /\ Len(stream') > n /\ Len(stream') - 1 = n + 2
      <4>1. Len(stream') = n + 3
        BY <2>3, <3>3
      <4> QED
        BY <1>1, <4>1
    <3>6. \A k \in n + 1 .. n + 2 : c[k] \in {low, Sample}
      BY <3>1, <3>2
    <3>7. c \in Seq(Bytes) /\ c[n + 3] = high
      BY <2>3
    <3> QED
      BY <3>3, <3>4, <3>5, <3>6, <3>7
  <2>7. CASE ~look
    <3>1. \A k \in n + 1 .. n + 1 : k = n + 1
      BY <1>1
    <3>2. e[n + 1] = low
      BY <1>1, <2>1, <2>4
    <3> QED
      BY <1>1, <2>1, <2>4, <2>5, <2>7, <3>1, <3>2
  <2> QED
    BY <2>6, <2>7
<1>6. Sequence(mode, data) \in Requests /\ Sequence(mode, data) # NoRequest
  BY DEF Requests, Clocks, Sequence, NoRequest
<1> QED
  BY <1>2, <1>3, <1>5, <1>6, AskStep

LEMMA ResetsStep ==
  ASSUME BridgeInv, NEW srst \in Level, NEW trst \in Level, ClientResets(srst, trst)
  PROVE  BridgeInv'
<1> DEFINE q == Pins(1 - trst, 1 - srst)
           r == Resets(srst, trst)
<1>1. stream \in Seq(Bytes) /\ Len(stream) \in Nat
  BY LenProperties DEF BridgeInv, BridgeType
<1>2. stream' = Append(stream, r) /\ owed' = Append(owed, q) /\ UNCHANGED <<bridge, request, tck>>
  BY DEF ClientResets, pinVars
<1>3. r \in Bytes /\ Request(r) = q /\ q \in Requests /\ q # NoRequest
  BY BytesAsk DEF Requests, PinRequests, Pins, NoRequest
<1> HIDE DEF q, r
<1>4. /\ stream' \in Seq(Bytes) /\ Len(stream') = Len(stream) + 1
      /\ stream'[Len(stream) + 1] = r /\ \A k \in 1 .. Len(stream) : stream'[k] = stream[k]
  BY <1>1, <1>2, <1>3, AppendProperties
<1> QED
  BY <1>1, <1>2, <1>3, <1>4, AskStep

LEMMA QuitStep ==
  ASSUME BridgeInv, ClientQuits
  PROVE  BridgeInv'
<1>1. stream \in Seq(Bytes) /\ owed \in Seq(Requests) /\ Len(stream) \in Nat
  BY LenProperties DEF BridgeInv, BridgeType
<1>2. stream' = Append(stream, Quit) /\ UNCHANGED <<owed, bridge, request, tck>>
  BY DEF ClientQuits, pinVars
<1>3. /\ stream' \in Seq(Bytes) /\ Len(stream') = Len(stream) + 1
      /\ stream'[Len(stream) + 1] = Quit /\ \A k \in 1 .. Len(stream) : stream'[k] = stream[k]
  BY <1>1, <1>2, BytesAsk, AppendProperties
<1>4. BridgeType' /\ StillAsked' = StillAsked /\ Begun' = Begun
  BY <1>2, <1>3 DEF BridgeInv, BridgeType, StillAsked, Begun
<1>5. ASSUME bridge # "ended" PROVE Matches(StillAsked, stream')
  <2>1. Len(StillAsked) \in Nat
    <3>1. StillAsked \in Seq(Requests)
      BY <1>1, <1>5 DEF BridgeInv, OwedIsAsked, StillAsked
    <3> QED
      BY <3>1, LenProperties
  <2>2. \A k \in Len(stream) + 1 .. Len(stream') : Request(stream'[k]) = NoRequest
    <3>1. \A k \in Len(stream) + 1 .. Len(stream') : k = Len(stream) + 1
      BY <1>1, <1>3
    <3> QED
      BY <1>3, <3>1, BytesAsk
  <2> QED
    BY <1>1, <1>3, <1>5, <2>1, <2>2, MatchQuiet DEF BridgeInv, OwedIsAsked
<1> QED
  BY <1>2, <1>4, <1>5 DEF BridgeInv, OwedIsAsked

LEMMA TakeStep ==
  ASSUME BridgeInv, TakeByte
  PROVE  BridgeInv'
<1> DEFINE byte == Head(stream)
<1>1. /\ bridge = "reading" /\ stream # <<>> /\ stream \in Seq(Bytes) /\ owed \in Seq(Requests)
      /\ request = NoRequest /\ tck = 0 /\ tck \in Level
      /\ Matches(owed, stream)
  BY RequestsAre DEF TakeByte, BridgeInv, BridgeType, OwedIsAsked, StillAsked, Begun, Requests
<1>2. /\ stream' = Tail(stream) /\ request' = Request(byte)
      /\ bridge' = IF byte = Quit THEN "ended" ELSE IF request' # NoRequest THEN "waiting" ELSE "reading"
      /\ UNCHANGED <<owed, tck>>
  BY DEF TakeByte, pinVars
<1>3. byte \in Bytes /\ stream' \in Seq(Bytes)
  BY <1>1, <1>2, HeadTailProperties
<1>4. request' \in Requests \cup {NoRequest} /\ (byte = Quit => request' = NoRequest)
  BY <1>2, <1>3, BytesAsk
<1>5. BridgeType'
  BY <1>1, <1>2, <1>3, <1>4 DEF BridgeType
<1>6. CASE request' = NoRequest
  <2>1. Matches(owed, stream') /\ ~Begun'
    BY <1>1, <1>2, <1>6, MatchTail DEF Begun
  <2> QED
    BY <1>1, <1>2, <1>5, <2>1 DEF BridgeInv, OwedIsAsked, StillAsked
<1>7. CASE request' # NoRequest
  <2>1. owed # <<>> /\ Head(owed) = request' /\ Matches(Tail(owed), stream') /\ Begun'
    BY <1>1, <1>2, <1>7, MatchTail DEF Begun
  <2> QED
    BY <1>1, <1>2, <1>5, <2>1 DEF BridgeInv, OwedIsAsked, StillAsked
<1> QED
  BY <1>6, <1>7

\* The engine's steps, and what the pins show then.
LEMMA EngineStep ==
  ASSUME BridgeInv, ClockRises \/ ClockFalls \/ PinsChange \/ EngineFails
  PROVE  BridgeInv'
<1>1. /\ stream \in Seq(Bytes) /\ owed \in Seq(Requests) /\ request \in Requests \cup {NoRequest}
      /\ tck \in Level /\ 0 \in Level /\ 1 \in Level /\ NoRequest \notin Requests
  BY RequestsAre DEF BridgeInv, BridgeType, Level, Requests
<1>2. owed # <<>> => Paid(owed) = Tail(owed) /\ Tail(owed) \in Seq(Requests)
  BY <1>1, HeadTailProperties DEF Paid
<1>3. Paid(owed) \in Seq(Requests)
  BY <1>1, <1>2 DEF Paid
<1>4. CASE ClockRises
  <2>1. /\ request \in Clocks /\ tck = 0 /\ bridge = "waiting" /\ Begun
        /\ tck' = 1 /\ owed' = Paid(owed) /\ UNCHANGED <<stream, bridge, request>>
    BY <1>1, <1>4, RequestsAre DEF ClockRises, BridgeInv, BridgeType, Begun, Requests
  <2>2. ~Begun' /\ owed # <<>> /\ Matches(Tail(owed), stream)
    BY <2>1, RequestsAre DEF BridgeInv, OwedIsAsked, StillAsked, Begun
  <2> QED
    BY <1>1, <1>2, <1>3, <2>1, <2>2 DEF BridgeInv, BridgeType, OwedIsAsked, StillAsked
<1>5. CASE ClockFalls
  <2>1. /\ request \in Clocks /\ tck = 1 /\ bridge = "waiting" /\ ~Begun
        /\ tck' = 0 /\ request' = NoRequest /\ bridge' = "reading" /\ UNCHANGED <<stream, owed>>
    BY <1>1, <1>5, RequestsAre DEF ClockFalls, Answer, BridgeInv, BridgeType, Begun, Requests
  <2>2. ~Begun' /\ Matches(owed, stream)
    BY <2>1 DEF BridgeInv, OwedIsAsked, StillAsked, Begun
  <2> QED
    BY <1>1, <2>1, <2>2 DEF BridgeInv, BridgeType, OwedIsAsked, StillAsked
<1>6. CASE PinsChange
  <2>1. /\ request \in PinRequests /\ request \notin Clocks /\ bridge = "waiting" /\ Begun
        /\ request' = NoRequest /\ bridge' = "reading" /\ owed' = Paid(owed)
        /\ UNCHANGED <<stream, tck>>
    BY <1>1, <1>6, RequestsAre DEF PinsChange, Answer, BridgeInv, BridgeType, Begun, Requests
  <2>2. ~Begun' /\ tck = 0 /\ owed # <<>> /\ Matches(Tail(owed), stream)
    BY <2>1 DEF BridgeInv, OwedIsAsked, StillAsked, Begun
  <2> QED
    BY <1>1, <1>2, <1>3, <2>1, <2>2 DEF BridgeInv, BridgeType, OwedIsAsked, StillAsked
<1>7. CASE EngineFails
  BY <1>1, <1>7 DEF EngineFails, BridgeInv, BridgeType, OwedIsAsked, pinVars
<1> QED
  BY <1>4, <1>5, <1>6, <1>7

LEMMA BridgeInvariant == BridgeSpec => []BridgeInv
<1>1. BridgeInv /\ [BridgeNext]_bridgeVars => BridgeInv'
  <2> SUFFICES ASSUME BridgeInv, [BridgeNext]_bridgeVars PROVE BridgeInv'
    OBVIOUS
  <2>1. CASE UNCHANGED bridgeVars
    BY <2>1 DEF bridgeVars, BridgeInv, BridgeType, OwedIsAsked, StillAsked, Begun
  <2>2. CASE BridgeNext
    BY <2>2, ClocksStep, ResetsStep, QuitStep, TakeStep, EngineStep DEF BridgeNext
  <2> QED
    BY <2>1, <2>2
<1> QED
  BY BridgeInitInv, <1>1, PTL DEF BridgeSpec

LEMMA PinsFollow ==
  BridgeInv /\ [BridgeNext]_bridgeVars =>
    [/\ tck' > tck => owed # <<>> /\ Head(owed) = Sequence(tms', tdi')
     /\ <<ntrst, nreset>>' # <<ntrst, nreset>> =>
          owed # <<>> /\ Head(owed) = Pins(ntrst', nreset')]_bridgeVars
<1> SUFFICES ASSUME BridgeInv, BridgeNext
             PROVE  /\ tck' > tck => owed # <<>> /\ Head(owed) = Sequence(tms', tdi')
                    /\ <<ntrst, nreset>>' # <<ntrst, nreset>> =>
                         owed # <<>> /\ Head(owed) = Pins(ntrst', nreset')
  OBVIOUS
<1>1. tck \in Level /\ request \in Requests \cup {NoRequest} /\ NoRequest \notin Requests
      /\ (request # NoRequest => bridge = "waiting")
      /\ \A a \in Level : ~(0 > a) /\ ~(a > a)
  BY RequestsAre DEF BridgeInv, BridgeType, Requests, Level
<1>2. CASE ClockRises
  <2>1. request \in Clocks /\ Begun /\ UNCHANGED <<ntrst, nreset>>
        /\ tms' = request.mode /\ tdi' = request.data
    BY <1>1, <1>2, RequestsAre DEF ClockRises, Begun, Requests
  <2> QED
    BY <1>1, <2>1, RequestsAre DEF BridgeInv, OwedIsAsked, Requests
<1>3. CASE PinsChange
  <2>1. request \in PinRequests /\ Begun /\ UNCHANGED tck
        /\ ntrst' = request.ntrst /\ nreset' = request.nreset
    BY <1>1, <1>3, RequestsAre DEF PinsChange, Begun, Requests
  <2> QED
    BY <1>1, <2>1, RequestsAre DEF BridgeInv, OwedIsAsked, Requests
<1>4. CASE ClockFalls
  BY <1>1, <1>4 DEF ClockFalls
<1>5. CASE UNCHANGED pinVars
  BY <1>1, <1>5 DEF pinVars
<1> QED
  BY <1>2, <1>3, <1>4, <1>5
     DEF BridgeNext, ClientClocks, ClientResets, ClientQuits, TakeByte, EngineFails

\* Every rising edge of TCK and every change of the resets is the first that is
\* still owed to the client, with the levels it asked for, whatever the client
\* writes ahead and wherever the engine fails (remote_bitbang of the host command
\* line, model/src/main.rs:171-225).
THEOREM PinsInLockstep == BridgeSpec => InLockstep
BY BridgeInvariant, PinsFollow, PTL DEF BridgeSpec, InLockstep

-----------------------------------------------------------------------------
(***************************************************************************)
(* What a test of the board leaves behind                                  *)
(***************************************************************************)
\* Before the request nothing has happened.
NothingYet ==
  /\ job = NoJob \/ job \in Jobs
  /\ job = NoJob => main = "off" /\ rc = Running /\ tool = "none" /\ ~tmp
  /\ main # "off" => rc = Running

\* Where the script and a running tool may be found, and whose they are.
WhereTheyAre ==
  /\ tmp => \/ main \in {"wait tool", "join"}
            \/ main = "off" /\ job # NoJob /\ job.lacks = "disk"
  /\ tool = "running" =>
       \/ main \in {"psu", "wait tool"}
       \/ main = "join" /\ job.program = "watch-r5"
       \/ main = "off" /\ thread = "error"
  /\ main = "psu" => tool \in {"none", "running", "ok", "bad"}
  /\ main = "launch" => job.program # "serial-watch"

WatchInv == NothingYet /\ WhereTheyAre

\* An ended program has main off, and before it began the exit code is not set.
LEMMA WatchInvImplies == WatchInv => NothingLeftBehind
BY DEF WatchInv, NothingYet, WhereTheyAre, NothingLeftBehind, Ended

LEMMA JobsAre ==
  /\ \A j \in Jobs : j.program \in {"serial-watch", "watch-r5", "watch-a53"}
  /\ NoJob.program = "none"
BY DEF Jobs, NoJob, Program

LEMMA WatchInitInv == WatchInit => WatchInv
BY DEF WatchInit, WatchInv, NothingYet, WhereTheyAre

LEMMA WatchStep == WatchInv /\ [WatchNext]_watchVars => WatchInv'
<1> SUFFICES ASSUME WatchInv, [WatchNext]_watchVars PROVE WatchInv'
  OBVIOUS
<1> USE DEF WatchInv, NothingYet, WhereTheyAre, lineVars, watchThreadOnly, Exit, GoOn
<1>1. CASE Start
  <2>1. job' \in Jobs /\ job' # NoJob /\ tool = "none" /\ ~tmp /\ UNCHANGED <<tool, tmp>>
    BY <1>1, JobsAre DEF Start
  <2>2. main' \in {"psu", "off", "spawn watch"} /\ (main' # "off" => rc' = Running)
    BY <1>1 DEF Start
  <2> QED
    BY <2>1, <2>2
<1>2. CASE Alive /\ PsuInit
  BY <1>2, JobsAre DEF PsuInit, Alive
<1>3. CASE Alive /\ spawn_serial_watch
  BY <1>3, JobsAre DEF spawn_serial_watch, Alive
<1>4. CASE Alive /\ Launch
  BY <1>4, JobsAre DEF Launch, Alive
<1>5. CASE Alive /\ WaitTool
  BY <1>5 DEF WaitTool, Alive
<1>6. CASE Alive /\ Join
  BY <1>6 DEF Join, Alive, Reaped, Running
<1>7. CASE Alive /\ (CheckTime \/ Tick)
  <2>1. main # "off" /\ UNCHANGED <<job, main, tool, tmp, rc>>
    BY <1>7 DEF CheckTime, Tick, Alive
  <2> QED
    BY <2>1
<1>8. ASSUME NEW bytes, Alive /\ Receive(bytes) PROVE WatchInv'
  BY <1>8 DEF Receive, Alive
<1>9. ASSUME NEW outcome, Alive /\ ReadFails(outcome) PROVE WatchInv'
  BY <1>9 DEF ReadFails, Alive
<1>10. ASSUME NEW status \in {"ok", "bad"}, Alive /\ ToolEnds(status) PROVE WatchInv'
  BY <1>10 DEF ToolEnds, Alive
<1>11. CASE UNCHANGED watchVars
  BY <1>11 DEF watchVars
<1>12. CASE Alive /\ ScriptFails
  BY <1>12, JobsAre DEF ScriptFails, NoScript, Alive
<1> QED
  BY <1>1, <1>2, <1>3, <1>4, <1>5, <1>6, <1>7, <1>8, <1>9, <1>10, <1>11, <1>12 DEF WatchNext

\* A program that has ended has unlinked its script and reaped its tool, whatever
\* failed and whoever was slow, but for a script that could not be written to its
\* end, which stays (tooling/zub_ctl/src/main.rs:458-461), and for an error of the
\* serial port, after which OpenOCD goes on (main.rs:419, 476-481).
THEOREM LeftBehind == WatchSpec => []NothingLeftBehind
<1>1. WatchSpec => []WatchInv
  BY WatchInitInv, WatchStep, PTL DEF WatchSpec
<1> QED
  BY <1>1, WatchInvImplies, PTL

-----------------------------------------------------------------------------
(***************************************************************************)
(* The verdict on what the board prints                                    *)
(***************************************************************************)
Letters == Text \cup {Double, Lost}
Characters == Letters \cup {NewLine}
Texts == Seq(Characters)
Upto(t, e) == {k \in Ends(t) : k <= e}

LEMMA NewLineApart == NewLine \notin Letters
BY WatchAssumption DEF Letters

LEMMA OneMore ==
  ASSUME NEW t \in Texts, NEW c \in Characters
  PROVE  /\ Append(t, c) \in Texts /\ Len(Append(t, c)) = Len(t) + 1
         /\ \A i \in 1 .. Len(t) : Append(t, c)[i] = t[i]
         /\ Append(t, c)[Len(t) + 1] = c
         /\ Len(t) \in Nat /\ DOMAIN t = 1 .. Len(t)
         /\ DOMAIN Append(t, c) = 1 .. Len(t) + 1
  BY DEF Texts

\* What was complete stays as it is.
LEMMA LinesStay ==
  ASSUME NEW t \in Texts, NEW c \in Characters, NEW e \in Nat, e <= Len(t)
  PROVE  /\ Upto(Append(t, c), e) = Upto(t, e)
         /\ \A k \in Upto(t, e) : LineAt(Append(t, c), k) = LineAt(t, k)
<1> DEFINE u == Append(t, c)
<1>1. \A i \in 1 .. Len(t) : u[i] = t[i]
  BY OneMore
<1>2. DOMAIN u = 1 .. Len(t) + 1 /\ DOMAIN t = 1 .. Len(t) /\ Len(t) \in Nat
  BY OneMore
<1> HIDE DEF u
<1>3. Upto(u, e) = Upto(t, e)
  BY <1>1, <1>2 DEF Upto, Ends
<1>4. ASSUME NEW k \in Upto(t, e) PROVE LineAt(u, k) = LineAt(t, k)
  <2>1. k \in 1 .. Len(t)
    BY <1>2 DEF Upto, Ends
  <2>2. \A i \in 1 .. k - 1 : u[i] = t[i] /\ \A j \in i .. k - 1 : u[j] = t[j]
    BY <1>1, <1>2, <2>1
  <2> QED
    BY <2>2 DEF LineAt
<1> QED
  BY <1>3, <1>4 DEF u

LEMMA FineStays ==
  ASSUME NEW t \in Texts, NEW c \in Characters, NEW e \in Nat, e <= Len(t)
  PROVE  Fine(Append(t, c), e) <=> Fine(t, e)
<1>1. \A s : Fine(s, e) <=> \A k \in Upto(s, e) : FailOn \cap LineAt(s, k) = {}
  BY DEF Fine, Upto
<1> QED
  BY <1>1, LinesStay

LEMMA FoundStays ==
  ASSUME NEW t \in Texts, NEW c \in Characters, NEW e \in Nat, e <= Len(t), NEW n \in Nat
  PROVE  Found(Append(t, c), e, n) <=> Found(t, e, n)
<1> DEFINE P(s, f) ==
      /\ \A i \in 1 .. n : job.expect[i] \in LineAt(s, f[i])
      /\ \A i, j \in 1 .. n : i < j => f[i] < f[j]
<1>1. \A s : Found(s, e, n) <=> \E f \in [1 .. n -> Upto(s, e)] : P(s, f)
  BY DEF Found, Upto
<1>2. \A f \in [1 .. n -> Upto(t, e)] : P(Append(t, c), f) <=> P(t, f)
  BY LinesStay
<1>3. Upto(Append(t, c), e) = Upto(t, e)
  BY LinesStay
<1> HIDE DEF P
<1> QED
  BY <1>1, <1>2, <1>3

\* Fewer patterns are found where more are, and what is found stays so further on.
LEMMA FoundLess ==
  ASSUME NEW t \in Texts, NEW d \in Nat, NEW e \in Nat, d <= e,
         NEW n \in Nat, NEW m \in Nat, m <= n, Found(t, d, n)
  PROVE  Found(t, e, m)
<1>1. PICK f \in [1 .. n -> {k \in Ends(t) : k <= d}] :
         /\ \A i \in 1 .. n : job.expect[i] \in LineAt(t, f[i])
         /\ \A i, j \in 1 .. n : i < j => f[i] < f[j]
  BY DEF Found
<1> DEFINE g == [i \in 1 .. m |-> f[i]]
<1>2. \A k \in Ends(t) : k \in Nat
  BY OneMore DEF Ends, Texts
<1>3. g \in [1 .. m -> {k \in Ends(t) : k <= e}]
  BY <1>1, <1>2
<1>4. \A i \in 1 .. m : i \in 1 .. n /\ g[i] = f[i]
  OBVIOUS
<1>5. /\ \A i \in 1 .. m : job.expect[i] \in LineAt(t, g[i])
      /\ \A i, j \in 1 .. m : i < j => g[i] < g[j]
  BY <1>1, <1>4
<1> HIDE DEF g
<1> QED
  BY <1>3, <1>5 DEF Found

LEMMA FineLess ==
  ASSUME NEW t \in Texts, NEW d \in Nat, NEW e \in Nat, d <= e, Fine(t, e)
  PROVE  Fine(t, d)
<1>1. \A k \in Ends(t) : k \in Nat
  BY OneMore DEF Ends, Texts
<1> QED
  BY <1>1 DEF Fine

\* A line that ends at e is the line of the last pattern, or of none.
LEMMA FoundAt ==
  ASSUME NEW t \in Texts, NEW e \in Ends(t), NEW n \in Nat
  PROVE  Found(t, e, n + 1) <=>
           \/ Found(t, e - 1, n + 1)
           \/ Found(t, e - 1, n) /\ job.expect[n + 1] \in LineAt(t, e)
<1>1. \A k \in Ends(t) : k \in Nat /\ k >= 1
  BY OneMore DEF Ends, Texts
<1>2. e \in Nat /\ e - 1 \in Nat /\ e - 1 <= e
  BY <1>1
<1>3. Found(t, e - 1, n + 1) => Found(t, e, n + 1)
  BY <1>2, FoundLess
<1>4. ASSUME Found(t, e - 1, n), job.expect[n + 1] \in LineAt(t, e) PROVE Found(t, e, n + 1)
  <2>1. PICK f \in [1 .. n -> {k \in Ends(t) : k <= e - 1}] :
           /\ \A i \in 1 .. n : job.expect[i] \in LineAt(t, f[i])
           /\ \A i, j \in 1 .. n : i < j => f[i] < f[j]
    BY <1>4 DEF Found
  <2> DEFINE g == [i \in 1 .. n + 1 |-> IF i = n + 1 THEN e ELSE f[i]]
  <2>2. \A i \in 1 .. n + 1 : i = n + 1 \/ i \in 1 .. n
    OBVIOUS
  <2>7. ASSUME NEW i \in 1 .. n
        PROVE  f[i] \in Ends(t) /\ f[i] \in Nat /\ f[i] < e /\ g[i] = f[i]
    <3>1. f[i] \in Ends(t) /\ f[i] <= e - 1
      BY <2>1
    <3>2. i # n + 1 /\ i \in 1 .. n + 1
      OBVIOUS
    <3>3. g[i] = f[i]
      BY <3>2
    <3> HIDE DEF g
    <3>4. f[i] \in Nat
      BY <1>1, <3>1
    <3>5. \A a, b \in Nat : a <= b - 1 => a < b
      OBVIOUS
    <3>6. f[i] < e
      BY <1>2, <3>1, <3>4, <3>5
    <3> QED
      BY <3>1, <3>3, <3>4, <3>6
  <2>8. g[n + 1] = e
    OBVIOUS
  <2>3. g \in [1 .. n + 1 -> {k \in Ends(t) : k <= e}]
    <3> SUFFICES ASSUME NEW i \in 1 .. n + 1 PROVE g[i] \in {k \in Ends(t) : k <= e}
      OBVIOUS
    <3> HIDE DEF g
    <3>1. CASE i = n + 1
      BY <1>2, <2>8, <3>1
    <3>2. CASE i \in 1 .. n
      BY <1>2, <2>7, <3>2
    <3> QED
      BY <2>2, <3>1, <3>2
  <2>4. \A i \in 1 .. n + 1 : job.expect[i] \in LineAt(t, g[i])
    BY <1>4, <2>1, <2>2
  <2>5. ASSUME NEW i \in 1 .. n + 1, NEW j \in 1 .. n + 1, i < j PROVE g[i] < g[j]
    <3>1. i \in 1 .. n
      BY <2>5
    <3> HIDE DEF g
    <3>2. CASE j = n + 1
      BY <2>7, <2>8, <3>1, <3>2
    <3>3. CASE j \in 1 .. n
      BY <2>1, <2>5, <2>7, <3>1, <3>3
    <3> QED
      BY <2>2, <3>2, <3>3
  <2> HIDE DEF g
  <2>6. n + 1 \in Nat
    OBVIOUS
  <2> QED
    BY <2>3, <2>4, <2>5 DEF Found
<1>5. ASSUME Found(t, e, n + 1), ~Found(t, e - 1, n + 1)
      PROVE  Found(t, e - 1, n) /\ job.expect[n + 1] \in LineAt(t, e)
  <2>1. PICK f \in [1 .. n + 1 -> {k \in Ends(t) : k <= e}] :
           /\ \A i \in 1 .. n + 1 : job.expect[i] \in LineAt(t, f[i])
           /\ \A i, j \in 1 .. n + 1 : i < j => f[i] < f[j]
    BY <1>5 DEF Found
  <2>2. \A i \in 1 .. n + 1 : f[i] \in Ends(t) /\ f[i] \in Nat /\ f[i] <= e
    BY <1>1, <2>1
  <2>3. \A i \in 1 .. n : i \in 1 .. n + 1 /\ i < n + 1
    OBVIOUS
  <2>4. n + 1 \in 1 .. n + 1
    OBVIOUS
  <2>5. f[n + 1] = e
    <3>1. ASSUME f[n + 1] # e PROVE FALSE
      <4>1. \A i \in 1 .. n + 1 : f[i] <= f[n + 1]
        BY <2>1, <2>2, <2>3, <2>4
      <4>2. f \in [1 .. n + 1 -> {k \in Ends(t) : k <= e - 1}]
        BY <1>2, <2>1, <2>2, <2>4, <3>1, <4>1
      <4> QED
        BY <1>5, <2>1, <4>2 DEF Found
    <3> QED
      BY <3>1
  <2> DEFINE g == [i \in 1 .. n |-> f[i]]
  <2>6. g \in [1 .. n -> {k \in Ends(t) : k <= e - 1}]
    BY <1>2, <2>1, <2>2, <2>3, <2>4, <2>5
  <2>7. Found(t, e - 1, n)
    BY <2>1, <2>3, <2>6 DEF Found
  <2> QED
    BY <2>1, <2>4, <2>5, <2>7
<1> QED
  BY <1>3, <1>4, <1>5

-----------------------------------------------------------------------------
\* The buffer holds what follows the last newline.
RestIs(t, b) ==
  /\ b \in Seq(Letters) /\ Len(b) <= Len(t)
  /\ \A i \in 1 .. Len(b) : b[i] = t[Len(t) - Len(b) + i]
  /\ Len(b) < Len(t) => t[Len(t) - Len(b)] = NewLine

LEMMA RestOn ==
  ASSUME NEW t \in Texts, NEW b, RestIs(t, b), NEW c \in Characters, c # NewLine
  PROVE  RestIs(Append(t, c), Append(b, c))
<1> DEFINE u == Append(t, c)
           d == Append(b, c)
<1>1. c \in Letters /\ b \in Seq(Letters) /\ Len(b) \in Nat /\ Len(t) \in Nat /\ Len(b) <= Len(t)
  BY OneMore DEF RestIs, Characters
<1>2. d \in Seq(Letters) /\ Len(d) = Len(b) + 1 /\ d[Len(b) + 1] = c
      /\ \A i \in 1 .. Len(b) : d[i] = b[i]
  BY <1>1
<1>3. Len(u) = Len(t) + 1 /\ u[Len(t) + 1] = c /\ \A i \in 1 .. Len(t) : u[i] = t[i]
  BY OneMore
<1> HIDE DEF u, d
<1>4. ASSUME NEW i \in 1 .. Len(d) PROVE d[i] = u[Len(u) - Len(d) + i]
  <2>1. CASE i = Len(d)
    BY <1>1, <1>2, <1>3, <2>1
  <2>2. CASE i # Len(d)
    <3>1. i \in 1 .. Len(b) /\ Len(u) - Len(d) + i = Len(t) - Len(b) + i
      BY <1>1, <1>2, <1>3, <2>2
    <3>2. Len(t) - Len(b) + i \in 1 .. Len(t)
      BY <1>1, <3>1
    <3> QED
      BY <1>2, <1>3, <3>1, <3>2 DEF RestIs
  <2> QED
    BY <2>1, <2>2
<1>5. ASSUME Len(d) < Len(u) PROVE u[Len(u) - Len(d)] = NewLine
  <2>1. Len(b) < Len(t) /\ Len(u) - Len(d) = Len(t) - Len(b)
    BY <1>1, <1>2, <1>3, <1>5
  <2>2. Len(t) - Len(b) \in 1 .. Len(t)
    BY <1>1, <2>1
  <2> QED
    BY <1>3, <2>1, <2>2 DEF RestIs
<1>6. Len(d) <= Len(u)
  BY <1>1, <1>2, <1>3
<1> QED
  BY <1>2, <1>4, <1>5, <1>6 DEF RestIs, u, d

\* A newline completes the line in the buffer and leaves nothing there.
LEMMA LineIs ==
  ASSUME NEW t \in Texts, NEW b, RestIs(t, b)
  PROVE  /\ RestIs(Append(t, NewLine), <<>>)
         /\ LineAt(Append(t, NewLine), Len(t) + 1) = Range(b)
         /\ Ends(Append(t, NewLine)) = Ends(t) \cup {Len(t) + 1}
<1> DEFINE u == Append(t, NewLine)
           from == Len(t) - Len(b)
<1>1. b \in Seq(Letters) /\ Len(b) \in Nat /\ Len(t) \in Nat /\ Len(b) <= Len(t) /\ DOMAIN b = 1 .. Len(b)
  BY OneMore DEF RestIs, Characters
<1>2. /\ Len(u) = Len(t) + 1 /\ u[Len(t) + 1] = NewLine /\ \A i \in 1 .. Len(t) : u[i] = t[i]
      /\ DOMAIN u = 1 .. Len(t) + 1 /\ DOMAIN t = 1 .. Len(t)
  BY OneMore DEF Characters
<1> HIDE DEF u
<1>3. RestIs(u, <<>>)
  <2>1. <<>> \in Seq(Letters) /\ Len(<<>>) = 0 /\ Len(u) - 0 = Len(t) + 1
    BY <1>1, <1>2
  <2> QED
    BY <1>1, <1>2, <2>1 DEF RestIs
<1>4. Ends(u) = Ends(t) \cup {Len(t) + 1}
  BY <1>1, <1>2 DEF Ends
<1>5. ASSUME NEW i \in 1 .. Len(b) PROVE b[i] = u[from + i] /\ b[i] # NewLine
  <2>1. from + i \in 1 .. Len(t)
    BY <1>1
  <2>2. b[i] \in Letters
    BY <1>1
  <2> QED
    BY <1>2, <2>1, <2>2, NewLineApart DEF RestIs
<1>6. from \in Nat /\ (Len(t) + 1) - 1 = Len(t)
  BY <1>1
<1>7. from > 0 => from \in 1 .. Len(t) /\ u[from] = NewLine
  <2>1. from > 0 => from \in 1 .. Len(t) /\ Len(b) < Len(t)
    BY <1>1
  <2> QED
    BY <1>2, <2>1 DEF RestIs
<1>8. ASSUME NEW i \in 1 .. Len(t)
      PROVE  (\A j \in i .. Len(t) : u[j] # NewLine) <=> i > from
  <2>1. CASE i > from
    <3> SUFFICES ASSUME NEW j \in i .. Len(t) PROVE u[j] # NewLine
      BY <2>1
    <3>1. j - from \in 1 .. Len(b) /\ from + (j - from) = j
      BY <1>1, <1>6, <2>1
    <3> QED
      BY <1>5, <3>1
  <2>2. CASE ~(i > from)
    <3>1. from \in i .. Len(t) /\ from > 0
      BY <1>1, <1>6, <2>2
    <3> QED
      BY <1>7, <2>2, <3>1
  <2> QED
    BY <2>1, <2>2
<1>9. LineAt(u, Len(t) + 1) = {u[i] : i \in {i \in 1 .. Len(t) : i > from}}
  <2>1. {i \in 1 .. Len(t) : \A j \in i .. Len(t) : u[j] # NewLine} = {i \in 1 .. Len(t) : i > from}
    BY <1>8
  <2> QED
    BY <1>6, <2>1 DEF LineAt
<1>10. Range(b) = {b[i] : i \in 1 .. Len(b)}
  BY <1>1 DEF Range
<1>11. ASSUME NEW i \in {i \in 1 .. Len(t) : i > from} PROVE u[i] \in {b[k] : k \in 1 .. Len(b)}
  <2>1. i - from \in 1 .. Len(b) /\ from + (i - from) = i
    BY <1>1
  <2> QED
    BY <1>5, <2>1
<1>12. ASSUME NEW i \in 1 .. Len(b) PROVE b[i] \in {u[k] : k \in {k \in 1 .. Len(t) : k > from}}
  <2>1. from + i \in {k \in 1 .. Len(t) : k > from}
    BY <1>1
  <2> QED
    BY <1>5, <2>1
<1>13. LineAt(u, Len(t) + 1) = Range(b)
  BY <1>9, <1>10, <1>11, <1>12
<1> QED
  BY <1>3, <1>4, <1>13 DEF u

-----------------------------------------------------------------------------
\* What is left to be found is the end of the list; what is before it has been
\* found, and no more.
Missing(left) == Len(job.expect) - Len(left)
Going(t, left) ==
  /\ Len(left) <= Len(job.expect)
  /\ \A i \in 1 .. Len(left) : left[i] = job.expect[Missing(left) + i]
  /\ job.expect # <<>> => left # <<>>
  /\ Fine(t, Len(t)) /\ Found(t, Len(t), Missing(left))
  /\ left # <<>> => ~Found(t, Len(t), Missing(left) + 1)

\* A failure at e, before which not all was found.
FailedAt(t, e) ==
  ~Fine(t, e) /\ ~(job.expect # <<>> /\ Found(t, e - 1, Len(job.expect)))

Verdict == {"check", "passed", "failed"}
State == [left : Seq(Letters), verdict : Verdict]
Judged(t, s) ==
  /\ s.verdict = "check" => Going(t, s.left)
  /\ s.verdict = "passed" =>
       job.expect # <<>> /\ \E e \in Ends(t) : Fine(t, e) /\ Found(t, e, Len(job.expect))
  /\ s.verdict = "failed" => \E e \in Ends(t) : FailedAt(t, e)

LEMMA LimitsAre == \A t \in Texts : Len(t) \in Nat /\ \A e \in Ends(t) : e \in Nat /\ e >= 1 /\ e <= Len(t)
<1> SUFFICES ASSUME NEW t \in Texts, NEW e \in Ends(t)
             PROVE  e \in Nat /\ e >= 1 /\ e <= Len(t)
  BY OneMore DEF Texts
<1>1. DOMAIN t = 1 .. Len(t) /\ Len(t) \in Nat
  BY DEF Texts
<1> QED
  BY <1>1 DEF Ends

\* A verdict stays what it is whatever the board prints after it.
LEMMA VerdictStays ==
  ASSUME NEW t \in Texts, NEW c \in Characters, job.expect \in Seq(Letters),
         NEW s \in State, Judged(t, s), s.verdict # "check"
  PROVE  Judged(Append(t, c), s)
<1> DEFINE u == Append(t, c)
<1>1. \A e \in Ends(t) : e \in Ends(u)
  <2>1. /\ DOMAIN u = 1 .. Len(t) + 1 /\ DOMAIN t = 1 .. Len(t) /\ Len(t) \in Nat
        /\ \A i \in 1 .. Len(t) : u[i] = t[i]
    BY OneMore
  <2> HIDE DEF u
  <2> QED
    BY <2>1 DEF Ends
<1>2. \A e \in Ends(t) : e \in Nat /\ e - 1 \in Nat /\ e <= Len(t) /\ e - 1 <= Len(t) /\ Len(t) \in Nat
  BY LimitsAre
<1>3. Len(job.expect) \in Nat
  OBVIOUS
<1>4. \A e \in Ends(t) :
        /\ Fine(u, e) <=> Fine(t, e)
        /\ Found(u, e, Len(job.expect)) <=> Found(t, e, Len(job.expect))
        /\ Found(u, e - 1, Len(job.expect)) <=> Found(t, e - 1, Len(job.expect))
  BY <1>2, <1>3, FineStays, FoundStays
<1> HIDE DEF u
<1>5. s.verdict = "failed" => \E e \in Ends(u) : FailedAt(u, e)
  BY <1>1, <1>4 DEF Judged, FailedAt
<1>6. s.verdict = "passed" =>
        job.expect # <<>> /\ \E e \in Ends(u) : Fine(u, e) /\ Found(u, e, Len(job.expect))
  BY <1>1, <1>4 DEF Judged
<1> QED
  BY <1>5, <1>6 DEF Judged, u

\* Inside a line nothing is judged.
LEMMA InsideLine ==
  ASSUME NEW t \in Texts, NEW c \in Characters, c # NewLine, job.expect \in Seq(Letters),
         NEW left \in Seq(Letters), Going(t, left)
  PROVE  Going(Append(t, c), left)
<1> DEFINE u == Append(t, c)
<1>1. /\ DOMAIN u = 1 .. Len(t) + 1 /\ DOMAIN t = 1 .. Len(t) /\ Len(t) \in Nat
      /\ \A i \in 1 .. Len(t) : u[i] = t[i]
      /\ u[Len(t) + 1] = c /\ Len(u) = Len(t) + 1 /\ Len(t) + 1 \in Nat /\ u \in Texts
  BY OneMore
<1>2. (Fine(u, Len(t)) <=> Fine(t, Len(t))) /\ Len(t) <= Len(t)
  BY <1>1, FineStays
<1>3. \A n \in Nat : Found(u, Len(t), n) <=> Found(t, Len(t), n)
  BY <1>1, <1>2, FoundStays
<1> HIDE DEF u
<1>4. \A k \in Ends(u) : k <= Len(t) + 1 <=> k <= Len(t)
  BY <1>1 DEF Ends
<1>5. {k \in Ends(u) : k <= Len(u)} = {k \in Ends(u) : k <= Len(t)}
  BY <1>1, <1>4
<1>6. Fine(u, Len(u)) <=> Fine(u, Len(t))
  BY <1>1, <1>4 DEF Fine
<1>7. \A n : Found(u, Len(u), n) <=> Found(u, Len(t), n)
  BY <1>5 DEF Found
<1>8. Missing(left) \in Nat /\ Missing(left) + 1 \in Nat
  BY DEF Missing, Going
<1> QED
  BY <1>2, <1>3, <1>6, <1>7, <1>8 DEF Going, u

\* What match_line makes of a complete line is the verdict on the text that ends
\* with it.
LEMMA LineJudged ==
  ASSUME NEW t \in Texts, NEW b, RestIs(t, b), job.expect \in Seq(Letters),
         NEW left \in Seq(Letters), Going(t, left)
  PROVE  LET s == match_line([left |-> left, verdict |-> "check"], b)
         IN s \in State /\ Judged(Append(t, NewLine), s)
<1> DEFINE u == Append(t, NewLine)
           n == Len(job.expect)
           m == Missing(left)
           end == Len(t) + 1
           start == [left |-> left, verdict |-> "check"]
           s == match_line(start, b)
<1>1. u \in Texts /\ Len(u) = end /\ end \in Nat /\ end - 1 = Len(t) /\ Len(t) \in Nat
      /\ Len(t) <= Len(t) /\ NewLine \in Characters
  BY OneMore DEF Characters
<1>2. LineAt(u, end) = Range(b) /\ Ends(u) = Ends(t) \cup {end} /\ end \in Ends(u)
  BY LineIs
<1>3. n \in Nat /\ Len(left) \in Nat /\ m \in Nat /\ m + 1 \in Nat /\ m = n - Len(left)
  BY DEF Missing, Going
<1>4. (Fine(u, Len(t)) <=> Fine(t, Len(t))) /\ Fine(u, Len(t))
  BY <1>1, FineStays DEF Going
<1>5. \A k \in Nat : Found(u, Len(t), k) <=> Found(t, Len(t), k)
  BY <1>1, FoundStays
<1>6. left # <<>> => left[1] = job.expect[m + 1] /\ Len(left) >= 1 /\ ~Found(u, Len(t), m + 1)
  BY <1>3, <1>5 DEF Going
<1>7. Found(u, Len(t), m)
  BY <1>3, <1>5 DEF Going
<1>8. \A k \in Nat : Found(u, end, k + 1) <=>
        \/ Found(u, Len(t), k + 1)
        \/ Found(u, Len(t), k) /\ job.expect[k + 1] \in Range(b)
  <2>1. \A k \in Nat : Found(u, end, k + 1) <=>
          \/ Found(u, end - 1, k + 1)
          \/ Found(u, end - 1, k) /\ job.expect[k + 1] \in LineAt(u, end)
    BY <1>1, <1>2, FoundAt
  <2> HIDE DEF u, end
  <2> QED
    BY <1>1, <1>2, <2>1
<1>9. FailOn \cap Range(b) = {} => Fine(u, end)
  BY <1>1, <1>2, <1>4, LimitsAre DEF Fine
<1>10. Found(u, end, m)
  <2>1. Len(t) <= end /\ m <= m
    BY <1>1, <1>3
  <2> QED
    BY <1>1, <1>3, <1>7, <2>1, FoundLess
<1>11. job.expect # <<>> => left # <<>>
  BY DEF Going
<1>12. start.left = left /\ start.verdict = "check"
  OBVIOUS
<1> HIDE DEF u, n, m, end, start
<1>13. CASE FailOn \cap Range(b) # {}
  <2>1. s = [left |-> left, verdict |-> "failed"]
    BY <1>12, <1>13 DEF match_line
  <2>2. ~Fine(u, end)
    BY <1>1, <1>2, <1>13 DEF Fine
  <2>3. ~(job.expect # <<>> /\ Found(u, end - 1, n))
    <3>1. SUFFICES ASSUME job.expect # <<>>, Found(u, Len(t), n) PROVE FALSE
      BY <1>1
    <3>2. m + 1 <= n
      BY <1>3, <1>6, <1>11, <3>1
    <3>3. Found(u, Len(t), m + 1)
      BY <1>1, <1>3, <3>1, <3>2, FoundLess
    <3> QED
      BY <1>6, <1>11, <3>1, <3>3
  <2>4. FailedAt(u, end)
    BY <2>2, <2>3 DEF FailedAt, n
  <2>5. s.verdict = "failed" /\ s.left = left /\ s \in State
    BY <2>1 DEF State, Verdict
  <2> QED
    BY <1>2, <2>4, <2>5 DEF Judged, u, start
<1>14. CASE FailOn \cap Range(b) = {} /\ (left = <<>> \/ left[1] \notin Range(b))
  <2>1. s = start
    BY <1>12, <1>14 DEF match_line
  <2>2. Going(u, left)
    <3>1. left # <<>> => ~Found(u, end, m + 1)
      BY <1>3, <1>6, <1>8, <1>14
    <3> QED
      BY <1>1, <1>9, <1>10, <1>14, <3>1 DEF Going, m
  <2>3. start \in State
    BY DEF start, State, Verdict
  <2> QED
    BY <1>12, <2>1, <2>2, <2>3 DEF Judged, u, start
<1>15. CASE FailOn \cap Range(b) = {} /\ left # <<>> /\ left[1] \in Range(b)
  <2>1. s = [left |-> Tail(left), verdict |-> IF Len(left) = 1 THEN "passed" ELSE "check"]
    BY <1>12, <1>15 DEF match_line
  <2>2. Fine(u, end) /\ Found(u, end, m + 1)
    BY <1>3, <1>6, <1>7, <1>8, <1>9, <1>15
  <2>3. Tail(left) \in Seq(Letters) /\ Len(Tail(left)) = Len(left) - 1
        /\ \A i \in 1 .. Len(left) - 1 : Tail(left)[i] = left[i + 1]
    BY <1>15
  <2>4. s \in State
    BY <2>1, <2>3 DEF State, Verdict
  <2>5. CASE Len(left) = 1
    <3>1. m + 1 = n /\ job.expect # <<>>
      BY <1>3, <2>5 DEF n
    <3>2. s.verdict = "passed"
      BY <2>1, <2>5
    <3>3. \E e \in Ends(u) : Fine(u, e) /\ Found(u, e, n)
      BY <1>2, <2>2, <3>1
    <3> QED
      BY <2>4, <3>1, <3>2, <3>3 DEF Judged, u, n, start
  <2>6. CASE Len(left) # 1
    <3>1. s.verdict = "check" /\ s.left = Tail(left)
      BY <2>1, <2>6
    <3>2. Missing(Tail(left)) = m + 1
      BY <1>3, <2>3 DEF Missing, n
    <3>3. ~Found(u, end, (m + 1) + 1)
      <4>1. ~Found(u, Len(t), (m + 1) + 1)
        <5>1. m + 1 <= (m + 1) + 1 /\ (m + 1) + 1 \in Nat /\ Len(t) <= Len(t)
          BY <1>1, <1>3
        <5> QED
          BY <1>1, <1>3, <1>6, <1>15, <5>1, FoundLess
      <4> QED
        BY <1>3, <1>6, <1>8, <1>15, <4>1
    <3>4. Tail(left) # <<>> /\ Len(Tail(left)) <= n
      <4>1. Len(left) >= 1
        BY <1>6, <1>15
      <4>2. Len(left) > 1 /\ Len(left) <= n
        <5>1. \A x, y, z \in Nat : z = y - x /\ x >= 1 /\ x # 1 => x > 1 /\ x <= y
          OBVIOUS
        <5> QED
          BY <1>3, <2>6, <4>1, <5>1
      <4>3. Len(Tail(left)) >= 1 /\ Len(Tail(left)) <= n
        BY <1>3, <2>3, <4>2
      <4>4. Len(<<>>) = 0
        OBVIOUS
      <4>5. Tail(left) # <<>>
        <5>1. \A l : Len(l) >= 1 => l # <<>>
          BY <4>4
        <5> QED
          BY <4>3, <5>1
      <4> QED
        BY <4>3, <4>5
    <3>5. \A i \in 1 .. Len(Tail(left)) : Tail(left)[i] = job.expect[(m + 1) + i]
      <4> SUFFICES ASSUME NEW i \in 1 .. Len(Tail(left))
                   PROVE  Tail(left)[i] = job.expect[(m + 1) + i]
        OBVIOUS
      <4>1. i \in 1 .. Len(left) - 1 /\ i + 1 \in 1 .. Len(left) /\ m + (i + 1) = (m + 1) + i
        BY <1>3, <2>3
      <4>2. left[i + 1] = job.expect[m + (i + 1)]
        BY <4>1 DEF Going, m
      <4> QED
        BY <2>3, <4>1, <4>2
    <3>6. Going(u, Tail(left))
      BY <1>1, <2>2, <3>2, <3>3, <3>4, <3>5 DEF Going, n
    <3> QED
      BY <2>4, <3>1, <3>6 DEF Judged, u, start
  <2> QED
    BY <2>5, <2>6
<1> QED
  BY <1>13, <1>14, <1>15

-----------------------------------------------------------------------------
\* The recursions over the bytes of a read and over its lines.
SplitText == [lines : Seq(Seq(Letters)), rest : Seq(Letters)]

LEMMA BrokenIs ==
  ASSUME NEW r \in SplitText, NEW c \in Characters
  PROVE  Broken(r, c) \in SplitText
<1>1. r.rest \in Seq(Letters) /\ r.lines \in Seq(Seq(Letters))
  BY DEF SplitText
<1>2. CASE c # NewLine
  <2>1. Append(r.rest, c) \in Seq(Letters)
    BY <1>1, <1>2 DEF Characters
  <2>2. Broken(r, c) = [lines |-> r.lines, rest |-> Append(r.rest, c)]
    BY <1>2 DEF Broken, SplitText
  <2> QED
    BY <1>1, <2>1, <2>2 DEF SplitText
<1>3. CASE c = NewLine
  <2>1. Append(r.lines, r.rest) \in Seq(Seq(Letters)) /\ <<>> \in Seq(Letters)
    BY <1>1
  <2> QED
    BY <1>1, <1>3, <2>1 DEF Broken, SplitText
<1> QED
  BY <1>2, <1>3

LEMMA SplitIs ==
  ASSUME NEW b \in Seq(Letters), NEW text \in Texts
  PROVE  \E h :
           /\ h[0] = [lines |-> <<>>, rest |-> b]
           /\ \A k \in 1 .. Len(text) : h[k] = Broken(h[k - 1], text[k])
           /\ \A k \in 0 .. Len(text) : h[k] \in SplitText
           /\ SplitLines(b, text) = h[Len(text)]
<1> DEFINE n == Len(text)
           a == [lines |-> <<>>, rest |-> b]
           Onward(k, r) == IF k \in 1 .. n THEN Broken(r, text[k]) ELSE r
           G == [x \in Nat \X SplitText |-> Onward(x[1], x[2])]
           Is(h) == h = [k \in 0 .. n |-> IF k = 0 THEN a ELSE Broken(h[k - 1], text[k])]
<1>1. n \in Nat /\ \A k \in 1 .. n : text[k] \in Characters
  BY DEF Texts
<1>2. a \in SplitText
  <2>1. <<>> \in Seq(Seq(Letters))
    OBVIOUS
  <2> QED
    BY <2>1 DEF SplitText
<1>3. G \in [Nat \X SplitText -> SplitText]
  <2>1. \A k \in Nat, r \in SplitText : Onward(k, r) \in SplitText
    BY <1>1, BrokenIs
  <2> HIDE DEF Onward
  <2> QED
    BY <2>1
<1>4. \A k \in Nat, r \in SplitText : G[<<k, r>>] = Onward(k, r)
  OBVIOUS
<1> HIDE DEF G, a
<1>5. PICK h : IsRecursive(h, n, a, G) /\ \A k \in 0 .. n : h[k] \in SplitText
  BY <1>1, <1>2, <1>3, RecursiveFunction
<1>6. \A k \in 1 .. n : k \in Nat /\ k - 1 \in 0 .. n
  BY <1>1
<1> HIDE DEF n
<1>7. \A k \in 1 .. n : h[k] = Broken(h[k - 1], text[k])
  <2> SUFFICES ASSUME NEW k \in 1 .. n PROVE h[k] = Broken(h[k - 1], text[k])
    OBVIOUS
  <2>1. h[k] = G[<<k, h[k - 1]>>] /\ h[k - 1] \in SplitText /\ k \in Nat
    BY <1>5, <1>6 DEF IsRecursive
  <2>2. G[<<k, h[k - 1]>>] = Onward(k, h[k - 1])
    BY <1>4, <2>1
  <2> QED
    BY <2>1, <2>2
<1>8. Is(h)
  <2>1. \A k \in 0 .. n : k # 0 => k \in 1 .. n
    BY <1>1
  <2>2. h[0] = a /\ h = [k \in 0 .. n |-> h[k]]
    BY <1>5 DEF IsRecursive
  <2>3. \A k \in 0 .. n : h[k] = IF k = 0 THEN a ELSE Broken(h[k - 1], text[k])
    BY <1>7, <2>1, <2>2
  <2> QED
    BY <2>2, <2>3
<1> DEFINE g == CHOOSE g : Is(g)
<1>9. SplitLines(b, text) = g[n]
  BY DEF SplitLines, a, n
<1>10. Is(g)
  <2> HIDE DEF Is
  <2> QED
    BY <1>8
<1>11. \A f : Is(f) =>
         /\ f[0] = a /\ \A k \in 1 .. n : f[k] = Broken(f[k - 1], text[k])
  <2> SUFFICES ASSUME NEW f, Is(f)
               PROVE  f[0] = a /\ \A k \in 1 .. n : f[k] = Broken(f[k - 1], text[k])
    OBVIOUS
  <2>1. 0 \in 0 .. n /\ \A k \in 1 .. n : k \in 0 .. n /\ k # 0
    BY <1>1
  <2>2. \A k \in 0 .. n : f[k] = IF k = 0 THEN a ELSE Broken(f[k - 1], text[k])
    OBVIOUS
  <2> QED
    BY <2>1, <2>2
<1> HIDE DEF g, Is
<1>12. g[0] = a /\ \A k \in 1 .. n : g[k] = Broken(g[k - 1], text[k])
  BY <1>10, <1>11
<1>13. \A k \in 0 .. n : g[k] \in SplitText
  <2> SUFFICES ASSUME NEW k \in 0 .. n PROVE g[k] \in SplitText
    OBVIOUS
  <2> DEFINE T == {j \in Nat : g[j] \in SplitText}
  <2>1. 0 \in T /\ T \in SUBSET Nat /\ k \in Nat /\ 0 <= k /\ 0 \in Nat
    BY <1>1, <1>2, <1>12
  <2>2. ASSUME NEW j \in Nat, j < k, j \in T PROVE j + 1 \in T
    <3>1. j + 1 \in 1 .. n /\ (j + 1) - 1 = j
      BY <1>1, <2>2
    <3>2. g[j + 1] = Broken(g[j], text[j + 1])
      BY <1>12, <3>1
    <3> QED
      BY <1>1, <2>2, <3>1, <3>2, BrokenIs DEF n
  <2> HIDE DEF T
  <2>3. k \in T
    BY <2>1, <2>2, UpTo
  <2> QED
    BY <2>3 DEF T
<1> QED
  BY <1>9, <1>12, <1>13 DEF a, n

LEMMA MatchIs ==
  ASSUME NEW s \in State, NEW l \in Seq(Letters)
  PROVE  match_line(s, l) \in State
<1>1. s.left \in Seq(Letters) /\ s.verdict \in Verdict /\ (s.left # <<>> => Tail(s.left) \in Seq(Letters))
  BY DEF State
<1>2. "failed" \in Verdict /\ "passed" \in Verdict /\ "check" \in Verdict
  BY DEF Verdict
<1> QED
  BY <1>1, <1>2 DEF match_line, State

Beginning(left) == [left |-> left, verdict |-> "check"]
GoesOn(h, left, lines) ==
  /\ h[0] = Beginning(left)
  /\ \A k \in 1 .. Len(lines) : h[k] = match_line(h[k - 1], lines[k])

LEMMA MatchingIs ==
  ASSUME NEW left \in Seq(Letters), NEW lines \in Seq(Seq(Letters))
  PROVE  \E h : GoesOn(h, left, lines) /\ MatchLines(left, lines) = h[Len(lines)]
<1> DEFINE n == Len(lines)
           a == Beginning(left)
           Onward(k, s) == IF k \in 1 .. n THEN match_line(s, lines[k]) ELSE s
           G == [x \in Nat \X State |-> Onward(x[1], x[2])]
           Is(h) == h = [k \in 0 .. n |-> IF k = 0 THEN a ELSE match_line(h[k - 1], lines[k])]
<1>1. n \in Nat /\ \A k \in 1 .. n : lines[k] \in Seq(Letters)
  OBVIOUS
<1>2. a \in State
  BY DEF State, Verdict, Beginning
<1>3. G \in [Nat \X State -> State]
  <2>1. \A k \in Nat, s \in State : Onward(k, s) \in State
    BY <1>1, MatchIs
  <2> HIDE DEF Onward
  <2> QED
    BY <2>1
<1>4. \A k \in Nat, s \in State : G[<<k, s>>] = Onward(k, s)
  OBVIOUS
<1> HIDE DEF G, a
<1>5. PICK h : IsRecursive(h, n, a, G) /\ \A k \in 0 .. n : h[k] \in State
  BY <1>1, <1>2, <1>3, RecursiveFunction
<1>6. \A k \in 1 .. n : k \in Nat /\ k - 1 \in 0 .. n
  BY <1>1
<1> HIDE DEF n
<1>7. \A k \in 1 .. n : h[k] = match_line(h[k - 1], lines[k])
  <2> SUFFICES ASSUME NEW k \in 1 .. n PROVE h[k] = match_line(h[k - 1], lines[k])
    OBVIOUS
  <2>1. h[k] = G[<<k, h[k - 1]>>] /\ h[k - 1] \in State /\ k \in Nat
    BY <1>5, <1>6 DEF IsRecursive
  <2>2. G[<<k, h[k - 1]>>] = Onward(k, h[k - 1])
    BY <1>4, <2>1
  <2> QED
    BY <2>1, <2>2
<1>8. Is(h)
  <2>1. \A k \in 0 .. n : k # 0 => k \in 1 .. n
    BY <1>1
  <2>2. h[0] = a /\ h = [k \in 0 .. n |-> h[k]]
    BY <1>5 DEF IsRecursive
  <2>3. \A k \in 0 .. n : h[k] = IF k = 0 THEN a ELSE match_line(h[k - 1], lines[k])
    BY <1>7, <2>1, <2>2
  <2> QED
    BY <2>2, <2>3
<1> DEFINE g == CHOOSE g : Is(g)
<1>9. MatchLines(left, lines) = g[n]
  BY DEF MatchLines, a, n, Beginning
<1>10. Is(g)
  <2> HIDE DEF Is
  <2> QED
    BY <1>8
<1>11. \A f : Is(f) =>
         /\ f[0] = a /\ \A k \in 1 .. n : f[k] = match_line(f[k - 1], lines[k])
  <2> SUFFICES ASSUME NEW f, Is(f)
               PROVE  f[0] = a /\ \A k \in 1 .. n : f[k] = match_line(f[k - 1], lines[k])
    OBVIOUS
  <2>1. 0 \in 0 .. n /\ \A k \in 1 .. n : k \in 0 .. n /\ k # 0
    BY <1>1
  <2>2. \A k \in 0 .. n : f[k] = IF k = 0 THEN a ELSE match_line(f[k - 1], lines[k])
    OBVIOUS
  <2> QED
    BY <2>1, <2>2
<1> HIDE DEF g, Is
<1>12. g[0] = a /\ \A k \in 1 .. n : g[k] = match_line(g[k - 1], lines[k])
  BY <1>10, <1>11
<1> QED
  BY <1>9, <1>12 DEF GoesOn, a, n

\* One more line is matched with what those before it have left.
LEMMA MatchOn ==
  ASSUME NEW left \in Seq(Letters), NEW lines \in Seq(Seq(Letters)), NEW l \in Seq(Letters)
  PROVE  /\ MatchLines(left, <<>>) = Beginning(left)
         /\ MatchLines(left, Append(lines, l)) = match_line(MatchLines(left, lines), l)
<1> DEFINE more == Append(lines, l)
           n == Len(lines)
<1>1. /\ n \in Nat /\ more \in Seq(Seq(Letters)) /\ Len(more) = n + 1 /\ more[n + 1] = l
      /\ \A k \in 1 .. n : more[k] = lines[k]
  OBVIOUS
<1>2. MatchLines(left, <<>>) = Beginning(left)
  <2>1. <<>> \in Seq(Seq(Letters)) /\ Len(<<>>) = 0
    OBVIOUS
  <2>2. PICK h : GoesOn(h, left, <<>>) /\ MatchLines(left, <<>>) = h[Len(<<>>)]
    BY <2>1, MatchingIs
  <2> QED
    BY <2>1, <2>2 DEF GoesOn
<1> HIDE DEF more
<1>3. PICK g : GoesOn(g, left, lines) /\ MatchLines(left, lines) = g[n]
  BY MatchingIs
<1>4. PICK h : GoesOn(h, left, more) /\ MatchLines(left, more) = h[n + 1]
  <2>1. \E h : GoesOn(h, left, more) /\ MatchLines(left, more) = h[Len(more)]
    BY <1>1, MatchingIs
  <2> QED
    BY <1>1, <2>1
<1> HIDE DEF n
<1>5. h[n] = g[n]
  <2> DEFINE T == {j \in Nat : h[j] = g[j]}
  <2>1. 0 \in T /\ T \in SUBSET Nat /\ 0 \in Nat /\ 0 <= n
    BY <1>1, <1>3, <1>4 DEF GoesOn
  <2>2. ASSUME NEW j \in Nat, j < n, j \in T PROVE j + 1 \in T
    <3>1. j + 1 \in 1 .. n /\ j + 1 \in 1 .. n + 1 /\ (j + 1) - 1 = j
      BY <1>1, <2>2
    <3>2. h[j + 1] = match_line(h[j], more[j + 1])
      BY <1>1, <1>4, <3>1 DEF GoesOn
    <3>3. g[j + 1] = match_line(g[j], lines[j + 1])
      BY <1>3, <3>1 DEF GoesOn, n
    <3> QED
      BY <1>1, <2>2, <3>1, <3>2, <3>3
  <2> HIDE DEF T
  <2>3. n \in T
    BY <1>1, <2>1, <2>2, UpTo
  <2> QED
    BY <2>3 DEF T
<1>6. h[n + 1] = match_line(h[n], l)
  <2>1. n + 1 \in 1 .. n + 1 /\ (n + 1) - 1 = n
    BY <1>1
  <2> QED
    BY <1>1, <1>4, <2>1 DEF GoesOn
<1> QED
  BY <1>2, <1>3, <1>4, <1>5, <1>6 DEF more

-----------------------------------------------------------------------------
\* What a read makes of the text: however the text is cut into reads, the buffer
\* holds the rest and the lines judged are those of the text.
LEMMA ReadJudged ==
  ASSUME NEW t \in Texts, NEW b, RestIs(t, b), NEW text \in Texts, job.expect \in Seq(Letters),
         NEW left \in Seq(Letters), Going(t, left)
  PROVE  LET r == SplitLines(b, text)
             s == MatchLines(left, r.lines)
         IN /\ t \o text \in Texts /\ RestIs(t \o text, r.rest)
            /\ s \in State /\ Judged(t \o text, s)
<1> DEFINE n == Len(text)
           Read(k) == t \o SubSeq(text, 1, k)
<1>1. b \in Seq(Letters) /\ n \in Nat /\ \A k \in 1 .. n : text[k] \in Characters
  BY DEF RestIs, Texts
<1>2. PICK h :
        /\ h[0] = [lines |-> <<>>, rest |-> b]
        /\ \A k \in 1 .. n : h[k] = Broken(h[k - 1], text[k])
        /\ \A k \in 0 .. n : h[k] \in SplitText
        /\ SplitLines(b, text) = h[n]
  BY <1>1, SplitIs
<1>3. Read(0) = t /\ Read(n) = t \o text
  <2>1. text \in Seq(Characters) /\ t \in Seq(Characters)
    BY DEF Texts
  <2>2. SubSeq(text, 1, 0) = <<>>
    BY <2>1
  <2>3. SubSeq(text, 1, Len(text)) = text
    BY <2>1
  <2>4. t \o <<>> = t
    BY <2>1
  <2> QED
    BY <2>2, <2>3, <2>4
<1>4. ASSUME NEW k \in 0 .. n, k < n
      PROVE  Read(k) \in Texts => Read(k + 1) = Append(Read(k), text[k + 1])
  <2>1. k + 1 \in 1 .. n /\ text \in Seq(Characters) /\ t \in Seq(Characters)
    BY <1>1, <1>4 DEF Texts
  <2>2. SubSeq(text, 1, k + 1) = Append(SubSeq(text, 1, k), text[k + 1])
    BY <2>1
  <2>3. SubSeq(text, 1, k) \in Seq(Characters)
    BY <2>1
  <2>4. t \o Append(SubSeq(text, 1, k), text[k + 1]) = Append(t \o SubSeq(text, 1, k), text[k + 1])
    BY <2>1, <2>3
  <2> QED
    BY <2>2, <2>4
<1> HIDE DEF n, Read
<1> DEFINE Ok(k) ==
      /\ Read(k) \in Texts /\ RestIs(Read(k), h[k].rest)
      /\ MatchLines(left, h[k].lines) \in State
      /\ Judged(Read(k), MatchLines(left, h[k].lines))
           T == {k \in Nat : Ok(k)}
<1>5. Ok(0)
  <2>1. h[0].rest = b /\ h[0].lines = <<>>
    BY <1>2
  <2>2. MatchLines(left, <<>>) = Beginning(left)
    <3>1. <<>> \in Seq(Seq(Letters)) /\ <<>> \in Seq(Letters)
      OBVIOUS
    <3> QED
      BY <3>1, MatchOn
  <2>3. Beginning(left).verdict = "check" /\ Beginning(left).left = left /\ Beginning(left) \in State
    BY DEF Beginning, State, Verdict
  <2> QED
    BY <1>3, <2>1, <2>2, <2>3 DEF Judged
<1>6. ASSUME NEW k \in Nat, k < n, Ok(k) PROVE Ok(k + 1)
  <2> DEFINE u == Read(k)
             c == text[k + 1]
             r == h[k]
             s == MatchLines(left, r.lines)
  <2>1. k \in 0 .. n /\ k + 1 \in 1 .. n /\ (k + 1) - 1 = k
    BY <1>1, <1>6
  <2>2. h[k + 1] = Broken(r, c) /\ r \in SplitText /\ c \in Characters
    BY <1>1, <1>2, <2>1
  <2>3. Read(k + 1) = Append(u, c) /\ u \in Texts /\ Append(u, c) \in Texts
    BY <1>4, <1>6, <2>1, <2>2, OneMore
  <2>4. r.rest \in Seq(Letters) /\ r.lines \in Seq(Seq(Letters)) /\ s \in State
    BY <1>6, <2>2 DEF SplitText
  <2>5. RestIs(u, r.rest) /\ Judged(u, s) /\ s.left \in Seq(Letters) /\ s.verdict \in Verdict
    BY <1>6, <2>4 DEF State
  <2> HIDE DEF Ok, u, c, r, s
  <2>6. CASE c # NewLine
    <3>1. Broken(r, c).lines = r.lines /\ Broken(r, c).rest = Append(r.rest, c)
      BY <2>2, <2>6 DEF Broken, SplitText
    <3>2. RestIs(Append(u, c), Append(r.rest, c))
      BY <2>2, <2>3, <2>5, <2>6, RestOn
    <3>3. Judged(Append(u, c), s)
      <4>1. CASE s.verdict = "check"
        <5>1. Going(Append(u, c), s.left)
          BY <2>2, <2>3, <2>5, <2>6, <4>1, InsideLine DEF Judged
        <5> QED
          BY <4>1, <5>1 DEF Judged
      <4>2. CASE s.verdict # "check"
        BY <2>2, <2>3, <2>4, <2>5, <4>2, VerdictStays
      <4> QED
        BY <4>1, <4>2
    <3> QED
      BY <2>2, <2>3, <2>4, <3>1, <3>2, <3>3 DEF Ok, s
  <2>7. CASE c = NewLine
    <3>1. RestIs(Append(u, c), <<>>)
      BY <2>3, <2>5, <2>7, LineIs
    <3> DEFINE s2 == match_line(s, r.rest)
    <3>2. s2 \in State /\ Judged(Append(u, c), s2)
      <4>1. CASE s.verdict = "check"
        <5>1. s = [left |-> s.left, verdict |-> "check"]
          BY <2>4, <4>1 DEF State
        <5>2. Going(u, s.left)
          BY <2>5, <4>1 DEF Judged
        <5> QED
          BY <2>3, <2>5, <2>7, <5>1, <5>2, LineJudged
      <4>2. CASE s.verdict # "check"
        <5>1. s2 = s
          BY <4>2 DEF match_line
        <5>2. Judged(Append(u, c), s)
          BY <2>2, <2>3, <2>4, <2>5, <4>2, VerdictStays
        <5> QED
          BY <2>4, <5>1, <5>2
      <4> QED
        BY <4>1, <4>2
    <3>3. Broken(r, c).rest = <<>>
      BY <2>7 DEF Broken
    <3>4. MatchLines(left, Broken(r, c).lines) = s2
      <4>1. CASE r.rest = <<>>
        <5>1. Broken(r, c).lines = r.lines
          BY <2>7, <4>1 DEF Broken
        <5>2. Range(<<>>) = {}
          BY DEF Range
        <5>3. s2 = s
          <6>1. s.left = <<>> \/ s.left[1] \notin Range(r.rest)
            BY <4>1, <5>2
          <6> QED
            BY <4>1, <5>2, <6>1 DEF match_line
        <5> QED
          BY <5>1, <5>3 DEF s
      <4>2. CASE r.rest # <<>>
        <5>1. Broken(r, c).lines = Append(r.lines, r.rest)
          BY <2>7, <4>2 DEF Broken
        <5> QED
          BY <2>4, <5>1, MatchOn DEF s
      <4> QED
        BY <4>1, <4>2
    <3> HIDE DEF s2
    <3> QED
      BY <2>2, <2>3, <3>1, <3>2, <3>3, <3>4 DEF Ok
  <2> QED
    BY <2>6, <2>7
<1> HIDE DEF Ok
<1>7. Ok(n)
  <2>1. 0 \in T /\ T \in SUBSET Nat /\ 0 \in Nat /\ 0 <= n /\ \A k \in Nat : k < n /\ k \in T => k + 1 \in T
    BY <1>1, <1>5, <1>6
  <2> HIDE DEF T
  <2>2. n \in T
    BY <1>1, <2>1, UpTo
  <2> QED
    BY <2>2 DEF T
<1> QED
  BY <1>2, <1>3, <1>7 DEF Ok

-----------------------------------------------------------------------------
\* What has been read, and the places in it where a read has cut a character.
HeardIs ==
  /\ heard \in Seq(Byte)
  /\ \A k \in torn : k \in Nat /\ k < Len(heard)

LEMMA ShownIs ==
  ASSUME NEW h \in Seq(Byte), NEW cuts
  PROVE  /\ Shown(h, cuts) \in Texts /\ Len(Shown(h, cuts)) = Len(h)
         /\ \A k \in 1 .. Len(h) : Shown(h, cuts)[k] =
              IF h[k] \notin {Lead, Trail} THEN h[k]
              ELSE IF \E i \in {k - 1, k} : Together(h, i) /\ i \notin cuts THEN Double ELSE Lost
<1> DEFINE S(k) == IF h[k] \notin {Lead, Trail} THEN h[k]
                   ELSE IF \E i \in {k - 1, k} : Together(h, i) /\ i \notin cuts THEN Double
                   ELSE Lost
<1>1. Len(h) \in Nat /\ \A k \in 1 .. Len(h) : h[k] \in Byte
  OBVIOUS
<1>2. \A k \in 1 .. Len(h) : S(k) \in Characters
  BY <1>1 DEF Byte, Characters, Letters
<1>3. Shown(h, cuts) = [k \in 1 .. Len(h) |-> S(k)]
  BY DEF Shown
<1> HIDE DEF S
<1>4. [k \in 1 .. Len(h) |-> S(k)] \in Seq(Characters)
  BY <1>1, <1>2, IsASeq
<1>5. Shown(h, cuts) \in Texts /\ Len(Shown(h, cuts)) = Len(h)
  <2>1. DOMAIN Shown(h, cuts) = 1 .. Len(h)
    BY <1>3
  <2>2. Shown(h, cuts) \in Seq(Characters)
    BY <1>3, <1>4
  <2> QED
    BY <1>1, <2>1, <2>2, LenProperties DEF Texts
<1>6. \A k \in 1 .. Len(h) : Shown(h, cuts)[k] = S(k)
  BY <1>3
<1> QED
  BY <1>5, <1>6 DEF S

\* Where the reads have cut a character, after a read of b.
CutsAfter(h, cuts, b) ==
  IF h # <<>> /\ h[Len(h)] = Lead /\ b[1] = Trail THEN cuts \cup {Len(h)} ELSE cuts

\* A read shows its own bytes, whatever came before: at the cut nothing is together.
LEMMA ShownOn ==
  ASSUME NEW h \in Seq(Byte), NEW cuts, \A k \in cuts : k \in Nat /\ k < Len(h),
         NEW b \in Seq(Byte), b # <<>>
  PROVE  Shown(h \o b, CutsAfter(h, cuts, b)) = Shown(h, cuts) \o Shown(b, {})
<1> DEFINE later == CutsAfter(h, cuts, b)
           s == h \o b
           m == Len(h)
           n == Len(b)
<1>1. /\ s \in Seq(Byte) /\ Len(s) = m + n /\ m \in Nat /\ n \in Nat /\ n >= 1
      /\ \A i \in 1 .. m : s[i] = h[i]
      /\ \A j \in 1 .. n : s[m + j] = b[j]
  OBVIOUS
<1>2. \A k \in later : k \in Nat /\ k <= m
  BY <1>1 DEF CutsAfter
<1>3. \A i \in Nat : i # m => (i \in later <=> i \in cuts)
  BY DEF CutsAfter
<1>4. (m >= 1 /\ h[m] = Lead /\ b[1] = Trail) => m \in later
  BY DEF CutsAfter
<1> HIDE DEF s, m, n, later
<1>5. \A i \in Nat : i < m => (Together(s, i) <=> Together(h, i))
  <2> SUFFICES ASSUME NEW i \in Nat, i < m PROVE Together(s, i) <=> Together(h, i)
    OBVIOUS
  <2>1. (i \in 1 .. Len(s) - 1 <=> i >= 1) /\ (i \in 1 .. Len(h) - 1 <=> i >= 1)
    BY <1>1 DEF m
  <2>2. i >= 1 => s[i] = h[i] /\ s[i + 1] = h[i + 1]
    BY <1>1
  <2> QED
    BY <2>1, <2>2 DEF Together
<1>6. ~(Together(s, m) /\ m \notin later) /\ ~Together(h, m)
  <2>1. m \notin 1 .. Len(h) - 1
    BY <1>1 DEF m
  <2>2. m \in 1 .. Len(s) - 1 => m >= 1 /\ s[m] = h[m] /\ s[m + 1] = b[1]
    BY <1>1
  <2> QED
    BY <1>4, <2>1, <2>2 DEF Together
<1>7. \A j \in Nat : j >= 1 => (Together(s, m + j) <=> Together(b, j))
  <2> SUFFICES ASSUME NEW j \in Nat, j >= 1 PROVE Together(s, m + j) <=> Together(b, j)
    OBVIOUS
  <2>1. m + j \in 1 .. Len(s) - 1 <=> j \in 1 .. n - 1
    BY <1>1
  <2>2. j \in 1 .. n - 1 => s[m + j] = b[j] /\ s[(m + j) + 1] = b[j + 1]
    <3>1. j \in 1 .. n - 1 => j \in 1 .. n /\ j + 1 \in 1 .. n /\ (m + j) + 1 = m + (j + 1)
      BY <1>1
    <3> QED
      BY <1>1, <3>1
  <2> QED
    BY <2>1, <2>2 DEF Together, n
<1>8. ~Together(b, 0) /\ ~Together(s, 0) /\ ~Together(h, 0)
  BY DEF Together
<1>9. ASSUME NEW k \in 1 .. m
      PROVE  (\E i \in {k - 1, k} : Together(s, i) /\ i \notin later)
             <=> (\E i \in {k - 1, k} : Together(h, i) /\ i \notin cuts)
  <2>1. \A i \in {k - 1, k} : i \in Nat /\ (i < m \/ i = m)
    BY <1>1
  <2>2. ASSUME NEW i \in {k - 1, k}
        PROVE  Together(s, i) /\ i \notin later <=> Together(h, i) /\ i \notin cuts
    <3>1. CASE i < m
      BY <1>1, <1>3, <1>5, <2>1, <3>1
    <3>2. CASE i = m
      BY <1>6, <3>2
    <3> QED
      BY <2>1, <3>1, <3>2
  <2> QED
    BY <2>2
<1>10. ASSUME NEW j \in 1 .. n
       PROVE  (\E i \in {m + j - 1, m + j} : Together(s, i) /\ i \notin later)
              <=> (\E i \in {j - 1, j} : Together(b, i) /\ i \notin {})
  <2>1. j \in Nat /\ j >= 1 /\ m + j > m /\ m + j \notin later
    BY <1>1, <1>2
  <2>2. Together(s, m + j) <=> Together(b, j)
    BY <1>7, <2>1
  <2>3. CASE j = 1
    <3>1. m + j - 1 = m /\ j - 1 = 0
      BY <1>1, <2>3
    <3> QED
      BY <1>6, <1>8, <2>1, <2>2, <3>1
  <2>4. CASE j # 1
    <3>1. j - 1 \in Nat /\ j - 1 >= 1 /\ m + j - 1 = m + (j - 1) /\ m + (j - 1) > m
      BY <1>1, <2>1, <2>4
    <3>2. m + (j - 1) \notin later
      BY <1>1, <1>2, <3>1
    <3>3. Together(s, m + (j - 1)) <=> Together(b, j - 1)
      BY <1>7, <3>1
    <3> QED
      BY <2>1, <2>2, <3>1, <3>2, <3>3
  <2> QED
    BY <2>3, <2>4
<1> DEFINE x == Shown(h, cuts)
           y == Shown(b, {})
           z == Shown(s, later)
<1>11. /\ x \in Seq(Characters) /\ Len(x) = m /\ y \in Seq(Characters) /\ Len(y) = n
       /\ z \in Seq(Characters) /\ Len(z) = m + n
  BY <1>1, ShownIs DEF Texts, m, n
<1>12. \A k \in 1 .. m : z[k] = x[k]
  <2> SUFFICES ASSUME NEW k \in 1 .. m PROVE z[k] = x[k]
    OBVIOUS
  <2>1. k \in 1 .. Len(s) /\ k \in 1 .. Len(h) /\ s[k] = h[k]
    BY <1>1 DEF m
  <2>2. z[k] = IF s[k] \notin {Lead, Trail} THEN s[k]
               ELSE IF \E i \in {k - 1, k} : Together(s, i) /\ i \notin later THEN Double ELSE Lost
    <3>1. s \in Seq(Byte)
      BY <1>1
    <3> QED
      BY <2>1, <3>1, ShownIs, Zenon
  <2>3. x[k] = IF h[k] \notin {Lead, Trail} THEN h[k]
               ELSE IF \E i \in {k - 1, k} : Together(h, i) /\ i \notin cuts THEN Double ELSE Lost
    BY <2>1, ShownIs
  <2> HIDE DEF x, z
  <2> QED
    BY <1>9, <2>1, <2>2, <2>3
<1>13. \A j \in 1 .. n : z[m + j] = y[j]
  <2> SUFFICES ASSUME NEW j \in 1 .. n PROVE z[m + j] = y[j]
    OBVIOUS
  <2>1. m + j \in 1 .. Len(s) /\ j \in 1 .. Len(b) /\ s[m + j] = b[j]
    BY <1>1 DEF n
  <2>2. z[m + j] = IF s[m + j] \notin {Lead, Trail} THEN s[m + j]
                   ELSE IF \E i \in {m + j - 1, m + j} : Together(s, i) /\ i \notin later
                        THEN Double ELSE Lost
    BY <1>1, <2>1, ShownIs
  <2>3. y[j] = IF b[j] \notin {Lead, Trail} THEN b[j]
               ELSE IF \E i \in {j - 1, j} : Together(b, i) /\ i \notin {} THEN Double ELSE Lost
    BY <2>1, ShownIs
  <2> HIDE DEF y, z
  <2> QED
    BY <1>10, <2>1, <2>2, <2>3
<1> HIDE DEF x, y, z
<1>15. /\ x \o y \in Seq(Characters) /\ Len(x \o y) = m + n
       /\ \A k \in 1 .. m + n : (x \o y)[k] = IF k <= m THEN x[k] ELSE y[k - m]
  <2>1. x \in Seq(Characters) /\ y \in Seq(Characters)
    BY <1>11
  <2>2. /\ x \o y \in Seq(Characters) /\ Len(x \o y) = Len(x) + Len(y)
        /\ \A k \in 1 .. Len(x) + Len(y) : (x \o y)[k] = IF k <= Len(x) THEN x[k] ELSE y[k - Len(x)]
    BY <2>1, ConcatProperties
  <2> QED
    BY <1>11, <2>2
<1>14. \A k \in 1 .. m + n : z[k] = (x \o y)[k]
  <2> SUFFICES ASSUME NEW k \in 1 .. m + n PROVE z[k] = (x \o y)[k]
    OBVIOUS
  <2>1. CASE k <= m
    <3>1. k \in 1 .. m
      BY <1>1, <2>1
    <3> QED
      BY <1>12, <1>15, <2>1, <3>1
  <2>2. CASE ~(k <= m)
    <3>1. k - m \in 1 .. n /\ m + (k - m) = k
      BY <1>1, <2>2
    <3>2. (x \o y)[k] = y[k - m]
      BY <1>15, <2>2
    <3> QED
      BY <1>13, <3>1, <3>2
  <2> QED
    BY <2>1, <2>2
<1>16. z = x \o y
  BY <1>11, <1>14, <1>15, SeqEqual
<1> QED
  BY <1>16 DEF x, y, z, s, later

LEMMA LegibleKept == ASSUME UNCHANGED <<heard, torn>> PROVE UNCHANGED Legible
BY DEF Legible, Shown, Together

\* A read: what is legible goes on with what the read alone shows.
LEMMA MoreIsHeard ==
  ASSUME HeardIs, NEW bytes \in Seq(Byte), bytes # <<>>, Receive(bytes)
  PROVE  /\ HeardIs' /\ from_utf8_lossy(bytes) \in Texts
         /\ Legible' = Legible \o from_utf8_lossy(bytes)
<1>1. heard \in Seq(Byte) /\ \A k \in torn : k \in Nat /\ k < Len(heard)
  BY DEF HeardIs
<1>2. /\ heard' = heard \o bytes
      /\ torn' = CutsAfter(heard, torn, bytes)
  BY DEF Receive, CutsAfter
<1>3. PICK h, later : h = heard' /\ later = torn'
  OBVIOUS
<1>4. Shown(heard \o bytes, CutsAfter(heard, torn, bytes)) = Shown(heard, torn) \o Shown(bytes, {})
  BY <1>1, ShownOn
<1>5. Legible' = Shown(h, later)
  BY <1>3 DEF Legible, Shown, Together
<1>6. Legible' = Legible \o from_utf8_lossy(bytes)
  BY <1>2, <1>3, <1>4, <1>5, Zenon DEF Legible, from_utf8_lossy
<1>7. HeardIs'
  <2>1. /\ heard \o bytes \in Seq(Byte) /\ Len(heard \o bytes) = Len(heard) + Len(bytes)
        /\ Len(heard) \in Nat /\ Len(bytes) \in Nat /\ Len(bytes) >= 1
    BY <1>1
  <2>2. \A k \in torn' : k \in torn \/ k = Len(heard)
    BY <1>2 DEF CutsAfter
  <2>3. \A k \in torn' : k \in Nat /\ k < Len(heard')
    BY <1>1, <1>2, <2>1, <2>2
  <2>4. heard' \in Seq(Byte)
    BY <1>2, <2>1
  <2> QED
    BY <2>3, <2>4 DEF HeardIs, Byte
<1> QED
  BY <1>6, <1>7, ShownIs DEF from_utf8_lossy

\* What is legible and what of it is in the buffer; before the thread begins there
\* is none.
TextIs ==
  /\ Legible \in Texts
  /\ thread = "none" => Legible = <<>> /\ line_buf = <<>>
  /\ main \in {"psu", "spawn watch"} \/ job = NoJob => thread = "none"

\* What the thread has judged, and what it says in the end.
Judging ==
  /\ thread \in {"check", "read"} =>
       /\ remaining \in Seq(Letters)
       /\ ~job.print_only => RestIs(Legible, line_buf) /\ Going(Legible, remaining)
  /\ thread = "passed" => job.print_only \/ Satisfied
  /\ thread = "failed" => ~job.print_only /\ ~Satisfied

VerdictInv == WatchInv /\ HeardIs /\ TextIs /\ Judging /\ VerdictRight

LEMMA JobIs ==
  ASSUME job \in Jobs
  PROVE  job.expect \in Seq(Letters) /\ job.print_only \in BOOLEAN /\ job.program # "none"
<1>1. <<>> \in Seq(Letters)
  OBVIOUS
<1>3. Expects \subseteq Seq(Letters)
  <2> SUFFICES ASSUME NEW e \in Expects PROVE e \in Seq(Letters)
    OBVIOUS
  <2>1. e \in Seq(Text \cup {Double})
    BY WatchAssumption
  <2> QED
    BY <2>1 DEF Letters
<1>2. job.expect \in Expects \cup {<<>>} /\ job.print_only \in BOOLEAN /\ job.program \in Program
  BY DEF Jobs
<1> QED
  BY <1>1, <1>2, <1>3 DEF Program

\* Before the thread there is nothing to judge.
LEMMA NothingJudged == ASSUME thread = "none" PROVE Judging
BY DEF Judging

LEMMA VerdictInit == WatchInit => VerdictInv
<1>1. <<>> \in Texts /\ <<>> \in Seq(Byte) /\ Len(<<>>) = 0
  BY DEF Texts
<1>2. ASSUME WatchInit PROVE HeardIs /\ Legible = <<>>
  <2>1. heard = <<>> /\ torn = {}
    BY <1>2 DEF WatchInit
  <2>2. Legible \in Seq(Characters) /\ Len(Legible) = 0
    BY <1>1, <2>1, ShownIs DEF Legible, Texts
  <2>3. Legible = <<>>
    BY <2>2, EmptySeq
  <2> QED
    BY <1>1, <2>1, <2>3 DEF HeardIs
<1> HIDE DEF Legible
<1>3. ASSUME WatchInit PROVE TextIs /\ Judging /\ VerdictRight
  <2>1. thread = "none" /\ line_buf = <<>> /\ rc = -1 /\ Legible = <<>>
    BY <1>2, <1>3 DEF WatchInit, Running
  <2>2. TextIs
    BY <1>1, <2>1 DEF TextIs
  <2>3. Judging
    BY <2>1, NothingJudged
  <2>4. VerdictRight
    BY <2>1 DEF VerdictRight
  <2> QED
    BY <2>2, <2>3, <2>4
<1> QED
  BY <1>2, <1>3, WatchInitInv DEF VerdictInv

\* At the start nothing is found, and nothing is in the buffer.
LEMMA AtFirst ==
  ASSUME job.expect \in Seq(Letters)
  PROVE  RestIs(<<>>, <<>>) /\ Going(<<>>, job.expect)
<1>1. RestIs(<<>>, <<>>)
  BY DEF RestIs
<1>2. Ends(<<>>) = {} /\ Len(<<>>) = 0
  BY DEF Ends
<1>3. Fine(<<>>, 0)
  BY <1>2 DEF Fine
<1>4. Missing(job.expect) = 0 /\ Len(job.expect) \in Nat
  BY DEF Missing
<1>5. Found(<<>>, 0, 0)
  <2> DEFINE f == [i \in 1 .. 0 |-> i]
  <2>1. 1 .. 0 = {}
    OBVIOUS
  <2>2. f \in [1 .. 0 -> {k \in Ends(<<>>) : k <= 0}]
    BY <2>1
  <2> QED
    BY <2>1, <2>2 DEF Found
<1>6. ~Found(<<>>, 0, 1)
  <2>1. 1 \in 1 .. 1
    OBVIOUS
  <2> QED
    BY <1>2, <2>1 DEF Found
<1>7. Going(<<>>, job.expect)
  BY <1>2, <1>3, <1>4, <1>5, <1>6 DEF Going
<1> QED
  BY <1>1, <1>7

\* The verdict on a text is what Satisfied says of it.
Pleased(t) ==
  IF job.expect = <<>> THEN Fine(t, Len(t))
  ELSE \E e \in Ends(t) : Fine(t, e) /\ Found(t, e, Len(job.expect))

LEMMA JudgedIs ==
  ASSUME NEW t \in Texts, job.expect \in Seq(Letters), NEW s \in State, Judged(t, s)
  PROVE  /\ s.verdict = "passed" => Pleased(t)
         /\ s.verdict = "failed" => ~Pleased(t)
<1>1. s.verdict = "passed" => Pleased(t)
  BY DEF Judged, Pleased
<1>2. ASSUME s.verdict = "failed", Pleased(t) PROVE FALSE
  <2>1. PICK e \in Ends(t) : FailedAt(t, e)
    BY <1>2 DEF Judged
  <2>2. e \in Nat /\ e - 1 \in Nat /\ e <= Len(t) /\ Len(t) \in Nat
    BY LimitsAre
  <2>3. job.expect # <<>>
    BY <1>2, <2>1, <2>2, FineLess DEF FailedAt, Pleased
  <2>4. PICK d \in Ends(t) : Fine(t, d) /\ Found(t, d, Len(job.expect))
    BY <1>2, <2>3 DEF Pleased
  <2>5. d \in Nat /\ Len(job.expect) \in Nat /\ Len(job.expect) <= Len(job.expect)
    BY LimitsAre
  <2>6. CASE e <= d
    BY <2>1, <2>2, <2>4, <2>5, <2>6, FineLess DEF FailedAt
  <2>7. CASE d <= e - 1
    BY <2>1, <2>2, <2>3, <2>4, <2>5, <2>7, FoundLess DEF FailedAt
  <2> QED
    BY <2>2, <2>5, <2>6, <2>7
<1> QED
  BY <1>1, <1>2

\* When the time is up the text satisfies the request unless a pattern is left.
LEMMA TimeIsUp ==
  ASSUME Legible \in Texts, job.expect \in Seq(Letters), NEW left \in Seq(Letters), Going(Legible, left)
  PROVE  Satisfied <=> left = <<>>
<1>1. ASSUME left = <<>> PROVE Satisfied
  BY <1>1 DEF Going, Satisfied
<1>2. ASSUME left # <<>>, Satisfied PROVE FALSE
  <2> DEFINE n == Len(job.expect)
             m == Missing(left)
  <2>1. Len(left) \in Nat /\ n \in Nat /\ Len(left) <= n /\ Len(left) >= 1
    BY <1>2 DEF Going
  <2>2. m \in Nat /\ m + 1 \in Nat /\ m + 1 <= n
    BY <2>1 DEF Missing
  <2>3. job.expect # <<>>
    BY <2>1
  <2>4. PICK e \in Ends(Legible) : Found(Legible, e, n)
    BY <1>2, <2>3 DEF Satisfied
  <2>5. e \in Nat /\ e <= Len(Legible) /\ Len(Legible) \in Nat
    BY LimitsAre
  <2>6. Found(Legible, Len(Legible), m + 1)
    BY <2>1, <2>2, <2>4, <2>5, FoundLess
  <2> QED
    BY <1>2, <2>6 DEF Going
<1> QED
  BY <1>1, <1>2

LEMMA SameText ==
  ASSUME UNCHANGED <<job, Legible>>
  PROVE  /\ Satisfied' <=> Satisfied
         /\ \A l : Going(Legible, l)' <=> Going(Legible, l)
         /\ \A b : RestIs(Legible, b)' <=> RestIs(Legible, b)
  BY DEF Satisfied, Going, RestIs, Missing, Fine, Found, Ends, LineAt

LEMMA SameBuffer ==
  ASSUME UNCHANGED <<job, Legible, line_buf, remaining>>
  PROVE  /\ Going(Legible, remaining)' <=> Going(Legible, remaining)
         /\ RestIs(Legible, line_buf)' <=> RestIs(Legible, line_buf)
  BY DEF Going, RestIs, Missing, Fine, Found, Ends, LineAt

\* Whatever leaves the text and the thread's locals alone keeps what is judged.
LEMMA JudgingKept ==
  ASSUME VerdictInv, UNCHANGED <<job, thread, Legible, line_buf, remaining>>
  PROVE  Judging' /\ Legible' \in Texts /\ (thread' = "none" => Legible' = <<>> /\ line_buf' = <<>>)
<1>1. /\ Satisfied' <=> Satisfied
      /\ Going(Legible, remaining)' <=> Going(Legible, remaining)
      /\ RestIs(Legible, line_buf)' <=> RestIs(Legible, line_buf)
  BY SameText, SameBuffer
<1> HIDE DEF Going, RestIs, Satisfied
<1>2. Judging'
  BY <1>1 DEF VerdictInv, Judging
<1> QED
  BY <1>2 DEF VerdictInv, TextIs, Texts, Characters, Letters

\* While the program runs it has no exit code.
LEMMA NoCode == rc = Running => VerdictRight
BY DEF VerdictRight, Running

\* What a step of the thread or of the main one is left to keep.
Told == TextIs /\ Judging /\ VerdictRight

LEMMA AtWork ==
  ASSUME VerdictInv, Alive
  PROVE  /\ main # "off" /\ rc = Running /\ job \in Jobs /\ job # NoJob
         /\ job.expect \in Seq(Letters) /\ job.print_only \in BOOLEAN
         /\ Legible \in Texts
<1>1. main # "off" /\ rc = Running /\ job # NoJob /\ job \in Jobs
  BY DEF VerdictInv, WatchInv, NothingYet, Alive
<1> QED
  BY <1>1, JobIs DEF VerdictInv, TextIs

LEMMA CodesDiffer ==
  \A x : /\ x = 0 => x # 1 /\ x # 2
         /\ x = 1 => x # 0 /\ x # 2
         /\ x = 2 => x # 0 /\ x # 1
  OBVIOUS

LEMMA SetAside ==
  ASSUME VerdictInv, Alive, UNCHANGED <<job, thread, Legible, line_buf, remaining>>,
         main' \in {"psu", "spawn watch"} => thread = "none", VerdictRight'
  PROVE  Told'
<1>1. Judging' /\ Legible' \in Texts /\ (thread' = "none" => Legible' = <<>> /\ line_buf' = <<>>)
  BY JudgingKept
<1>2. job' # NoJob
  BY AtWork
<1> HIDE DEF Judging, VerdictRight
<1> QED
  BY <1>1, <1>2 DEF Told, TextIs

LEMMA PsuStep == ASSUME VerdictInv, Alive, PsuInit PROVE Told'
<1> USE DEF lineVars, Exit, GoOn
<1>1. /\ UNCHANGED <<job, thread, Legible, line_buf, remaining>> /\ main = "psu"
      /\ tool \in {"none", "ok", "bad"}
  BY LegibleKept DEF PsuInit, VerdictInv, WatchInv, WhereTheyAre
<1>2. thread = "none" /\ rc = Running
  BY <1>1, AtWork DEF VerdictInv, TextIs
<1>3. CASE tool = "none" /\ job.lacks \notin {"blobs", "xsct"}
  <2>1. rc' = Running
    BY <1>2, <1>3 DEF PsuInit
  <2>2. VerdictRight'
    BY <2>1 DEF VerdictRight, run_doctor, Running
  <2> QED
    BY <1>1, <1>2, <2>2, SetAside
<1>4. CASE tool = "none" /\ job.lacks \in {"blobs", "xsct"}
  <2>1. rc' = 2
    BY <1>4 DEF PsuInit
  <2>2. ~run_doctor(job')
    BY <1>1, <1>4 DEF run_doctor
  <2>3. VerdictRight'
    BY <2>1, <2>2, CodesDiffer, Zenon DEF VerdictRight
  <2> QED
    BY <1>1, <1>2, <2>3, SetAside
<1>5. CASE tool = "ok"
  <2>1. rc' = Running
    BY <1>2, <1>5 DEF PsuInit
  <2>2. VerdictRight'
    BY <2>1 DEF VerdictRight, run_doctor, Running
  <2> QED
    BY <1>1, <1>2, <2>2, SetAside
<1>6. CASE tool = "bad"
  <2>1. rc' = 1 /\ tool' = "bad"
    BY <1>6 DEF PsuInit
  <2>2. VerdictRight'
    BY <2>1, CodesDiffer, Zenon DEF VerdictRight
  <2> QED
    BY <1>1, <1>2, <2>2, SetAside
<1> QED
  BY <1>1, <1>3, <1>4, <1>5, <1>6
LEMMA SpawnStep == ASSUME VerdictInv, Alive, spawn_serial_watch PROVE Told'
<1> USE DEF lineVars, Exit, GoOn
<1>1. /\ rc = Running /\ job # NoJob /\ job.expect \in Seq(Letters) /\ UNCHANGED <<job, Legible, line_buf>>
      /\ main = "spawn watch"
  BY AtWork, LegibleKept DEF spawn_serial_watch
<1>2. thread = "none" /\ Legible = <<>> /\ line_buf = <<>>
  BY <1>1 DEF VerdictInv, TextIs
<1>3. CASE job.lacks \in {"valid regex", "tty", "permission"}
  <2>1. UNCHANGED <<thread, remaining>> /\ rc' = 2 /\ main' = "off"
    BY <1>3 DEF spawn_serial_watch
  <2>2. run_doctor(job') => job'.lacks \in {"valid regex", "elf", "disk"}
    BY <1>1, <1>3 DEF run_doctor
  <2>3. VerdictRight'
    BY <2>1, <2>2, CodesDiffer, Zenon DEF VerdictRight
  <2> QED
    BY <1>1, <2>1, <2>3, SetAside
<1>4. CASE job.lacks \notin {"valid regex", "tty", "permission"}
  <2>1. thread' = "check" /\ remaining' = job.expect /\ main' \in {"join", "launch"} /\ rc' = Running
    BY <1>1, <1>4 DEF spawn_serial_watch
  <2>2. RestIs(<<>>, <<>>) /\ Going(<<>>, job.expect)
    BY <1>1, AtFirst
  <2>3. Going(Legible, remaining)'
    <3>1. PICK l : l = job.expect
      OBVIOUS
    <3>2. Going(Legible, l) /\ remaining' = l
      BY <1>2, <2>1, <2>2, <3>1
    <3>3. Going(Legible, l)'
      BY <1>1, <3>2, SameText
    <3> QED
      BY <3>2, <3>3 DEF Going, Missing, Fine, Found, Ends, LineAt
  <2>4. RestIs(Legible, line_buf)'
    BY <1>1, <1>2, <2>2
  <2>5. remaining' \in Seq(Letters) /\ Legible' \in Texts
    <3>1. Legible \in Texts /\ Legible' = Legible
      BY <1>1, AtWork
    <3> QED
      BY <1>1, <2>1, <3>1 DEF Texts, Characters, Letters
  <2>6. Judging'
    BY <2>1, <2>3, <2>4, <2>5 DEF Judging
  <2>7. VerdictRight'
    BY <2>1 DEF VerdictRight, run_doctor, Running
  <2>8. TextIs'
    BY <1>1, <2>1, <2>5 DEF TextIs
  <2> QED
    BY <2>6, <2>7, <2>8 DEF Told
<1> QED
  BY <1>3, <1>4

LEMMA LaunchStep == ASSUME VerdictInv, Alive, Launch \/ WaitTool PROVE Told'
<1> USE DEF lineVars, Exit, GoOn
<1>1. /\ UNCHANGED <<job, thread, Legible, line_buf, remaining>> /\ rc = Running
      /\ main' \in {"off", "wait tool", "join"}
  BY AtWork, LegibleKept DEF Launch, WaitTool
<1>2. \/ rc' = Running
      \/ rc' = 2 /\ job.lacks \in {"xsct", "openocd", "elf"}
  <2>1. CASE Launch
    <3> DEFINE there == IF job.program = "watch-a53" THEN job.lacks # "xsct"
                                                  ELSE job.lacks \notin {"openocd", "elf"}
    <3>1. CASE there
      <4>1. rc' = rc
        BY <2>1, <3>1 DEF Launch
      <4> QED
        BY <1>1, <4>1
    <3>2. CASE ~there
      <4>1. rc' = 2
        BY <2>1, <3>2 DEF Launch
      <4>2. job.lacks \in {"xsct", "openocd", "elf"}
        BY <3>2
      <4> QED
        BY <4>1, <4>2
    <3> QED
      BY <3>1, <3>2
  <2>2. CASE WaitTool
    BY <1>1, <2>2 DEF WaitTool
  <2> QED
    BY <2>1, <2>2
<1>3. VerdictRight'
  <2>1. CASE rc' = Running
    BY <2>1 DEF VerdictRight, run_doctor, Running
  <2>2. CASE rc' = 2 /\ job.lacks \in {"xsct", "openocd", "elf"}
    <3>1. run_doctor(job') => job'.lacks \in {"valid regex", "elf", "disk"}
      BY <1>1, <2>2 DEF run_doctor
    <3> QED
      BY <2>2, <3>1, CodesDiffer, Zenon DEF VerdictRight
  <2> QED
    BY <1>2, <2>1, <2>2
<1> QED
  BY <1>1, <1>3, SetAside

LEMMA JoinStep == ASSUME VerdictInv, Alive, Join PROVE Told'
<1> USE DEF lineVars, Exit, GoOn
<1>1. /\ UNCHANGED <<job, thread, Legible, line_buf, remaining>> /\ main' = "off"
      /\ thread \in {"passed", "failed", "error"}
  BY LegibleKept DEF Join
<1>2. /\ thread' = "passed" => job'.print_only \/ Satisfied'
      /\ thread' = "failed" => ~job'.print_only /\ ~Satisfied'
  BY <1>1, JudgingKept DEF Judging
<1>3. VerdictRight'
  <2>1. CASE thread = "error"
    <3>1. rc' = 2 /\ thread' = "error"
      BY <1>1, <2>1 DEF Join
    <3> QED
      BY <3>1, CodesDiffer, Zenon DEF VerdictRight
  <2>2. CASE thread # "error"
    <3>1. /\ tool' = Reaped(tool)
          /\ rc' = IF thread = "passed" /\ tool # "bad" THEN 0 ELSE 1
      BY <2>2 DEF Join
    <3>2. tool' = "bad" <=> tool = "bad"
      BY <3>1 DEF Reaped
    <3>3. CASE thread = "passed" /\ tool # "bad"
      <4>1. rc' = 0 /\ thread' = "passed" /\ tool' # "bad"
        BY <1>1, <3>1, <3>2, <3>3
      <4> QED
        BY <1>2, <4>1, CodesDiffer, Zenon DEF VerdictRight
    <3>4. CASE ~(thread = "passed" /\ tool # "bad")
      <4>1. rc' = 1 /\ (thread' = "failed" \/ tool' = "bad")
        BY <1>1, <2>2, <3>1, <3>2, <3>4
      <4> QED
        BY <1>2, <4>1, CodesDiffer, Zenon DEF VerdictRight
    <3> QED
      BY <3>3, <3>4
  <2> QED
    BY <2>1, <2>2
<1> QED
  BY <1>1, <1>3, SetAside

LEMMA BytesCome ==
  ASSUME NEW n \in 1 .. MaxText, NEW bytes \in [1 .. n -> Byte]
  PROVE  bytes \in Seq(Byte) /\ bytes # <<>>
<1>1. n \in Nat /\ n >= 1
  BY WatchAssumption
<1>2. bytes \in Seq(Byte)
  BY <1>1
<1>3. DOMAIN bytes = 1 .. n /\ DOMAIN <<>> = 1 .. 0 /\ 1 \in 1 .. n /\ 1 \notin 1 .. 0
  BY <1>1
<1> QED
  BY <1>2, <1>3

\* What is said of a text does not depend on the step, while the request stays.
LEMMA SameJob ==
  ASSUME NEW t, NEW l, UNCHANGED job
  PROVE  (Going(t, l)' <=> Going(t, l)) /\ (Pleased(t)' <=> Pleased(t))
  BY DEF Going, Pleased, Missing, Fine, Found, Ends, LineAt

LEMMA ReceiveStep ==
  ASSUME VerdictInv, Alive, NEW bytes \in Seq(Byte), bytes # <<>>, Receive(bytes)
  PROVE  Told'
<1> USE DEF watchThreadOnly
<1> DEFINE text == from_utf8_lossy(bytes)
           r == SplitLines(line_buf, text)
           s == MatchLines(remaining, r.lines)
<1>1. /\ thread = "read" /\ rc = Running /\ job # NoJob /\ job.expect \in Seq(Letters)
      /\ Legible \in Texts /\ remaining \in Seq(Letters) /\ job.print_only \in BOOLEAN
      /\ main \notin {"psu", "spawn watch"}
      /\ ~job.print_only => RestIs(Legible, line_buf) /\ Going(Legible, remaining)
  BY AtWork DEF VerdictInv, TextIs, Judging, Receive
<1>7. text \in Texts /\ Legible' = Legible \o text
  BY MoreIsHeard DEF VerdictInv
<1>2. UNCHANGED <<job, main, rc, tool>> /\ Legible' = Legible \o text /\ line_buf' = r.rest
  BY <1>7 DEF Receive, push_bytes_to_lines
<1>3. VerdictRight'
  <2>1. rc' = Running
    BY <1>1, <1>2
  <2> QED
    BY <2>1 DEF VerdictRight, run_doctor, Running
<1>4. Legible' \in Texts
  <2>1. Legible \o text \in Seq(Characters)
    BY <1>1, <1>7, ConcatProperties DEF Texts
  <2> QED
    BY <1>2, <2>1 DEF Texts, Characters, Letters
<1>5. CASE job.print_only
  <2>1. thread' = "check" /\ remaining' = remaining
    BY <1>5 DEF Receive
  <2>2. Judging'
    BY <1>1, <1>2, <1>5, <2>1 DEF Judging
  <2>3. TextIs'
    BY <1>1, <1>2, <1>4, <2>1 DEF TextIs
  <2> QED
    BY <1>3, <2>2, <2>3 DEF Told
<1>6. CASE ~job.print_only
  <2>1. remaining' = s.left /\ thread' = s.verdict
    BY <1>6 DEF Receive, push_bytes_to_lines
  <2>2. /\ Legible \o text \in Texts /\ RestIs(Legible \o text, r.rest)
        /\ s \in State /\ Judged(Legible \o text, s)
    BY <1>1, <1>6, <1>7, ReadJudged
  <2>3. PICK t, b, w : t = Legible \o text /\ b = r.rest /\ w = s
    OBVIOUS
  <2> HIDE DEF r, s, text
  <2>4. /\ Legible' = t /\ line_buf' = b /\ remaining' = w.left /\ thread' = w.verdict
        /\ t \in Texts /\ RestIs(t, b) /\ w \in State /\ Judged(t, w)
        /\ w.left \in Seq(Letters) /\ w.verdict \in Verdict
    BY <1>2, <2>1, <2>2, <2>3 DEF State
  <2>5. thread' = "check" => RestIs(Legible, line_buf)' /\ Going(Legible, remaining)'
    <3>1. SUFFICES ASSUME w.verdict = "check"
                   PROVE  RestIs(Legible, line_buf)' /\ Going(Legible, remaining)'
      BY <2>4
    <3>2. Going(t, w.left)
      BY <2>4, <3>1 DEF Judged
    <3>3. PICK l : l = w.left
      OBVIOUS
    <3>4. Going(t, l)'
      BY <1>2, <3>2, <3>3, SameJob
    <3>5. Going(Legible, remaining)'
      <4>1. Legible' = t /\ remaining' = l
        BY <2>4, <3>3
      <4>2. Going(Legible, l)' <=> Going(t, l)'
        BY <4>1 DEF Going, Missing, Fine, Found, Ends, LineAt
      <4>3. Going(Legible, remaining)' <=> Going(Legible, l)'
        BY <4>1 DEF Going, Missing, Fine, Found, Ends, LineAt
      <4> QED
        BY <3>4, <4>2, <4>3
    <3>6. RestIs(Legible, line_buf)'
      BY <2>4 DEF RestIs
    <3> QED
      BY <3>5, <3>6
  <2>6. (thread' = "passed" => Satisfied') /\ (thread' = "failed" => ~Satisfied')
    <3>1. (w.verdict = "passed" => Pleased(t)) /\ (w.verdict = "failed" => ~Pleased(t))
      BY <1>1, <2>4, JudgedIs
    <3>2. Pleased(t)' <=> Pleased(t)
      BY <1>2, SameJob
    <3>3. Satisfied' <=> Pleased(t)'
      BY <2>4 DEF Satisfied, Pleased, Fine, Found, Ends, LineAt
    <3> QED
      BY <2>4, <3>1, <3>2, <3>3
  <2>7. remaining' \in Seq(Letters) /\ thread' \in Verdict
    BY <2>4
  <2>8. Judging'
    <3>1. thread' # "read" /\ job' = job
      BY <1>2, <2>7 DEF Verdict
    <3> HIDE DEF Satisfied, Going, RestIs
    <3> QED
      BY <1>6, <2>5, <2>6, <2>7, <3>1 DEF Judging
  <2>9. TextIs'
    BY <1>1, <1>2, <1>4, <2>7 DEF TextIs, Verdict
  <2> QED
    BY <1>3, <2>8, <2>9 DEF Told
<1> QED
  BY <1>1, <1>5, <1>6

LEMMA ClockStep ==
  ASSUME VerdictInv, Alive, CheckTime \/ Tick \/ \E outcome \in {"check", "error"} : ReadFails(outcome)
  PROVE  Told'
<1> USE DEF watchThreadOnly, lineVars
<1>1. /\ rc = Running /\ job # NoJob /\ job.expect \in Seq(Letters) /\ Legible \in Texts
      /\ job.print_only \in BOOLEAN
  BY AtWork
<1>2. /\ UNCHANGED <<job, main, rc, tool, Legible, line_buf, remaining>>
      /\ thread \in {"check", "read"} /\ thread' \in {"check", "read", "passed", "failed", "error"}
  BY LegibleKept DEF CheckTime, Tick, ReadFails
<1>3. VerdictRight'
  BY <1>1, <1>2 DEF VerdictRight, run_doctor, Running
<1>4. TextIs'
  <2>1. Legible' \in Texts
    BY <1>1, <1>2 DEF Texts, Characters, Letters
  <2>2. main \notin {"psu", "spawn watch"}
    BY <1>2 DEF VerdictInv, TextIs
  <2> QED
    BY <1>1, <1>2, <2>1, <2>2 DEF TextIs
<1>5. remaining \in Seq(Letters) /\ (~job.print_only => RestIs(Legible, line_buf) /\ Going(Legible, remaining))
  BY <1>2 DEF VerdictInv, Judging
<1>6. /\ Going(Legible, remaining)' <=> Going(Legible, remaining)
      /\ RestIs(Legible, line_buf)' <=> RestIs(Legible, line_buf)
      /\ Satisfied' <=> Satisfied
  BY <1>2, SameBuffer, SameText
<1>7. /\ thread' = "passed" => job.print_only \/ remaining = <<>>
      /\ thread' = "failed" => ~job.print_only /\ remaining # <<>>
  <2>1. CASE CheckTime
    BY <1>1, <2>1 DEF CheckTime
  <2>2. CASE Tick \/ \E outcome \in {"check", "error"} : ReadFails(outcome)
    BY <1>2, <2>2 DEF Tick, ReadFails
  <2> QED
    BY <2>1, <2>2
<1>8. ~job.print_only => (Satisfied <=> remaining = <<>>)
  BY <1>1, <1>5, TimeIsUp
<1>9. Judging'
  <2>1. remaining' \in Seq(Letters) /\ job' = job
    BY <1>2, <1>5
  <2> HIDE DEF Satisfied, Going, RestIs
  <2> QED
    BY <1>1, <1>5, <1>6, <1>7, <1>8, <2>1 DEF Judging
<1> QED
  BY <1>3, <1>4, <1>9 DEF Told

LEMMA ToolStep ==
  ASSUME VerdictInv, Alive, NEW status \in {"ok", "bad"}, ToolEnds(status)
  PROVE  Told'
<1>1. UNCHANGED <<job, main, thread, rc, Legible, line_buf, remaining>>
  BY LegibleKept DEF ToolEnds, lineVars
<1>2. main' \in {"psu", "spawn watch"} => thread = "none"
  BY <1>1 DEF VerdictInv, TextIs
<1>3. VerdictRight'
  BY <1>1, AtWork DEF VerdictRight, run_doctor, Running
<1> QED
  BY <1>1, <1>2, <1>3, SetAside

LEMMA ScriptStep == ASSUME VerdictInv, Alive, ScriptFails PROVE Told'
<1> USE DEF lineVars, Exit
<1>1. /\ UNCHANGED <<job, thread, Legible, line_buf, remaining>> /\ main' = "off"
      /\ rc' = 2 /\ job.lacks = "disk"
  BY LegibleKept DEF ScriptFails, NoScript
<1>2. VerdictRight'
  <2>1. job'.lacks \in {"valid regex", "elf", "disk"}
    BY <1>1
  <2> QED
    BY <1>1, <2>1, CodesDiffer, Zenon DEF VerdictRight
<1> QED
  BY <1>1, <1>2, SetAside

LEMMA WatchStart == ASSUME VerdictInv, Start PROVE Told'
<1> USE DEF lineVars, Exit, GoOn
<1>1. job = NoJob /\ rc = Running /\ thread = "none" /\ Legible \in Texts /\ Legible = <<>> /\ line_buf = <<>>
  BY DEF VerdictInv, WatchInv, NothingYet, TextIs, Start
<1>2. UNCHANGED <<thread, Legible, line_buf, remaining>>
  BY LegibleKept DEF Start
<1>3. Judging'
  BY <1>1, <1>2 DEF Judging
<1>4. TextIs'
  BY <1>1, <1>2 DEF TextIs, Texts, Characters, Letters
<1>5. VerdictRight'
  <2>1. CASE job'.program = "watch-a53" /\ job'.lacks \in {"blobs", "elf"}
    <3>1. rc' = 2
      BY <2>1 DEF Start
    <3>2. run_doctor(job') => job'.lacks \in {"valid regex", "elf", "disk"}
      BY <2>1 DEF run_doctor
    <3> QED
      BY <3>1, <3>2, CodesDiffer, Zenon DEF VerdictRight
  <2>2. CASE ~(job'.program = "watch-a53" /\ job'.lacks \in {"blobs", "elf"})
    <3>1. rc' = Running
      BY <1>1, <2>2 DEF Start
    <3> QED
      BY <3>1 DEF VerdictRight, run_doctor, Running
  <2> QED
    BY <2>1, <2>2
<1> QED
  BY <1>3, <1>4, <1>5 DEF Told

LEMMA HeardStep == HeardIs /\ [WatchNext]_watchVars => HeardIs'
<1> SUFFICES ASSUME HeardIs, [WatchNext]_watchVars PROVE HeardIs'
  OBVIOUS
<1>1. ASSUME NEW n \in 1 .. MaxText, NEW bytes \in [1 .. n -> Byte], Receive(bytes) PROVE HeardIs'
  BY <1>1, BytesCome, MoreIsHeard
<1>2. ASSUME UNCHANGED <<heard, torn>> PROVE HeardIs'
  BY <1>2 DEF HeardIs, Byte
<1>3. \/ UNCHANGED <<heard, torn>>
      \/ \E n \in 1 .. MaxText : \E bytes \in [1 .. n -> Byte] : Receive(bytes)
  BY DEF WatchNext, watchVars, Start, PsuInit, spawn_serial_watch, ScriptFails, Launch, WaitTool, Join,
         CheckTime, ReadFails, Tick, ToolEnds, lineVars
<1> QED
  BY <1>1, <1>2, <1>3

LEMMA VerdictStep == VerdictInv /\ [WatchNext]_watchVars => VerdictInv'
<1> SUFFICES ASSUME VerdictInv, [WatchNext]_watchVars PROVE VerdictInv'
  OBVIOUS
<1>1. WatchInv'
  BY WatchStep DEF VerdictInv
<1>2. ASSUME Start PROVE Told'
  BY <1>2, WatchStart
<1>3. ASSUME Alive /\ PsuInit PROVE Told'
  BY <1>3, PsuStep
<1>4. ASSUME Alive /\ spawn_serial_watch PROVE Told'
  BY <1>4, SpawnStep
<1>5. ASSUME Alive /\ (Launch \/ WaitTool) PROVE Told'
  BY <1>5, LaunchStep
<1>6. ASSUME Alive /\ Join PROVE Told'
  BY <1>6, JoinStep
<1>7. ASSUME Alive /\ (CheckTime \/ Tick \/ \E outcome \in {"check", "error"} : ReadFails(outcome)) PROVE Told'
  BY <1>7, ClockStep
<1>8. ASSUME Alive, NEW n \in 1 .. MaxText, NEW bytes \in [1 .. n -> Byte], Receive(bytes)
      PROVE  Told'
  BY <1>8, BytesCome, ReceiveStep
<1>9. ASSUME Alive, NEW status \in {"ok", "bad"}, ToolEnds(status) PROVE Told'
  BY <1>9, ToolStep
<1>10. ASSUME UNCHANGED watchVars PROVE Told'
  <2>1. UNCHANGED <<job, main, thread, rc, tool, Legible, line_buf, remaining>>
    BY <1>10, LegibleKept DEF watchVars
  <2>2. Judging' /\ Legible' \in Texts /\ (thread' = "none" => Legible' = <<>> /\ line_buf' = <<>>)
    BY <2>1, JudgingKept
  <2>3. TextIs'
    BY <2>1, <2>2 DEF VerdictInv, TextIs
  <2>4. VerdictRight'
    <3>1. Satisfied' <=> Satisfied
      BY <2>1, SameText
    <3> HIDE DEF Satisfied
    <3> QED
      BY <2>1, <3>1 DEF VerdictInv, VerdictRight, run_doctor
  <2> QED
    BY <2>2, <2>3, <2>4 DEF Told
<1>12. ASSUME Alive /\ ScriptFails PROVE Told'
  BY <1>12, ScriptStep
<1>11. Told'
  BY <1>2, <1>3, <1>4, <1>5, <1>6, <1>7, <1>8, <1>9, <1>10, <1>12 DEF WatchNext
<1>13. HeardIs'
  BY HeardStep DEF VerdictInv
<1> QED
  BY <1>1, <1>11, <1>13 DEF VerdictInv, Told

\* The exit code is the verdict on all of the text but the characters of several
\* bytes that a read cuts in two, which from_utf8_lossy makes unrecognizable, and
\* 2 is an error the doctor does not speak of (tooling/zub_ctl/src/main.rs:13-17,
\* lib.rs:25-76).
THEOREM VerdictIsRight == WatchSpec => []VerdictRight
<1>1. WatchSpec => []VerdictInv
  BY VerdictInit, VerdictStep, PTL DEF WatchSpec
<1>2. VerdictInv => VerdictRight
  BY DEF VerdictInv
<1> QED
  BY <1>1, <1>2, PTL

-----------------------------------------------------------------------------
(***************************************************************************)
(* DmaRing, for every size of the ring and any set of buffers: the engine  *)
(* works on what the ring owns, and the ring is a bounded queue of buffers. *)
(***************************************************************************)
Lengths == 1 .. Capacity
Owned == Buffers \cup {NoBuffer}
Status == [complete : BOOLEAN, error : BOOLEAN, length : Nat]
Descriptor == [buffer : Owned, control : Nat, status : Status]
RingSteps == {"initialize", "resetting", "ResetTimeout", "ready", "submit", "submit rest"}

RingTypeOK ==
  /\ descriptors \in [Index -> Descriptor]
  /\ producer \in Index /\ consumer \in Index
  /\ ring \in [do : RingSteps, polls : Nat, index : Index]
  /\ tail \in Nat \X Nat
  /\ engine \in [reset : BOOLEAN, run : BOOLEAN, going : BOOLEAN, current : Index, stop : Index]
  /\ filled \in Seq([buffer : Owned, length : Nat, error : BOOLEAN])
  /\ taken \in [buffer : Owned, length : Nat]

\* The i-th index from c on, and how many there are from c up to p.
PlaceFrom(c, i) == (c + i - 1) % RingSize
Distance(c, p) == (p + RingSize - c) % RingSize

\* How many descriptors are enqueued, and the index of each.
Away == Distance(consumer, producer)
Place(i) == PlaceFrom(consumer, i)

Submitting == ring.do \in {"submit", "submit rest"}

\* The descriptors that were enqueued and not filled are blank, the others say
\* what was put into their buffers.
StatusTrue ==
  /\ Len(filled) <= Away
  /\ \A i \in 1 .. Away :
       IF i <= Len(filled)
         THEN /\ descriptors[Place(i)].buffer = filled[i].buffer
              /\ descriptors[Place(i)].status =
                   [complete |-> TRUE, error |-> filled[i].error, length |-> filled[i].length]
         ELSE descriptors[Place(i)].status = Blank

\* The ring is empty until the engine has been started.
EmptyAtFirst ==
  ring.do \notin {"ready", "submit", "submit rest"} =>
    producer = consumer /\ filled = <<>> /\ ~engine.going

\* The engine is at the first descriptor that is not filled.
AtFirstUnfilled ==
  ring.do \in {"ready", "submit", "submit rest"} => engine.current = Place(Len(filled) + 1)

\* It stops at a descriptor that is enqueued and not filled, and before the one
\* whose address is still to be written to the tail.
StopsInTime ==
  engine.going =>
    \E k \in Len(filled) + 1 .. Away :
      engine.stop = Place(k) /\ (Submitting => k < Away)

\* A tail is written for the descriptor enqueued last, which is not filled; the
\* high half first.
TailIsLast ==
  /\ Submitting => ring.index = Place(Away) /\ Len(filled) < Away
  /\ ring.do = "submit rest" => tail[2] = ring.index \div HalfEnd

\* The inductive invariant.
RingIInv ==
  /\ RingTypeOK /\ StatusTrue /\ EmptyAtFirst /\ AtFirstUnfilled /\ StopsInTime /\ TailIsLast
-----------------------------------------------------------------------------
LEMMA Remainder ==
  ASSUME NEW a \in Nat, a < 2 * RingSize
  PROVE  a % RingSize = IF a < RingSize THEN a ELSE a - RingSize
  BY RingAssumption

LEMMA Halves ==
  ASSUME NEW a \in Nat
  PROVE  /\ (a % HalfEnd) + HalfEnd * (a \div HalfEnd) = a
         /\ a % HalfEnd \in Nat /\ a \div HalfEnd \in Nat
  BY RingAssumption

LEMMA FollowingIs ==
  ASSUME NEW i \in Index
  PROVE  Following(i) = (IF i + 1 = RingSize THEN 0 ELSE i + 1) /\ Following(i) \in Index
  BY RingAssumption, Remainder DEF Following, Index

LEMMA DistanceIs ==
  ASSUME NEW c \in Index, NEW p \in Index
  PROVE  /\ Distance(c, p) = IF c <= p THEN p - c ELSE p + RingSize - c
         /\ Distance(c, p) \in Index
  BY RingAssumption, Remainder DEF Distance, Index

LEMMA PlaceIs ==
  ASSUME NEW c \in Index, NEW i \in 1 .. RingSize
  PROVE  /\ PlaceFrom(c, i) = IF c + i - 1 < RingSize THEN c + i - 1 ELSE c + i - 1 - RingSize
         /\ PlaceFrom(c, i) \in Index
  BY RingAssumption, Remainder DEF PlaceFrom, Index

\* Walking round the ring.
LEMMA Walk ==
  ASSUME NEW c \in Index, NEW p \in Index
  PROVE  /\ PlaceFrom(c, 1) = c /\ PlaceFrom(c, Distance(c, p) + 1) = p
         /\ \A i, j \in 1 .. RingSize : PlaceFrom(c, i) = PlaceFrom(c, j) => i = j
         /\ \A i \in 1 .. RingSize - 1 :
              /\ Following(PlaceFrom(c, i)) = PlaceFrom(c, i + 1)
              /\ PlaceFrom(Following(c), i) = PlaceFrom(c, i + 1)
         /\ Following(p) # c =>
              Distance(c, Following(p)) = Distance(c, p) + 1 /\ Distance(c, p) + 1 < RingSize
         /\ c # p => 0 < Distance(c, p) /\ Distance(Following(c), p) = Distance(c, p) - 1
         /\ c = p => Distance(c, p) = 0
<1> DEFINE N == RingSize
<1>0. N \in Nat /\ N > 1 /\ c \in Int /\ p \in Int /\ 0 <= c /\ c < N /\ 0 <= p /\ p < N
  BY RingAssumption DEF Index
<1>1. \A i \in 1 .. N : PlaceFrom(c, i) = IF c + i - 1 < N THEN c + i - 1 ELSE c + i - 1 - N
  BY PlaceIs
<1>2. /\ Distance(c, p) = IF c <= p THEN p - c ELSE p + N - c
      /\ Distance(c, p) \in Index
  BY DistanceIs
<1>3. /\ \A i \in Index : Following(i) = IF i + 1 = N THEN 0 ELSE i + 1
      /\ Following(c) \in Index /\ Following(p) \in Index
  BY FollowingIs
<1>4. PlaceFrom(c, 1) = c
  BY <1>0, <1>1
<1>5. PlaceFrom(c, Distance(c, p) + 1) = p
  <2>1. Distance(c, p) + 1 \in 1 .. N
    BY <1>0, <1>2 DEF Index
  <2> QED
    BY <1>0, <1>1, <1>2, <2>1
<1>6. \A i, j \in 1 .. N : PlaceFrom(c, i) = PlaceFrom(c, j) => i = j
  BY <1>0, <1>1
<1>7. ASSUME NEW i \in 1 .. N - 1
      PROVE  /\ Following(PlaceFrom(c, i)) = PlaceFrom(c, i + 1)
             /\ PlaceFrom(Following(c), i) = PlaceFrom(c, i + 1)
  <2>1. i \in 1 .. N /\ i + 1 \in 1 .. N
    BY <1>0
  <2>2. PlaceFrom(c, i) = (IF c + i - 1 < N THEN c + i - 1 ELSE c + i - 1 - N)
        /\ PlaceFrom(c, i) \in Index
    BY <2>1, PlaceIs
  <2>3. PlaceFrom(c, i + 1) = IF c + i < N THEN c + i ELSE c + i - N
    BY <1>0, <1>1, <2>1
  <2>4. Following(PlaceFrom(c, i)) = PlaceFrom(c, i + 1)
    BY <1>0, <1>3, <2>1, <2>2, <2>3
  <2>5. PlaceFrom(Following(c), i) =
          IF Following(c) + i - 1 < N THEN Following(c) + i - 1 ELSE Following(c) + i - 1 - N
    BY <1>3, <2>1, PlaceIs
  <2>6. Following(c) = IF c + 1 = N THEN 0 ELSE c + 1
    BY <1>3
  <2>7. PlaceFrom(Following(c), i) = PlaceFrom(c, i + 1)
    BY <1>0, <2>1, <2>3, <2>5, <2>6
  <2> QED
    BY <2>4, <2>7
<1>8. /\ Following(p) # c =>
           Distance(c, Following(p)) = Distance(c, p) + 1 /\ Distance(c, p) + 1 < N
      /\ c # p => 0 < Distance(c, p) /\ Distance(Following(c), p) = Distance(c, p) - 1
      /\ c = p => Distance(c, p) = 0
  <2>1. /\ Following(c) = IF c + 1 = N THEN 0 ELSE c + 1
        /\ Following(p) = IF p + 1 = N THEN 0 ELSE p + 1
    BY <1>3
  <2>2. /\ Distance(c, Following(p)) =
             IF c <= Following(p) THEN Following(p) - c ELSE Following(p) + N - c
        /\ Distance(Following(c), p) =
             IF Following(c) <= p THEN p - Following(c) ELSE p + N - Following(c)
    BY <1>3, DistanceIs
  <2> QED
    BY <1>0, <1>2, <2>1, <2>2
<1> QED
  BY <1>4, <1>5, <1>6, <1>7, <1>8

LEMMA RingFacts ==
  /\ RingSize \in Nat /\ RingSize > 1 /\ 0 \in Index
  /\ Capacity \in Nat \ {0} /\ HalfEnd \in Nat \ {0}
  BY RingAssumption DEF Index

LEMMA AwayType == ASSUME RingTypeOK PROVE Away \in Nat /\ Away < RingSize
<1>1. Away \in Index
  BY DistanceIs DEF RingTypeOK, Away
<1> QED
  BY <1>1, RingFacts DEF Index

LEMMA PlaceFacts ==
  ASSUME RingTypeOK
  PROVE  /\ \A i \in 1 .. RingSize : Place(i) \in Index
         /\ \A i, j \in 1 .. RingSize : Place(i) = Place(j) => i = j
         /\ \A i \in 1 .. RingSize - 1 : Following(Place(i)) = Place(i + 1)
<1>1. consumer \in Index /\ producer \in Index
  BY DEF RingTypeOK
<1> QED
  BY <1>1, PlaceIs, Walk DEF Place

LEMMA RingInitInv == RingInit => RingIInv
<1> SUFFICES ASSUME RingInit PROVE RingIInv
  OBVIOUS
<1>1. Away = 0
  BY RingFacts, Walk DEF RingInit, Away
<1>2. RingTypeOK
  <2>1. <<>> \in Seq([buffer : Owned, length : Nat, error : BOOLEAN])
    BY EmptySeq
  <2>2. [buffer |-> NoBuffer, control |-> 0, status |-> Blank] \in Descriptor
    BY DEF Descriptor, Owned, Status, Blank
  <2> QED
    BY <2>1, <2>2, RingFacts DEF RingInit, RingTypeOK, Owned, RingSteps
<1>3. StatusTrue
  BY <1>1 DEF RingInit, StatusTrue
<1>4. EmptyAtFirst /\ AtFirstUnfilled /\ StopsInTime /\ TailIsLast
  BY DEF RingInit, EmptyAtFirst, AtFirstUnfilled, StopsInTime, TailIsLast, Submitting
<1> QED
  BY <1>2, <1>3, <1>4 DEF RingIInv

\* The steps that set the engine up leave the ring empty.
LEMMA SetUpStep ==
  ASSUME RingIInv, BeginReset \/ PollReset \/ StartEngine \/ ResetEnds
  PROVE  RingIInv'
<1>1. UNCHANGED <<descriptors, producer, consumer, tail, filled, taken>>
  BY DEF BeginReset, PollReset, StartEngine, ResetEnds, descriptorVars
<1>2. RingTypeOK'
  <2>1. ring' \in [do : RingSteps, polls : Nat, index : Index]
    <3>1. ring \in [do : RingSteps, polls : Nat, index : Index]
      BY DEF RingIInv, RingTypeOK
    <3>2. CASE BeginReset
      BY <3>1, <3>2 DEF RingSteps, BeginReset
    <3>3. CASE PollReset
      <4>1. \/ ring' = [ring EXCEPT !.do = "ResetTimeout"]
            \/ ring' = [ring EXCEPT !.polls = @ + 1]
        BY <3>3 DEF PollReset
      <4>2. ring.polls \in Nat
        BY <3>1
      <4>3. ring.polls + 1 \in Nat
        BY <4>2
      <4>4. "ResetTimeout" \in RingSteps
        BY DEF RingSteps
      <4> QED
        BY <3>1, <4>1, <4>3, <4>4
    <3>4. CASE StartEngine
      BY <3>1, <3>4 DEF RingSteps, StartEngine
    <3>5. CASE ResetEnds
      BY <3>1, <3>5 DEF ResetEnds
    <3> QED
      BY <3>2, <3>3, <3>4, <3>5
  <2>2. engine' \in [reset : BOOLEAN, run : BOOLEAN, going : BOOLEAN, current : Index,
                     stop : Index]
    BY DEF RingIInv, RingTypeOK, BeginReset, PollReset, StartEngine, ResetEnds
  <2> QED
    BY <1>1, <2>1, <2>2 DEF RingIInv, RingTypeOK
<1>3. Away' = Away /\ StatusTrue'
  BY <1>1 DEF RingIInv, StatusTrue, Away, Place
<1>4. CASE ResetEnds
  <2>1. /\ UNCHANGED ring
        /\ engine'.going = engine.going /\ engine'.current = engine.current
        /\ engine'.stop = engine.stop
    BY <1>4 DEF ResetEnds, RingIInv, RingTypeOK
  <2>2. EmptyAtFirst' /\ AtFirstUnfilled' /\ StopsInTime' /\ TailIsLast'
    BY <1>1, <1>3, <2>1
    DEF RingIInv, EmptyAtFirst, AtFirstUnfilled, StopsInTime, TailIsLast, Submitting, Place
  <2> QED
    BY <1>2, <1>3, <2>2 DEF RingIInv
<1>5. CASE BeginReset \/ PollReset \/ StartEngine
  <2>1. /\ producer = consumer /\ filled = <<>>
        /\ ~engine'.going
        /\ ring'.do \notin {"submit", "submit rest"}
        /\ ring'.do = "ready" => engine'.current = consumer
    BY <1>5 DEF RingIInv, RingTypeOK, EmptyAtFirst, BeginReset, PollReset, StartEngine
  <2>2. PlaceFrom(consumer, 1) = consumer /\ Len(filled) + 1 = 1
    <3>1. consumer \in Index
      BY DEF RingIInv, RingTypeOK
    <3>2. Len(filled) = 0
      BY <2>1
    <3> QED
      BY <3>1, <3>2, Walk
  <2>3. EmptyAtFirst' /\ AtFirstUnfilled' /\ StopsInTime' /\ TailIsLast'
    BY <1>1, <2>1, <2>2
    DEF EmptyAtFirst, AtFirstUnfilled, StopsInTime, TailIsLast, Submitting, Place
  <2> QED
    BY <1>2, <1>3, <2>3 DEF RingIInv
<1> QED
  BY <1>4, <1>5

\* A descriptor that was not enqueued becomes the last one.
LEMMA EnqueueMoves ==
  ASSUME RingTypeOK, NEW b \in Buffers, enqueue(b)
  PROVE  /\ Away' = Away + 1 /\ Away \in Nat /\ Away + 1 < RingSize
         /\ Place(Away + 1) = producer /\ \A i : Place(i)' = Place(i)
         /\ \A i \in 1 .. Away : descriptors'[Place(i)] = descriptors[Place(i)]
         /\ descriptors'[producer] = [buffer |-> b, control |-> Capacity, status |-> Blank]
<1>1. /\ Following(producer) # consumer /\ consumer' = consumer /\ producer' = Following(producer)
      /\ descriptors' = [descriptors EXCEPT ![producer] =
                           [buffer |-> b, control |-> Capacity, status |-> Blank]]
      /\ producer \in Index /\ consumer \in Index
  BY DEF enqueue, Full, RingTypeOK
<1>2. /\ Away' = Away + 1 /\ Away \in Nat /\ Away + 1 < RingSize
      /\ Place(Away + 1) = producer
  BY <1>1, Walk, AwayType DEF Away, Place
<1>3. \A i : Place(i)' = Place(i)
  BY <1>1 DEF Place
<1>4. ASSUME NEW i \in 1 .. Away PROVE Place(i) # producer /\ Place(i) \in Index
  <2>1. i \in 1 .. RingSize /\ Away + 1 \in 1 .. RingSize /\ i # Away + 1
    BY <1>2, RingFacts
  <2> QED
    BY <1>2, <2>1, PlaceFacts
<1> QED
  BY <1>1, <1>2, <1>3, <1>4 DEF RingTypeOK

LEMMA EnqueueStep ==
  ASSUME RingIInv, NEW b \in Buffers, enqueue(b)
  PROVE  RingIInv'
<1> DEFINE new == [buffer |-> b, control |-> Capacity, status |-> Blank]
<1>1. /\ ring.do \in {"ready", "submit"} /\ Following(producer) # consumer
      /\ descriptors' = [descriptors EXCEPT ![producer] = new]
      /\ producer' = Following(producer)
      /\ ring' = [ring EXCEPT !.do = "submit", !.index = producer]
      /\ UNCHANGED <<consumer, tail, engine, filled, taken>>
  BY DEF enqueue, Full
<1>2. new \in Descriptor
  BY RingFacts DEF Descriptor, Owned, Status, Blank
<1>3. RingTypeOK'
  BY <1>1, <1>2, FollowingIs DEF RingIInv, RingTypeOK, RingSteps
<1>4. /\ Away' = Away + 1 /\ Away \in Nat /\ Away + 1 < RingSize
      /\ producer = Place(Away + 1) /\ producer \in Index /\ consumer \in Index
  BY EnqueueMoves DEF RingIInv, RingTypeOK
<1>5. /\ \A i : Place(i)' = Place(i)
      /\ \A i \in 1 .. Away : descriptors'[Place(i)] = descriptors[Place(i)]
      /\ descriptors'[producer] = new
  BY EnqueueMoves DEF RingIInv
<1>6. Len(filled) \in Nat /\ Len(filled) <= Away
  BY LenProperties DEF RingIInv, RingTypeOK, StatusTrue
<1>7. StatusTrue'
  <2> SUFFICES ASSUME NEW i \in 1 .. Away + 1
               PROVE  IF i <= Len(filled)
                        THEN /\ descriptors'[Place(i)'].buffer = filled[i].buffer
                             /\ descriptors'[Place(i)'].status =
                                  [complete |-> TRUE, error |-> filled[i].error,
                                   length |-> filled[i].length]
                        ELSE descriptors'[Place(i)'].status = Blank
    BY <1>1, <1>4, <1>6 DEF StatusTrue
  <2>1. CASE i \in 1 .. Away
    BY <1>5, <2>1 DEF RingIInv, StatusTrue
  <2>2. CASE i = Away + 1
    BY <1>4, <1>5, <1>6, <2>2
  <2> QED
    BY <1>4, <2>1, <2>2
<1>8. EmptyAtFirst' /\ AtFirstUnfilled'
  BY <1>1 DEF RingIInv, RingTypeOK, EmptyAtFirst, AtFirstUnfilled, Place
<1>9. StopsInTime'
  <2> SUFFICES ASSUME engine.going
               PROVE  \E k \in Len(filled) + 1 .. Away + 1 : engine.stop = Place(k)' /\ k < Away + 1
    BY <1>1, <1>4 DEF StopsInTime
  <2>1. PICK k \in Len(filled) + 1 .. Away : engine.stop = Place(k)
    BY DEF RingIInv, StopsInTime
  <2> QED
    BY <1>4, <1>5, <1>6, <2>1
<1>10. TailIsLast'
  <2>1. ring'.do = "submit" /\ ring'.index = producer
    BY <1>1 DEF RingIInv, RingTypeOK
  <2>2. Place(Away)' = producer
    BY <1>1, <1>4 DEF Place
  <2>3. Len(filled') < Away'
    BY <1>1, <1>4, <1>6
  <2> QED
    BY <2>1, <2>2, <2>3 DEF TailIsLast
<1> QED
  BY <1>3, <1>7, <1>8, <1>9, <1>10 DEF RingIInv

\* The high half of the tail, then the low half: the engine stops at the
\* descriptor enqueued last, which it has not filled.
LEMMA SubmitStep == ASSUME RingIInv, submit_tail PROVE RingIInv'
<1>1. /\ Submitting
      /\ UNCHANGED <<descriptors, producer, consumer, filled, taken>>
      /\ ring' = [ring EXCEPT !.do = IF @ = "submit" THEN "submit rest" ELSE "ready"]
  BY DEF submit_tail, Submitting, descriptorVars
<1>2. /\ ring.index \in Index /\ Index \subseteq Nat
      /\ ring.index = Place(Away) /\ Len(filled) < Away /\ Len(filled) \in Nat /\ Away \in Nat
  <2>1. ring.index \in Index /\ Index \subseteq Nat /\ Away \in Nat
    BY AwayType, RingFacts DEF RingIInv, RingTypeOK, Index
  <2>2. Len(filled) \in Nat
    BY LenProperties DEF RingIInv, RingTypeOK
  <2> QED
    BY <1>1, <2>1, <2>2 DEF RingIInv, TailIsLast
<1>3. Away' = Away /\ (\A i : Place(i)' = Place(i)) /\ StatusTrue'
  BY <1>1 DEF RingIInv, StatusTrue, Away, Place
<1>4. /\ ring' \in [do : RingSteps, polls : Nat, index : Index]
      /\ ring'.index = ring.index
  BY <1>1 DEF RingIInv, RingTypeOK, RingSteps
<1>5. CASE ring.do = "submit"
  <2>1. /\ ring'.do = "submit rest"
        /\ tail' = <<tail[1], ring.index \div HalfEnd>> /\ UNCHANGED engine
    BY <1>1, <1>5 DEF submit_tail, LowHalf, RingIInv, RingTypeOK
  <2>2. RingTypeOK'
    BY <1>1, <1>2, <1>4, <2>1, Halves DEF RingIInv, RingTypeOK
  <2>3. EmptyAtFirst' /\ AtFirstUnfilled'
    BY <1>1, <1>3, <1>5, <2>1 DEF RingIInv, EmptyAtFirst, AtFirstUnfilled, Place
  <2>4. StopsInTime'
    BY <1>1, <1>3, <2>1 DEF RingIInv, StopsInTime
  <2>5. TailIsLast'
    BY <1>1, <1>2, <1>3, <1>4, <2>1 DEF TailIsLast, Place
  <2> QED
    BY <1>3, <2>2, <2>3, <2>4, <2>5 DEF RingIInv
<1>6. CASE ring.do = "submit rest"
  <2>1. /\ ring'.do = "ready"
        /\ tail' = <<ring.index % HalfEnd, tail[2]>>
        /\ engine' = [engine EXCEPT !.going = engine.run, !.stop = tail'[1] + HalfEnd * tail[2]]
    BY <1>1, <1>6 DEF submit_tail, LowHalf, RingIInv, RingTypeOK
  <2>2. tail'[1] + HalfEnd * tail[2] = ring.index
    BY <1>2, <1>6, <2>1, Halves DEF RingIInv, TailIsLast
  <2>3. /\ engine' \in [reset : BOOLEAN, run : BOOLEAN, going : BOOLEAN, current : Index,
                        stop : Index]
        /\ engine'.stop = ring.index /\ engine'.current = engine.current
    BY <1>2, <2>1, <2>2 DEF RingIInv, RingTypeOK
  <2>4. RingTypeOK'
    BY <1>1, <1>2, <1>4, <2>1, <2>3, Halves DEF RingIInv, RingTypeOK
  <2>5. EmptyAtFirst' /\ AtFirstUnfilled'
    BY <1>1, <1>3, <1>6, <2>1, <2>3 DEF RingIInv, EmptyAtFirst, AtFirstUnfilled, Place
  <2>6. Away \in Len(filled) + 1 .. Away
    BY <1>2
  <2>7. StopsInTime'
    BY <1>1, <1>2, <1>3, <2>1, <2>3, <2>6 DEF StopsInTime, Submitting
  <2>8. TailIsLast'
    BY <2>1 DEF TailIsLast, Submitting
  <2> QED
    BY <1>3, <2>4, <2>5, <2>7, <2>8 DEF RingIInv
<1> QED
  BY <1>1, <1>5, <1>6 DEF Submitting

\* The first descriptor leaves the ring.
LEMMA PollMoves ==
  ASSUME RingTypeOK, poll_completed
  PROVE  /\ Away \in Nat /\ Away < RingSize /\ 0 < Away /\ Away' = Away - 1
         /\ consumer = Place(1)
         /\ \A i \in 1 .. RingSize - 1 : Place(i)' = Place(i + 1)
         /\ \A i \in 2 .. Away : descriptors'[Place(i)] = descriptors[Place(i)]
<1>1. /\ consumer # producer /\ consumer' = Following(consumer) /\ producer' = producer
      /\ descriptors' = [descriptors EXCEPT ![consumer].control = 0, ![consumer].status = Blank]
      /\ consumer \in Index /\ producer \in Index
  BY DEF poll_completed, RingTypeOK
<1>2. /\ Away \in Nat /\ Away < RingSize /\ 0 < Away /\ Away' = Away - 1
      /\ consumer = Place(1)
  BY <1>1, Walk, AwayType DEF Away, Place
<1>3. \A i \in 1 .. RingSize - 1 : Place(i)' = Place(i + 1)
  BY <1>1, Walk DEF Place
<1>4. ASSUME NEW i \in 2 .. Away PROVE Place(i) # consumer /\ Place(i) \in Index
  <2>1. i \in 1 .. RingSize /\ 1 \in 1 .. RingSize /\ i # 1
    BY <1>2, RingFacts
  <2> QED
    BY <1>2, <2>1, PlaceFacts
<1> QED
  BY <1>1, <1>2, <1>3, <1>4 DEF RingTypeOK

\* The first descriptor leaves the ring, and the first buffer that was filled.
LEMMA PollStep == ASSUME RingIInv, poll_completed PROVE RingIInv'
<1>1. /\ ring.do = "ready" /\ consumer # producer /\ Completed
      /\ taken' = [buffer |-> descriptors[consumer].buffer,
                   length |-> descriptors[consumer].status.length]
      /\ descriptors' = [descriptors EXCEPT ![consumer].control = 0, ![consumer].status = Blank]
      /\ consumer' = Following(consumer) /\ filled' = Tail(filled)
      /\ UNCHANGED <<producer, ring, tail, engine>>
  BY DEF poll_completed
<1>2. /\ consumer \in Index /\ producer \in Index /\ descriptors[consumer] \in Descriptor
      /\ filled \in Seq([buffer : Owned, length : Nat, error : BOOLEAN])
  BY DEF RingIInv, RingTypeOK
<1>3. /\ Away \in Nat /\ Away < RingSize /\ 0 < Away /\ Away' = Away - 1
      /\ consumer = Place(1)
  BY PollMoves DEF RingIInv
<1>4. \A i \in 1 .. RingSize - 1 : Place(i)' = Place(i + 1)
  BY PollMoves DEF RingIInv
<1>5. filled # <<>> /\ Len(filled) <= Away
  <2>1. descriptors[Place(1)].status # Blank
    BY <1>1, <1>3 DEF Completed, Blank
  <2>2. 1 \in 1 .. Away /\ Len(<<>>) = 0
    BY <1>3
  <2>3. ~(1 <= 0)
    OBVIOUS
  <2>4. filled # <<>>
    BY <2>1, <2>2, <2>3 DEF RingIInv, StatusTrue
  <2> QED
    BY <2>4 DEF RingIInv, StatusTrue
<1>6. /\ Len(filled) \in Nat /\ 0 < Len(filled) /\ Len(filled') = Len(filled) - 1
      /\ \A i \in 1 .. Len(filled) - 1 : filled'[i] = filled[i + 1]
      /\ filled' \in Seq([buffer : Owned, length : Nat, error : BOOLEAN])
  BY <1>1, <1>2, <1>5, HeadTailProperties, LenProperties, EmptySeq
<1>7. RingTypeOK'
  <2>1. /\ [descriptors[consumer] EXCEPT !.control = 0, !.status = Blank] \in Descriptor
        /\ taken' \in [buffer : Owned, length : Nat]
    BY <1>1, <1>2 DEF Descriptor, Status, Blank
  <2>2. descriptors' = [descriptors EXCEPT ![consumer] =
                          [@ EXCEPT !.control = 0, !.status = Blank]]
    BY <1>1, <1>2 DEF RingIInv, RingTypeOK, Descriptor
  <2>3. descriptors' \in [Index -> Descriptor]
    BY <2>1, <2>2 DEF RingIInv, RingTypeOK
  <2> QED
    BY <1>1, <1>2, <1>6, <2>1, <2>3, FollowingIs DEF RingIInv, RingTypeOK
<1>8. \A i \in 2 .. Away : descriptors'[Place(i)] = descriptors[Place(i)]
  BY PollMoves DEF RingIInv
<1>9. StatusTrue'
  <2> SUFFICES ASSUME NEW i \in 1 .. Away - 1
               PROVE  IF i <= Len(filled) - 1
                        THEN /\ descriptors'[Place(i + 1)].buffer = filled[i + 1].buffer
                             /\ descriptors'[Place(i + 1)].status =
                                  [complete |-> TRUE, error |-> filled[i + 1].error,
                                   length |-> filled[i + 1].length]
                        ELSE descriptors'[Place(i + 1)].status = Blank
    <3>1. 1 .. Away - 1 \subseteq 1 .. RingSize - 1
      BY <1>3, RingFacts
    <3>2. /\ \A i \in 1 .. Away - 1 : Place(i)' = Place(i + 1)
          /\ Len(filled') <= Away'
          /\ \A i \in 1 .. Away - 1 : i <= Len(filled) - 1 => filled'[i] = filled[i + 1]
      BY <1>3, <1>4, <1>5, <1>6, <3>1
    <3> QED
      BY <1>3, <1>6, <3>2 DEF StatusTrue
  <2>1. i + 1 \in 2 .. Away /\ i + 1 \in 1 .. Away
    BY <1>3
  <2> QED
    BY <1>6, <1>8, <2>1 DEF RingIInv, StatusTrue
<1>10. EmptyAtFirst'
  BY <1>1 DEF RingIInv, EmptyAtFirst
<1>11. AtFirstUnfilled'
  <2>1. Len(filled) \in 1 .. RingSize - 1
    BY <1>3, <1>5, <1>6, RingFacts
  <2>2. PlaceFrom(consumer', Len(filled)) = Place(Len(filled) + 1)
    BY <1>1, <1>2, <2>1, Walk DEF Place
  <2>3. Len(filled') + 1 = Len(filled)
    BY <1>6
  <2> QED
    BY <1>1, <2>2, <2>3 DEF RingIInv, AtFirstUnfilled, Place
<1>12. StopsInTime'
  <2> SUFFICES ASSUME engine.going
               PROVE  \E k \in Len(filled) .. Away - 1 : engine.stop = Place(k)'
    <3>1. ~Submitting' /\ UNCHANGED engine
      BY <1>1 DEF Submitting
    <3>2. Len(filled') + 1 = Len(filled)
      BY <1>6
    <3> QED
      BY <1>3, <3>1, <3>2 DEF StopsInTime
  <2>1. PICK k \in Len(filled) + 1 .. Away : engine.stop = Place(k)
    BY DEF RingIInv, StopsInTime
  <2>2. k - 1 \in Len(filled) .. Away - 1 /\ k - 1 \in 1 .. RingSize - 1 /\ k = (k - 1) + 1
    BY <1>3, <1>6, RingFacts
  <2> QED
    BY <1>4, <2>1, <2>2
<1>13. TailIsLast'
  BY <1>1 DEF TailIsLast, Submitting
<1> QED
  BY <1>7, <1>9, <1>10, <1>11, <1>12, <1>13 DEF RingIInv

\* The first descriptor that was not filled is, and the engine is at the next.
LEMMA FillStep ==
  ASSUME RingIInv, NEW n \in Lengths, NEW error \in BOOLEAN, Fill(n, error)
  PROVE  RingIInv'
<1> DEFINE here == engine.current
           size == Len(filled)
           outcome == [complete |-> TRUE, error |-> error, length |-> n]
<1>1. /\ engine.going
      /\ descriptors' = [descriptors EXCEPT ![here].status = outcome]
      /\ filled' = Append(filled, [buffer |-> descriptors[here].buffer, length |-> n,
                                   error |-> error])
      /\ engine' = [engine EXCEPT !.current = Following(here), !.run = ~error,
                                  !.going = here # engine.stop /\ ~error]
      /\ UNCHANGED <<producer, consumer, ring, tail, taken>>
  BY DEF Fill
<1>2. /\ here \in Index /\ consumer \in Index /\ producer \in Index /\ descriptors[here] \in Descriptor
      /\ n \in Nat /\ size \in Nat
      /\ filled \in Seq([buffer : Owned, length : Nat, error : BOOLEAN])
  BY RingFacts, LenProperties DEF RingIInv, RingTypeOK, Lengths
<1>3. ring.do \in {"ready", "submit", "submit rest"} /\ here = Place(size + 1)
  BY <1>1 DEF RingIInv, EmptyAtFirst, AtFirstUnfilled
<1>4. PICK k \in size + 1 .. Away : engine.stop = Place(k) /\ (Submitting => k < Away)
  BY <1>1 DEF RingIInv, StopsInTime
<1>5. /\ Away \in Nat /\ Away < RingSize /\ size + 1 <= Away /\ size + 1 \in 1 .. RingSize - 1
      /\ Away' = Away /\ \A i : Place(i)' = Place(i)
  BY <1>1, <1>2, <1>4, AwayType, RingFacts DEF RingIInv, Away, Place
<1>6. /\ filled' \in Seq([buffer : Owned, length : Nat, error : BOOLEAN])
      /\ Len(filled') = size + 1
      /\ \A i \in 1 .. size : filled'[i] = filled[i]
      /\ filled'[size + 1] = [buffer |-> descriptors[here].buffer, length |-> n, error |-> error]
  <2>1. [buffer |-> descriptors[here].buffer, length |-> n, error |-> error]
          \in [buffer : Owned, length : Nat, error : BOOLEAN]
    BY <1>2 DEF Descriptor
  <2> QED
    BY <1>1, <1>2, <2>1, AppendProperties
<1>7. /\ engine' \in [reset : BOOLEAN, run : BOOLEAN, going : BOOLEAN, current : Index,
                      stop : Index]
      /\ engine'.current = Following(here) /\ engine'.stop = engine.stop
      /\ engine'.going => here # engine.stop
  BY <1>1, <1>2, FollowingIs DEF RingIInv, RingTypeOK
<1>8. /\ descriptors' \in [Index -> Descriptor]
      /\ \A i \in Index : i # here => descriptors'[i] = descriptors[i]
      /\ descriptors'[here].buffer = descriptors[here].buffer
      /\ descriptors'[here].status = outcome
  <2>1. /\ descriptors' = [descriptors EXCEPT ![here] = [@ EXCEPT !.status = outcome]]
        /\ [descriptors[here] EXCEPT !.status = outcome] \in Descriptor
    BY <1>1, <1>2 DEF Descriptor, Status
  <2> QED
    BY <1>2, <2>1 DEF RingIInv, RingTypeOK, Descriptor
<1>9. RingTypeOK'
  BY <1>1, <1>6, <1>7, <1>8 DEF RingIInv, RingTypeOK
<1>10. \A i \in 1 .. Away : i # size + 1 => descriptors'[Place(i)] = descriptors[Place(i)]
  <2> SUFFICES ASSUME NEW i \in 1 .. Away, i # size + 1
               PROVE  Place(i) \in Index /\ Place(i) # here
    BY <1>8
  <2>1. i \in 1 .. RingSize /\ size + 1 \in 1 .. RingSize
    BY <1>5, RingFacts
  <2> QED
    BY <1>3, <2>1, PlaceFacts DEF RingIInv
<1>11. StatusTrue'
  <2> SUFFICES ASSUME NEW i \in 1 .. Away
               PROVE  IF i <= size + 1
                        THEN /\ descriptors'[Place(i)].buffer = filled'[i].buffer
                             /\ descriptors'[Place(i)].status =
                                  [complete |-> TRUE, error |-> filled'[i].error,
                                   length |-> filled'[i].length]
                        ELSE descriptors'[Place(i)].status = Blank
    BY <1>5, <1>6 DEF StatusTrue
  <2>1. CASE i = size + 1
    <3>1. /\ descriptors'[Place(i)] = descriptors'[here] /\ i <= size + 1
          /\ filled'[i] = [buffer |-> descriptors[here].buffer, length |-> n, error |-> error]
      <4>1. Place(i) = here
        BY <1>3, <2>1
      <4>2. i <= size + 1
        BY <1>2, <2>1
      <4> QED
        BY <1>6, <2>1, <4>1, <4>2
    <3> QED
      BY <1>8, <3>1
  <2>2. CASE i # size + 1
    <3>1. i <= size + 1 <=> i \in 1 .. size
      BY <1>2, <2>2
    <3>2. /\ descriptors'[Place(i)] = descriptors[Place(i)]
          /\ i \in 1 .. size => filled'[i] = filled[i]
          /\ i \in 1 .. size <=> i <= size
      BY <1>2, <1>6, <1>10, <2>2
    <3> QED
      BY <3>1, <3>2 DEF RingIInv, StatusTrue
  <2> QED
    BY <2>1, <2>2
<1>12. EmptyAtFirst'
  BY <1>1, <1>3 DEF EmptyAtFirst
<1>13. AtFirstUnfilled'
  <2>1. Following(here) = PlaceFrom(consumer, size + 1 + 1)
    BY <1>3, <1>5, PlaceFacts DEF RingIInv, Place
  <2> QED
    BY <1>1, <1>6, <1>7, <2>1 DEF AtFirstUnfilled, Place
<1>14. ASSUME engine'.going PROVE k \in size + 2 .. Away
  <2>1. k # size + 1
    BY <1>3, <1>4, <1>7, <1>14
  <2> QED
    BY <1>2, <1>4, <1>5, <2>1
<1>15. StopsInTime'
  <2> SUFFICES ASSUME engine'.going
               PROVE  \E j \in size + 2 .. Away :
                        engine.stop = Place(j) /\ (Submitting => j < Away)
    <3>1. Len(filled') + 1 = size + 2
      BY <1>2, <1>6
    <3>2. Submitting' <=> Submitting
      BY <1>1 DEF Submitting
    <3> QED
      BY <1>5, <1>7, <3>1, <3>2 DEF StopsInTime
  <2> QED
    BY <1>4, <1>14
<1>16. TailIsLast'
  <2>1. Submitting => size + 1 < Away
    BY <1>2, <1>4, <1>5
  <2>2. Place(Away)' = Place(Away)
    BY <1>5, <1>1 DEF Place
  <2> QED
    BY <1>1, <1>5, <1>6, <2>1, <2>2 DEF RingIInv, TailIsLast, Submitting
<1> QED
  BY <1>9, <1>11, <1>12, <1>13, <1>15, <1>16 DEF RingIInv

LEMMA RingInductive == RingIInv /\ [RingNext]_ringVars => RingIInv'
<1> SUFFICES ASSUME RingIInv, [RingNext]_ringVars PROVE RingIInv'
  OBVIOUS
<1>1. CASE UNCHANGED ringVars
  BY <1>1 DEF ringVars, descriptorVars, RingIInv, RingTypeOK, StatusTrue, EmptyAtFirst,
     AtFirstUnfilled, StopsInTime, TailIsLast, Submitting, Away, Place
<1> QED
  BY <1>1, SetUpStep, EnqueueStep, SubmitStep, PollStep, FillStep DEF RingNext, Lengths

LEMMA RingInvariant == RingSpec => []RingIInv
  BY RingInitInv, RingInductive, PTL DEF RingSpec

-----------------------------------------------------------------------------
\* The indices that AxiDmaRing computes, and the ones the engine follows, stay in
\* the ring.
THEOREM RingTypeCorrect == RingSpec => []RingTypeOK
<1>1. RingIInv => RingTypeOK
  BY DEF RingIInv
<1> QED
  BY <1>1, RingInvariant, PTL

\* For every size of the ring that new accepts: the engine only fills buffers the
\* caller has given up and not got back, in their order and each once, and the
\* status that poll_completed reads is that of what was put into the buffer.
THEOREM OwnershipIsKept == RingSpec => []EngineKeepsToTheRing
<1>1. RingIInv => EngineKeepsToTheRing
  <2> SUFFICES ASSUME RingIInv PROVE EngineKeepsToTheRing
    OBVIOUS
  <2>1. /\ Away \in Nat /\ Len(filled) \in Nat
        /\ filled \in Seq([buffer : Owned, length : Nat, error : BOOLEAN])
    BY AwayType, LenProperties DEF RingIInv, RingTypeOK
  <2>2. /\ Len(Enqueued) = Away
        /\ \A i \in 1 .. Away : Enqueued[i] = descriptors[Place(i)]
    <3>1. Enqueued = [i \in 1 .. Away |-> descriptors[Place(i)]]
      BY DEF Enqueued, Away, Distance, Place, PlaceFrom
    <3> QED
      BY <2>1, <3>1
  <2>3. ASSUME engine.going
        PROVE  engine.current = (consumer + Len(filled)) % RingSize /\ Len(filled) < Away
    <3>1. engine.current = (consumer + (Len(filled) + 1) - 1) % RingSize
      BY <2>3 DEF RingIInv, EmptyAtFirst, AtFirstUnfilled, Place, PlaceFrom
    <3>2. consumer + (Len(filled) + 1) - 1 = consumer + Len(filled)
      BY <2>1 DEF RingIInv, RingTypeOK, Index
    <3> QED
      BY <2>1, <2>3, <3>1, <3>2 DEF RingIInv, StopsInTime
  <2>4. DOMAIN filled = 1 .. Len(filled) /\ Len(filled) <= Away
    BY <2>1, LenProperties DEF RingIInv, StatusTrue
  <2>5. \A i \in DOMAIN filled : i <= Len(filled) /\ i \in 1 .. Away
    BY <2>1, <2>4
  <2> QED
    BY <2>2, <2>3, <2>5 DEF RingIInv, StatusTrue, EngineKeepsToTheRing
<1> QED
  BY <1>1, RingInvariant, PTL

-----------------------------------------------------------------------------
\* The queue of the refinement.
Queue == [i \in DOMAIN Enqueued |-> Enqueued[i].buffer]

LEMMA QueueIs ==
  ASSUME RingTypeOK
  PROVE  /\ Queue = [i \in 1 .. Away |-> descriptors[Place(i)].buffer]
         /\ Queue \in Seq(Owned) /\ Len(Queue) = Away
<1>1. Enqueued = [i \in 1 .. Away |-> descriptors[Place(i)]]
  BY DEF Enqueued, Away, Distance, Place, PlaceFrom
<1>2. Queue = [i \in 1 .. Away |-> descriptors[Place(i)].buffer]
  BY <1>1 DEF Queue
<1>3. ASSUME NEW i \in 1 .. Away PROVE descriptors[Place(i)].buffer \in Owned
  <2>1. i \in 1 .. RingSize
    BY AwayType, RingFacts
  <2> QED
    BY <2>1, PlaceFacts DEF RingTypeOK, Descriptor
<1> QED
  BY <1>2, <1>3, AwayType

\* The ring starts as an empty queue.
LEMMA QueueInit == RingInit => Queue = <<>> /\ taken.buffer \in Owned
<1> SUFFICES ASSUME RingInit PROVE Queue = <<>> /\ taken.buffer \in Owned
  OBVIOUS
<1>1. RingTypeOK
  BY RingInitInv DEF RingIInv
<1>2. Away = 0
  BY <1>1, Walk DEF RingInit, RingTypeOK, Away
<1>3. Queue = <<>>
  BY <1>1, <1>2, QueueIs, EmptySeq
<1> QED
  BY <1>3 DEF RingInit, Owned

\* What enqueue and poll_completed do to it, and nothing else does.
LEMMA QueueStep ==
  ASSUME RingIInv, RingIInv', RingNext
  PROVE  \/ Len(Queue) < RingSize - 1 /\ (\E b \in Owned : Queue' = Append(Queue, b))
            /\ taken'.buffer = taken.buffer
         \/ Queue # <<>> /\ taken'.buffer = Head(Queue) /\ Queue' = Tail(Queue)
         \/ Queue' = Queue /\ taken'.buffer = taken.buffer
<1>0. /\ RingTypeOK /\ RingTypeOK' /\ Queue \in Seq(Owned) /\ Len(Queue) = Away
      /\ Queue = [i \in 1 .. Away |-> descriptors[Place(i)].buffer]
      /\ Queue' = [i \in 1 .. Away' |-> descriptors'[Place(i)'].buffer]
  <2>1. Enqueued' = [i \in 1 .. Away' |-> descriptors'[Place(i)']]
    BY DEF Enqueued, Away, Distance, Place, PlaceFrom
  <2>2. Queue' = [i \in 1 .. Away' |-> descriptors'[Place(i)'].buffer]
    BY <2>1 DEF Queue
  <2> QED
    BY <2>2, QueueIs DEF RingIInv
<1>1. ASSUME NEW b \in Buffers, enqueue(b)
      PROVE  /\ Len(Queue) < RingSize - 1 /\ Queue' = Append(Queue, b)
             /\ taken' = taken /\ b \in Owned
  <2>1. /\ Away' = Away + 1 /\ Away \in Nat /\ Away + 1 < RingSize
        /\ \A i \in 1 .. Away : descriptors'[Place(i)'].buffer = Queue[i]
        /\ descriptors'[Place(Away + 1)].buffer = b
    <3>1. /\ Away' = Away + 1 /\ Away \in Nat /\ Away + 1 < RingSize
          /\ Place(Away + 1) = producer /\ \A i : Place(i)' = Place(i)
          /\ \A i \in 1 .. Away : descriptors'[Place(i)] = descriptors[Place(i)]
          /\ descriptors'[producer] = [buffer |-> b, control |-> Capacity, status |-> Blank]
      BY <1>0, <1>1, EnqueueMoves
    <3> QED
      BY <1>0, <3>1
  <2>2. Place(Away + 1) = PlaceFrom(consumer', Away + 1)
    BY <1>1 DEF enqueue, Place
  <2>3. Queue' = [i \in 1 .. Away + 1 |-> IF i <= Away THEN Queue[i] ELSE b]
    BY <1>0, <2>1, <2>2 DEF Place
  <2>4. Append(Queue, b) = [i \in 1 .. Away + 1 |-> IF i <= Away THEN Queue[i] ELSE b]
    BY <1>0, <2>1 DEF Owned
  <2> QED
    BY <1>0, <1>1, <2>1, <2>3, <2>4, RingFacts DEF enqueue, Owned
<1>2. ASSUME poll_completed
      PROVE  Queue # <<>> /\ taken'.buffer = Head(Queue) /\ Queue' = Tail(Queue)
  <2>1. /\ Away \in Nat /\ Away < RingSize /\ 0 < Away /\ Away' = Away - 1
        /\ consumer = Place(1)
        /\ \A i \in 1 .. RingSize - 1 : Place(i)' = Place(i + 1)
        /\ \A i \in 2 .. Away : descriptors'[Place(i)] = descriptors[Place(i)]
    BY <1>0, <1>2, PollMoves
  <2>2. Queue # <<>> /\ Head(Queue) = descriptors[consumer].buffer
    BY <1>0, <2>1
  <2>3. \A i \in 1 .. Away - 1 : descriptors'[Place(i)'].buffer = Queue[i + 1]
    <3> SUFFICES ASSUME NEW i \in 1 .. Away - 1
                 PROVE  descriptors'[Place(i)'].buffer = Queue[i + 1]
      OBVIOUS
    <3>1. i \in 1 .. RingSize - 1 /\ i + 1 \in 2 .. Away /\ i + 1 \in 1 .. Away
      BY <2>1, RingFacts
    <3> QED
      BY <1>0, <2>1, <3>1
  <2>4. Queue' = [i \in 1 .. Away - 1 |-> Queue[i + 1]]
    BY <1>0, <2>1, <2>3
  <2>5. Tail(Queue) = [i \in 1 .. Away - 1 |-> Queue[i + 1]]
    BY <1>0, <2>1
  <2> QED
    BY <1>2, <2>2, <2>4, <2>5 DEF poll_completed
<1>3. ASSUME BeginReset \/ PollReset \/ StartEngine \/ submit_tail \/ ResetEnds
      PROVE  Queue' = Queue /\ taken' = taken
  <2>1. UNCHANGED <<descriptors, producer, consumer, taken>>
    BY <1>3 DEF BeginReset, PollReset, StartEngine, submit_tail, ResetEnds, descriptorVars
  <2> QED
    BY <2>1 DEF Queue, Enqueued
<1>4. ASSUME NEW n \in 1 .. Capacity, NEW error \in BOOLEAN, Fill(n, error)
      PROVE  Queue' = Queue /\ taken' = taken
  <2>1. /\ UNCHANGED <<producer, consumer, taken>>
        /\ descriptors' = [descriptors EXCEPT ![engine.current].status =
                             [complete |-> TRUE, error |-> error, length |-> n]]
    BY <1>4 DEF Fill
  <2>2. Away' = Away /\ \A i : Place(i)' = Place(i)
    BY <2>1 DEF Away, Place
  <2>3. \A i \in Index : descriptors'[i].buffer = descriptors[i].buffer
    BY <1>0, <2>1 DEF RingTypeOK, Descriptor
  <2>4. \A i \in 1 .. Away : Place(i) \in Index
    BY <1>0, AwayType, RingFacts, PlaceFacts
  <2> QED
    BY <1>0, <2>1, <2>2, <2>3, <2>4
<1> QED
  BY <1>1, <1>2, <1>3, <1>4 DEF RingNext

\* The ring of AxiDmaRing and the engine implement a queue of RingSize - 1
\* buffers, whatever the engine, its errors and the caller do.
THEOREM RefinesBoundedFifo == RingSpec => RingIsAQueue
<1>1. RingInit => Fifo!Init
  BY QueueInit DEF Fifo!Init, Queue, Owned
<1>2. ASSUME RingIInv, RingIInv', [RingNext]_ringVars PROVE [Fifo!Next]_(Fifo!vars)
  <2>1. CASE UNCHANGED ringVars
    <3>1. Queue' = Queue /\ taken' = taken
      BY <2>1 DEF ringVars, descriptorVars, Queue, Enqueued
    <3> QED
      BY <3>1 DEF Fifo!vars, Queue
  <2>2. CASE RingNext
    <3>1. CASE /\ Len(Queue) < RingSize - 1 /\ (\E b \in Owned : Queue' = Append(Queue, b))
               /\ taken'.buffer = taken.buffer
      BY <3>1 DEF Fifo!Next, Fifo!Write, Queue, Owned
    <3>2. CASE Queue # <<>> /\ taken'.buffer = Head(Queue) /\ Queue' = Tail(Queue)
      BY <3>2 DEF Fifo!Next, Fifo!Read, Queue
    <3>3. CASE Queue' = Queue /\ taken'.buffer = taken.buffer
      BY <3>3 DEF Fifo!vars, Queue
    <3> QED
      BY <1>2, <2>2, <3>1, <3>2, <3>3, QueueStep
  <2> QED
    BY <1>2, <2>1, <2>2
<1> QED
  BY <1>1, <1>2, RingInvariant, PTL DEF RingSpec, RingIsAQueue, Fifo!Spec
=============================================================================
