---------------------------- MODULE DocsConvert ----------------------------
(***************************************************************************)
(* convert of internal/docs_tool/src/lib.rs: every PDF of a directory is   *)
(* turned into a few text files, and a manifest records the hash of each   *)
(* PDF so that the next run skips the ones that have not changed.  PDFs    *)
(* are replaced at any moment, pdftotext may fail, and the tool may be     *)
(* killed between any two changes of a file, which fs::write truncates     *)
(* before it fills it.                                                     *)
(*                                                                         *)
(* The contents of a PDF, its hash and the text made from it are its       *)
(* version.  A PDF may be replaced by any version, one it had before too.  *)
(***************************************************************************)
EXTENDS Integers, Sequences

CONSTANTS
  Pdfs,      \* the PDFs, in the order of the sorted list
  Versions,  \* what a PDF may hold
  MaxRuns    \* bound: the runs of a behaviour

VARIABLES
  source,    \* the version of each PDF
  written,   \* the version each output file was made from
  manifest,  \* the version of each PDF in manifest.json
  convert,   \* the run: [at, todo, cached, documents, sha256, text, quiet]
  runs,      \* the runs so far
  \* History, for the properties.
  halfClean, \* the removals of a clean run have begun and have not all been done
  seen,      \* the versions each PDF has had since all was removed last
  restored,  \* whether it went back to one of them
  disturbed  \* whether since then a run was cut, or a PDF replaced during one

convertVars == <<source, written, manifest, convert, runs,
                 halfClean, seen, restored, disturbed>>
convertHistory == <<halfClean, seen, restored, disturbed>>

Absent == 0
Torn == -1

Documents == {Pdfs[i] : i \in 1 .. Len(Pdfs)}

ASSUME PdfsAssumption == Pdfs \in Seq(Documents)
ASSUME VersionsAssumption == Versions \subseteq Nat \ {Absent}

\* The files of a document in the order write_document writes them.
Files == <<"document.md", "category.md", "index.md">>
FileNames == {Files[i] : i \in 1 .. Len(Files)}

NoEntries == [d \in Documents |-> Absent]
Unreadable == [d \in Documents |-> Torn]

Stopped == [at |-> "idle", todo |-> <<>>, cached |-> NoEntries,
            documents |-> NoEntries, sha256 |-> 0, text |-> 0,
            quiet |-> TRUE]

ConvertInit ==
  /\ source \in [Documents -> Versions]
  /\ written = [d \in Documents |-> [f \in FileNames |-> Absent]]
  /\ manifest = NoEntries
  /\ convert = Stopped
  /\ runs = 0
  /\ halfClean = FALSE
  /\ seen = [d \in Documents |-> {source[d]}]
  /\ restored = [d \in Documents |-> FALSE]
  /\ disturbed = FALSE

Pdf == Head(convert.todo)

\* The run is at the PDFs.
AtPdfs == convert.at \notin {"idle", "clean"}

\* A PDF is replaced by another version, a new one or one it had before.
Edit ==
  /\ \E d \in Documents, v \in Versions :
       /\ v # source[d]
       /\ source' = [source EXCEPT ![d] = v]
       /\ restored' = [restored EXCEPT ![d] = @ \/ v \in seen[d]]
       /\ seen' = [seen EXCEPT ![d] = @ \cup {v}]
  /\ disturbed' = (disturbed \/ AtPdfs)
  /\ convert' = [convert EXCEPT !.quiet = @ /\ ~AtPdfs]
  /\ UNCHANGED <<written, manifest, runs, halfClean>>

\* The user starts a run, with or without --clean; without it the manifest is
\* the cache, unless it is missing or does not parse.
StartConvert ==
  /\ convert.at = "idle"
  /\ runs < MaxRuns
  /\ runs' = runs + 1
  /\ \E clean \in BOOLEAN :
       /\ halfClean' = (halfClean \/ clean)
       /\ convert' = [Stopped EXCEPT
            !.at = IF clean THEN "clean" ELSE "next",
            !.todo = Pdfs,
            !.cached = IF clean \/ manifest = Unreadable THEN NoEntries
                       ELSE manifest]
  /\ UNCHANGED <<source, written, manifest, seen, restored, disturbed>>

\* remove_dir_all deletes one file after another, in no particular order.
RemoveFile ==
  /\ convert.at = "clean"
  /\ \/ /\ manifest # NoEntries
        /\ manifest' = NoEntries
        /\ UNCHANGED written
     \/ /\ \E d \in Documents, f \in FileNames :
             /\ written[d][f] # Absent
             /\ written' = [written EXCEPT ![d][f] = Absent]
        /\ UNCHANGED manifest
  /\ UNCHANGED <<source, convert, runs, convertHistory>>

Removed ==
  /\ convert.at = "clean"
  /\ manifest = NoEntries
  /\ \A d \in Documents, f \in FileNames : written[d][f] = Absent
  /\ convert' = [convert EXCEPT !.at = "next"]
  /\ halfClean' = FALSE
  /\ seen' = [d \in Documents |-> {source[d]}]
  /\ restored' = [d \in Documents |-> FALSE]
  /\ disturbed' = FALSE
  /\ UNCHANGED <<source, written, manifest, runs>>

\* Whether the cache lets a PDF with this hash be skipped.
Unchanged(entry, sha256) == entry = sha256

\* The next PDF is read and hashed, and skipped when the cache has that hash.
HashPdf ==
  /\ convert.at = "next"
  /\ convert.todo # <<>>
  /\ LET sha256 == source[Pdf] IN
       convert' =
         IF Unchanged(convert.cached[Pdf], sha256)
         THEN [convert EXCEPT !.todo = Tail(@),
                              !.documents[Pdf] = convert.cached[Pdf]]
         ELSE [convert EXCEPT !.at = "text", !.sha256 = sha256]
  /\ UNCHANGED <<source, written, manifest, runs, convertHistory>>

\* run_pdftotext reads the PDF again, by its name.
run_pdftotext ==
  /\ convert.at = "text"
  /\ convert' = [convert EXCEPT !.at = Files[1], !.text = source[Pdf]]
  /\ UNCHANGED <<source, written, manifest, runs, convertHistory>>

\* The entry of the manifest for the document just written.
EntryHashedLate == source[Pdf]

Entry == convert.sha256

\* write_file of write_document: a file that already holds the text is left
\* alone, any other is truncated and then filled.
write_file ==
  \E i \in 1 .. Len(Files) :
    LET f == Files[i]
        whole == written[Pdf][f] = convert.text
        next == IF i < Len(Files) THEN [convert EXCEPT !.at = Files[i + 1]]
                ELSE [convert EXCEPT !.at = "next", !.todo = Tail(@),
                                     !.documents[Pdf] = Entry]
    IN /\ convert.at = f
       /\ IF whole THEN convert' = next /\ UNCHANGED written
          ELSE /\ written' = [written EXCEPT ![Pdf][f] =
                                IF @ = Torn THEN convert.text ELSE Torn]
               /\ convert' = IF written[Pdf][f] = Torn THEN next ELSE convert
       /\ UNCHANGED <<source, manifest, runs, convertHistory>>

\* The manifest is written the same way once every document is.
WriteManifest ==
  /\ convert.at = "next"
  /\ convert.todo = <<>>
  /\ manifest' = IF manifest \in {convert.documents, Unreadable}
                 THEN convert.documents ELSE Unreadable
  /\ convert' = IF manifest' = convert.documents
                THEN [convert EXCEPT !.at = "done"] ELSE convert
  /\ UNCHANGED <<source, written, runs, convertHistory>>

\* The run returns.
Finish ==
  /\ convert.at = "done"
  /\ convert' = Stopped
  /\ UNCHANGED <<source, written, manifest, runs, convertHistory>>

\* pdftotext or a write fails, or the tool is killed: nothing more is written.
Cut ==
  /\ convert.at \notin {"idle", "done"}
  /\ convert' = Stopped
  /\ disturbed' = TRUE
  /\ UNCHANGED <<source, written, manifest, runs, halfClean, seen, restored>>

ConvertNext == Edit \/ StartConvert \/ RemoveFile \/ Removed \/ HashPdf
  \/ run_pdftotext \/ write_file \/ WriteManifest \/ Finish \/ Cut

ConvertSpec == ConvertInit /\ [][ConvertNext]_convertVars

-----------------------------------------------------------------------------
\* All files of a document are whole and were made from the PDF as it is.
Fresh(d) == \A f \in FileNames : written[d][f] = source[d]

\* What the manifest lets the next run skip is right.  Whenever it has the hash
\* of a PDF as it now is, all the files of that document are whole and were made
\* from that PDF: no edit between two runs, of a PDF that goes back to an earlier
\* version either, makes it lie, and no cut run and no edit in the middle of one
\* does as long as that PDF does not go back.  Both together do: the files of a
\* run that was cut, or of a text read after its hash, stay under the hash of the
\* version the PDF goes back to, until a run with --clean.  So do the removals of
\* a clean run that is cut.
\* And a run during which no PDF is replaced, from the first hash on, ends with a
\* manifest of just the PDFs that there are.
SkipIsSafe ==
  /\ ~halfClean =>
       \A d \in Documents :
         manifest[d] = source[d] => Fresh(d) \/ (restored[d] /\ disturbed)
  /\ convert.at = "done" /\ convert.quiet => manifest = source
=============================================================================
