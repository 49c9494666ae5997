-------------------------- MODULE DocumentArchive --------------------------
(* The archive of the official PDF of one validated version: generatePdf()  *)
(* of job-descriptions.service.ts, the row it inserts (unique for a version *)
(* and a type) and the files it writes, with requests at once and crashes.  *)

CONSTANTS
    Generations, \* requests to generate the PDF
    Prints       \* what rendering may give: the bytes hold the time in ms

VARIABLES
    row,    \* the rows of job_description_files, by the print they name
    files,  \* the prints at their final path
    drafts, \* those at their temporary path
    pc,     \* the await each request is at
    print,  \* what it renders
    broken, \* history: the insert went through, and an error came all the same
    clash   \* history: two requests in flight have rendered the same bytes

storage == <<row, files, drafts>>
archiveVars == <<storage, pc, print, broken, clash>>

\* Awaits at which a request holds a print.
Holding == {"writing", "renaming", "cleaning", "inserting", "recording", "unlinking",
            "finding"}
Awaits == {"idle", "returned", "thrown", "dead"} \cup Holding

ArchiveTypeOK ==
    /\ row \subseteq Prints
    /\ files \subseteq Prints
    /\ drafts \subseteq Prints
    /\ pc \in [Generations -> Awaits]
    /\ print \in [Generations -> Prints]
    /\ broken \in BOOLEAN
    /\ clash \in BOOLEAN

ArchiveInit ==
    /\ row = {}
    /\ files = {}
    /\ drafts = {}
    /\ pc = [g \in Generations |-> "idle"]
    /\ print \in [Generations -> Prints]
    /\ broken = FALSE
    /\ clash = FALSE

Goes(g, from, to) == pc[g] = from /\ pc' = [pc EXCEPT ![g] = to]

\* The final path is named by the hash of the bytes; mutant: by the version.
MutPath(p) == CHOOSE q \in Prints : TRUE

Path(p) == p

\* The version is read with its files; without one, the PDF is rendered.
Finds(g) ==
    /\ row # {}
    /\ Goes(g, "idle", "returned")
    /\ UNCHANGED <<storage, print, broken, clash>>

Renders(g) ==
    /\ row = {}
    /\ Goes(g, "idle", "writing")
    /\ clash' = (clash \/ \E h \in Generations : pc[h] \in Holding /\ print[h] = print[g])
    /\ UNCHANGED <<storage, print, broken>>

\* The temporary file is made for the request alone (flag wx).
Writes(g) ==
    /\ Path(print[g]) \notin drafts
    /\ Goes(g, "writing", "renaming")
    /\ drafts' = drafts \cup {Path(print[g])}
    /\ UNCHANGED <<row, files, print, broken, clash>>

Renames(g) ==
    /\ Path(print[g]) \in drafts
    /\ Goes(g, "renaming", "inserting")
    /\ drafts' = drafts \ {Path(print[g])}
    /\ files' = files \cup {Path(print[g])}
    /\ UNCHANGED <<row, print, broken, clash>>

\* A write or rename that fails (the file exists, is gone, the disk is full) is
\* followed by the removal of the temporary file, whoever made it.
FileFails(g) ==
    /\ \/ Goes(g, "writing", "cleaning")
       \/ Goes(g, "renaming", "cleaning")
    /\ UNCHANGED <<storage, print, broken, clash>>

Cleans(g) ==
    /\ Goes(g, "cleaning", "thrown")
    /\ drafts' = drafts \ {Path(print[g])}
    /\ UNCHANGED <<row, files, print, broken, clash>>

Inserts(g) ==
    /\ row = {}
    /\ Goes(g, "inserting", "recording")
    /\ row' = {print[g]}
    /\ UNCHANGED <<files, drafts, print, broken, clash>>

\* The unique key refuses the row, or the query fails.
InsertFails(g) ==
    /\ Goes(g, "inserting", "unlinking")
    /\ UNCHANGED <<storage, print, broken, clash>>

\* The row is inserted, but the answer is lost.
InsertIsLost(g) ==
    /\ row = {}
    /\ Goes(g, "inserting", "unlinking")
    /\ row' = {print[g]}
    /\ broken' = TRUE
    /\ UNCHANGED <<files, drafts, print, clash>>

\* The audit record is in the same try.
Records(g) ==
    /\ \/ Goes(g, "recording", "returned") /\ UNCHANGED broken
       \/ Goes(g, "recording", "unlinking") /\ broken' = TRUE
    /\ UNCHANGED <<storage, print, clash>>

\* The file is removed, then the row of the other request is looked for.
Unlinks(g) ==
    /\ Goes(g, "unlinking", "finding")
    /\ files' = files \ {Path(print[g])}
    /\ UNCHANGED <<row, drafts, print, broken, clash>>

FindsOther(g) ==
    /\ Goes(g, "finding", IF row # {} THEN "returned" ELSE "thrown")
    /\ UNCHANGED <<storage, print, broken, clash>>

Crash ==
    /\ \E g \in Generations : pc[g] \in Holding
    /\ pc' = [g \in Generations |-> IF pc[g] \in Holding THEN "dead" ELSE pc[g]]
    /\ UNCHANGED <<storage, print, broken, clash>>

ArchiveNext ==
    \/ \E g \in Generations :
         \/ Finds(g) \/ Renders(g) \/ Writes(g) \/ Renames(g) \/ FileFails(g) \/ Cleans(g)
         \/ Inserts(g) \/ InsertFails(g) \/ InsertIsLost(g) \/ Records(g)
         \/ Unlinks(g) \/ FindsOther(g)
    \/ Crash

ArchiveSpec == ArchiveInit /\ [][ArchiveNext]_archiveVars

\* The file an archive row names is there to be downloaded, whoever lost the race for
\* the row and removed his file, failed half-way or died: a file is lost only when two
\* requests render the same bytes in the same instant, or when an error follows the
\* insert, which the code takes for a refused one (generatePdf, the unlink of line 473).
ArchiveIsKept == row # {} /\ ~clash /\ ~broken => row \subseteq files
=============================================================================
