----------------------------- MODULE DiskWrite ------------------------------
(***************************************************************************)
(* diskmain and class Generate of disk/Generate.cpp: fileSize records are  *)
(* written to raw.txt and the pace is reported.  The file outlives a run:  *)
(* it is opened without O_TRUNC, so a run starts over what the runs before *)
(* it left, an aborted one included.                                       *)
(*                                                                         *)
(* A record of the file is the run that wrote it, or Torn.  Bounds:        *)
(* MaxRuns runs, MaxRecords records a run.                                 *)
(***************************************************************************)
EXTENDS Integers, Sequences

CONSTANTS MaxRuns, MaxRecords

ASSUME BoundsAssumption == MaxRuns \in Nat \ {0} /\ MaxRecords \in Nat

Torn == 0

VARIABLES
    dpc,        \* where the program is
    run,        \* the number of the run
    fileSize, i,
    m_buf,      \* "unset", "allocated" or "filled"
    file,       \* the records of raw.txt
    said        \* what was printed in this run

diskVars == <<dpc, run, fileSize, i, m_buf, file, said>>

Ends == {"exited", "returned", "aborted", "crashed"}

\* The command line: -f takes any int, and the default is one of them.  A run
\* with another option ends with the usage text.
diskmain(n) ==
    /\ run' = n
    /\ fileSize' \in -1..MaxRecords
    /\ dpc' = "construct" /\ i' = 0 /\ m_buf' = "unset" /\ said' = {}

DiskInit ==
    /\ run = 1 /\ fileSize \in -1..MaxRecords
    /\ dpc = "construct" /\ i = 0 /\ m_buf = "unset" /\ said = {}
    /\ file = <<>>

Rerun ==
    /\ dpc \in Ends /\ run < MaxRuns
    /\ diskmain(run + 1)
    /\ UNCHANGED file

usage ==
    /\ dpc = "construct" /\ dpc' = "exited"
    /\ said' = {"usage"}
    /\ UNCHANGED <<run, fileSize, i, m_buf, file>>

\* The result of posix_memalign is not tested: m_buf may stay uninitialized.
Generate ==
    /\ dpc = "construct" /\ dpc' = "open"
    /\ m_buf' \in {"unset", "allocated"}
    /\ UNCHANGED <<run, fileSize, i, file, said>>

open ==
    /\ dpc = "open"
    /\ \/ dpc' = "gen" /\ said' = said
       \/ dpc' = "exited" /\ said' = said \cup {"open error"}
    /\ UNCHANGED <<run, fileSize, i, m_buf, file>>

\* Through an uninitialized pointer the stores crash or go somewhere else.
genRecord ==
    /\ dpc = "gen"
    /\ \/ dpc' = "loop" /\ m_buf' = "filled"
       \/ m_buf = "unset" /\ dpc' = "crashed" /\ m_buf' = m_buf
    /\ UNCHANGED <<run, fileSize, i, file, said>>

-----------------------------------------------------------------------------

\* The record at the file offset is overwritten or appended.
Put(record) ==
    file' = IF i < Len(file) THEN [file EXCEPT ![i + 1] = record]
            ELSE Append(file, record)

\* Mutation of write: the assertion is not there.
write_unasserted ==
    /\ dpc = "loop" /\ i < fileSize
    /\ \/ Put(run) /\ i' = i + 1 /\ UNCHANGED <<dpc, said>>
       \/ Put(Torn) /\ i' = i + 1 /\ UNCHANGED <<dpc, said>>
       \/ dpc' = "report" /\ said' = said \cup {"write error"} /\ UNCHANGED <<file, i>>
    /\ UNCHANGED <<run, fileSize, m_buf>>

\* A whole record; a short write, which the assertion turns into an abort; or an
\* error, which is printed and ends the loop.
write ==
    /\ dpc = "loop" /\ i < fileSize
    /\ \/ Put(run) /\ i' = i + 1 /\ UNCHANGED <<dpc, said>>
       \/ Put(Torn) /\ dpc' = "aborted" /\ UNCHANGED <<i, said>>
       \/ dpc' = "report" /\ said' = said \cup {"write error"} /\ UNCHANGED <<file, i>>
    /\ UNCHANGED <<run, fileSize, m_buf>>

loop_end ==
    /\ dpc = "loop" /\ i >= fileSize
    /\ dpc' = "report"
    /\ UNCHANGED <<run, fileSize, i, m_buf, file, said>>

\* The report is of fileSize records, whatever the loop did.
report ==
    /\ dpc = "report" /\ dpc' = "returned"
    /\ said' = said \cup {"report"}
    /\ UNCHANGED <<run, fileSize, i, m_buf, file>>

DiskFinished == dpc \in Ends /\ run = MaxRuns /\ UNCHANGED diskVars

DiskNext ==
    \/ Rerun \/ usage \/ Generate \/ open \/ genRecord
    \/ write \/ loop_end \/ report \/ DiskFinished

DiskSpec == DiskInit /\ [][DiskNext]_diskVars

-----------------------------------------------------------------------------
(* Properties *)

\* A report that comes without a write error is true: the file starts with the
\* records it speaks of, all whole and all of this run, whatever earlier runs
\* left there.  Nothing is claimed of what follows them.
ReportHonest ==
    said = {"report"} =>
        /\ fileSize <= Len(file)
        /\ \A k \in 1..fileSize : file[k] = run
=============================================================================
