------------------------------- MODULE BenchFiles -------------------------------
(***************************************************************************)
(* The temporary data of a benchmark: EvictArrConfig, the files that       *)
(* generate_bench_memmaps creates one after the other, and the context     *)
(* manager temporary_benchmark_data that closes and removes them.  There   *)
(* are two places for such a context, one inside the other: "outer" with   *)
(* the default file names, which a script opens, and "inner" with names of *)
(* its own, which determine_operation_focus opens.                         *)
(***************************************************************************)
EXTENDS SystemInfo, BenchPlan

CONSTANT InUse       \* bound: the files whose removal may fail

VARIABLES
  host,       \* the machine
  evict,      \* class attributes of EvictArrConfig
  disk,       \* disk[l][k]: rows, columns and item size of a file, or NoFile
  mgr         \* mgr[l]: the context manager at l

fileVars == <<host, evict, disk, mgr>>

Level  == {"outer", "inner"}
NoFile == <<0, 0, 0>>

ItemSize == [float32 |-> 4, float64 |-> 8]
Dtype    == DOMAIN ItemSize
Unset    == "unset"

\* No machine has a cache smaller than one number.
ASSUME CacheAssumption == \A h \in Host : GetCpuL3Cache(h) >= 8
-------------------------------------------------------------------------------
FreshConfig == [dtype |-> Unset, bytes |-> 0, item_size |-> 0]

\* The classproperties dtype, item_size and bytes fill what is unset on first access.
ReadConfig(e) ==
  LET dtype == IF e.dtype = Unset THEN "float64" ELSE e.dtype
  IN [dtype     |-> dtype,
      bytes     |-> IF e.bytes = 0 THEN GetCpuL3Cache(host) ELSE e.bytes,
      item_size |-> IF e.item_size = 0 THEN ItemSize[dtype] ELSE e.item_size]

\* The classproperty shape of a configuration that has been read.
EvictShape(e) == e.bytes \div e.item_size

EvictFile(e) == <<1, EvictShape(e), ItemSize[e.dtype]>>

\* Faulty variant: the cached item size is not invalidated.
SetDtype_KeepsItemSize(dtype) ==
  /\ evict' = [evict EXCEPT !.dtype = dtype]
  /\ UNCHANGED <<host, disk, mgr>>

SetDtype(dtype) ==
  /\ evict' = [evict EXCEPT !.dtype = dtype, !.item_size = 0]
  /\ UNCHANGED <<host, disk, mgr>>

SetBytes(value) ==
  /\ evict' = [evict EXCEPT !.bytes = value]
  /\ UNCHANGED <<host, disk, mgr>>

\* The application looks at the shape.
ReadShape ==
  /\ evict' = ReadConfig(evict)
  /\ UNCHANGED <<host, disk, mgr>>
-------------------------------------------------------------------------------
\* at: closed, generating, open (yielded), removing, left; raised: generation raised;
\* next: the file in hand; open: the arrays that are mapped; kept: what could not be
\* removed.
Closed == [at |-> "closed", raised |-> FALSE, next |-> 1, wanted |-> {}, open |-> {},
           kept |-> {}, item_size |-> 0,
           shapes |-> Shapes(0, 0, 0)]

FilesInit ==
  /\ host \in Host
  /\ evict = FreshConfig
  /\ disk = [l \in Level |-> [k \in Kinds |-> NoFile]]
  /\ mgr = [l \in Level |-> Closed]

\* __enter__: generate_bench_memmaps checks n_runs before it creates anything.  An
\* inner context has names nobody used before.
EnterData(l, dtype, n_runs, block_size, maxlen, wanted) ==
  /\ mgr[l].at \in {"closed", "left"}
  /\ mgr' = [mgr EXCEPT ![l] =
       [Closed EXCEPT !.at = IF n_runs <= 1 THEN "left" ELSE "generating",
                      !.raised = n_runs <= 1,
                      !.wanted = wanted, !.item_size = ItemSize[dtype],
                      !.shapes = Shapes(n_runs, block_size, maxlen)]]
  /\ disk' = IF l = "inner" THEN [disk EXCEPT ![l] = [k \in Kinds |-> NoFile]] ELSE disk
  /\ UNCHANGED <<host, evict>>

InHand(l) == FileKind[mgr[l].next]

NewFile(l, k) ==
  IF k = "evict" THEN EvictFile(ReadConfig(evict))
  ELSE <<mgr[l].shapes[k][1], mgr[l].shapes[k][2], mgr[l].item_size>>

\* Faulty variant: the eviction array is not among those that are handed out.
Created_WithoutLast(m, k) ==
  [m EXCEPT !.at = IF k = "evict" THEN "open" ELSE @,
            !.next = IF k = "evict" THEN 1 ELSE @ + 1,
            !.open = IF k \in m.wanted /\ k # "evict" THEN @ \cup {k} ELSE @]

\* The file after k, or all of them: the data is handed to the body.
Created(m, k) ==
  [m EXCEPT !.at = IF k = "evict" THEN "open" ELSE @,
            !.next = IF k = "evict" THEN 1 ELSE @ + 1,
            !.open = IF k \in m.wanted THEN @ \cup {k} ELSE @]

\* np.memmap(path, mode="w+") and the values; what is not wanted gets an empty path
\* and no array.
CreateFile(l) ==
  /\ mgr[l].at = "generating"
  /\ LET k == InHand(l)
     IN /\ mgr' = [mgr EXCEPT ![l] = Created(@, k)]
        /\ IF k \in mgr[l].wanted
           THEN /\ disk' = [disk EXCEPT ![l][k] = NewFile(l, k)]
                /\ evict' = IF k = "evict" THEN ReadConfig(evict) ELSE evict
           ELSE UNCHANGED <<disk, evict>>
  /\ UNCHANGED host

\* No room, no permission or a refused conversion: before or after the file exists.
\* The locals of the context manager are assigned all at once, so none of them is:
\* its clean-up finds nothing to close or remove.
CreateRaises(l) ==
  /\ mgr[l].at = "generating" /\ InHand(l) \in mgr[l].wanted
  /\ \/ disk' = [disk EXCEPT ![l][InHand(l)] = NewFile(l, InHand(l))]
     \/ UNCHANGED disk
  /\ mgr' = [mgr EXCEPT ![l].at = "left", ![l].raised = TRUE, ![l].open = {}]
  /\ UNCHANGED <<host, evict>>

\* __exit__, whether the body ended or raised: every map is closed first.
ExitData(l) ==
  /\ mgr[l].at = "open"
  /\ mgr' = [mgr EXCEPT ![l].at = "removing", ![l].open = {}, ![l].next = 1]
  /\ UNCHANGED <<host, evict, disk>>

\* Faulty variant: the first file that cannot be removed ends the loop.
RemoveFile_StopsAtError(l) ==
  /\ mgr[l].at = "removing"
  /\ LET k == InHand(l)
         there == k \in mgr[l].wanted /\ disk[l][k] # NoFile
     IN \E removed \in BOOLEAN :
          /\ ~removed => there /\ k \in InUse
          /\ disk' = IF removed /\ there THEN [disk EXCEPT ![l][k] = NoFile] ELSE disk
          /\ mgr' = [mgr EXCEPT ![l].kept = IF removed THEN @ ELSE @ \cup {k},
                                ![l].at = IF k = "evict" \/ ~removed THEN "left" ELSE @,
                                ![l].next = IF k = "evict" THEN 1 ELSE @ + 1]
  /\ UNCHANGED <<host, evict>>

\* Each path in turn; one that cannot be removed is logged and the loop goes on.
RemoveFile(l) ==
  /\ mgr[l].at = "removing"
  /\ LET k == InHand(l)
         there == k \in mgr[l].wanted /\ disk[l][k] # NoFile
     IN \E removed \in BOOLEAN :
          /\ ~removed => there /\ k \in InUse
          /\ disk' = IF removed /\ there THEN [disk EXCEPT ![l][k] = NoFile] ELSE disk
          /\ mgr' = [mgr EXCEPT ![l].kept = IF removed THEN @ ELSE @ \cup {k},
                                ![l].at = IF k = "evict" THEN "left" ELSE @,
                                ![l].next = IF k = "evict" THEN 1 ELSE @ + 1]
  /\ UNCHANGED <<host, evict>>

FilesStep == \E l \in Level : CreateFile(l) \/ RemoveFile(l)
===============================================================================
