------------------------------ MODULE SystemInfo ------------------------------
(***************************************************************************)
(* What system_info.py finds out about the host.  A host is a record of    *)
(* what its operating system would answer; the getters differ in where     *)
(* they look, what they skip and what makes them give up.                  *)
(***************************************************************************)
EXTENDS Integers, Sequences

CONSTANTS
  DefaultL3,      \* default of get_cpu_l3_cache (256 MiB)
  Host            \* records [platform, ram, caches], see HostAssumption

Absent == -1      \* nothing there: None
Broken == -2      \* reading or parsing it raises

Reading == Nat \cup {Absent, Broken}

ASSUME HostAssumption ==
  /\ DefaultL3 \in Nat \ {0}
  /\ \A h \in Host :
       /\ h.platform \in {"win32", "linux", "darwin", "other"}
       /\ h.ram \in Reading
       /\ h.caches \in Seq([level : Reading, size : Reading])

\* The first of the entries of h.caches at the places in At.
FirstSize(h, At) ==
  IF At = {} THEN Absent ELSE h.caches[CHOOSE i \in At : \A j \in At : i <= j].size

OfLevel(h, level) == {i \in DOMAIN h.caches : h.caches[i].level = level}

\* GetLogicalProcessorInformationEx: the first cache of level 3.
GetL3Win32(h) == FirstSize(h, OfLevel(h, 3))

\* The index directories of sysfs, in order; one that cannot be read is skipped.
GetL3Linux(h) == FirstSize(h, {i \in OfLevel(h, 3) : h.caches[i].size \notin {Absent, Broken}})

\* sysctl: hw.l3cachesize, or else hw.l2cachesize.
GetL3Darwin(h) ==
  LET l3 == FirstSize(h, OfLevel(h, 3))
  IN IF l3 # Absent THEN l3 ELSE FirstSize(h, OfLevel(h, 2))

\* An exception is logged and counts as no answer.
GetL3Cache(h) ==
  CASE h.platform = "win32"  -> GetL3Win32(h)
    [] h.platform = "linux"  -> GetL3Linux(h)
    [] h.platform = "darwin" -> GetL3Darwin(h)
    [] OTHER -> Absent

GetCpuL3Cache(h) == IF GetL3Cache(h) > 0 THEN GetL3Cache(h) ELSE DefaultL3

\* None where the platform is unknown, the query raises, or it answers zero.
GetAvailableRam(h) == IF h.platform # "other" /\ h.ram > 0 THEN h.ram ELSE Absent
===============================================================================
