-------------------------- MODULE CallsiteRecords --------------------------
(***************************************************************************)
(* The record of a callsite (mpiP-callsites.c): what a call adds to it,    *)
(* how two records merge, and how the collector names the callsite of a    *)
(* record.  Also the histograms of mpiP-stats.c.                           *)
(*                                                                         *)
(* A record has for each quantity the sum over its calls, the greatest and *)
(* the least of them.  A program counter is a number; the stack of a call  *)
(* is a sequence of them, none deeper than mpiPi.fullStackDepth.           *)
(***************************************************************************)
EXTENDS Integers, Sequences, FiniteSets, FiniteSetsExt, SequencesExt, TLC

CONSTANTS Location,   \* what the debug information says of a program counter
          Large,      \* DBL_MAX: above every amount
          FirstBinMax,  \* first_bin_max, 7
          HistSize    \* hist_size, 32

ASSUME RecordsAssumption ==
    Large \in Nat /\ FirstBinMax \in Nat \ {0} /\ HistSize \in Nat \ {0}

Unknown == [file |-> "[unknown]", line |-> 0, func |-> "[unknown]"]

Fields == {"time", "sent", "io", "rma"}
MaxOf(a, b) == IF a > b THEN a ELSE b
MinOf(a, b) == IF a < b THEN a ELSE b
Each(Op(_)) == [f \in Fields |-> Op(f)]

(***************************************************************************)
(* Records.                                                                *)
(***************************************************************************)
\* mpiPi_cs_reset_stat leaves everything about one-sided calls as it was.
Kept(f) == f = "rma"

ResetStat(csp) ==
    [csp EXCEPT !.count = 0, !.large = 0,
                !.sum = Each(LAMBDA f : IF Kept(f) THEN csp.sum[f] ELSE 0),
                !.max = Each(LAMBDA f : IF Kept(f) THEN csp.max[f] ELSE 0),
                !.min = Each(LAMBDA f : IF Kept(f) THEN csp.min[f] ELSE Large)]

\* A record that the caller has cleared.
NewCallsite(rank, op, pc) ==
    LET zero == Each(LAMBDA f : 0) IN
    ResetStat([op |-> op, rank |-> rank, pc |-> pc, csid |-> 0, count |-> 0,
               large |-> 0, sum |-> zero, max |-> zero, min |-> zero])

\* Mutant: the least amount is not kept.
UpdateCallsite_NoMin(csp, amount, threshold) ==
    [csp EXCEPT !.count = @ + 1,
                !.sum = Each(LAMBDA f : csp.sum[f] + amount[f]),
                !.max = Each(LAMBDA f : MaxOf(csp.max[f], amount[f])),
                !.min = Each(LAMBDA f : amount[f]),
                !.large = IF threshold > -1 /\ amount["sent"] >= threshold
                          THEN @ + 1 ELSE @]

\* mpiPi_cs_update.
UpdateCallsite(csp, amount, threshold) ==
    [csp EXCEPT !.count = @ + 1,
                !.sum = Each(LAMBDA f : csp.sum[f] + amount[f]),
                !.max = Each(LAMBDA f : MaxOf(csp.max[f], amount[f])),
                !.min = Each(LAMBDA f : MinOf(csp.min[f], amount[f])),
                !.large = IF threshold > -1 /\ amount["sent"] >= threshold
                          THEN @ + 1 ELSE @]

\* Mutant: the greatest amount is added up as the sum is.
MergeCallsite_AddsMax(dst, src) ==
    [dst EXCEPT !.count = @ + src.count, !.large = @ + src.large,
                !.sum = Each(LAMBDA f : dst.sum[f] + src.sum[f]),
                !.max = Each(LAMBDA f : dst.max[f] + src.max[f]),
                !.min = Each(LAMBDA f : MinOf(dst.min[f], src.min[f]))]

\* mpiPi_cs_merge has no line for the extremes of one-sided calls.
MergeCallsite(dst, src) ==
    [dst EXCEPT !.count = @ + src.count, !.large = @ + src.large,
                !.sum = Each(LAMBDA f : dst.sum[f] + src.sum[f]),
                !.max = Each(LAMBDA f : IF Kept(f) THEN dst.max[f]
                                        ELSE MaxOf(dst.max[f], src.max[f])),
                !.min = Each(LAMBDA f : IF Kept(f) THEN dst.min[f]
                                        ELSE MinOf(dst.min[f], src.min[f]))]

(***************************************************************************)
(* Tables of records: a set in which no two have the same key.             *)
(***************************************************************************)
\* A comparator is the set of the fields it compares.
Matching(table, p, same) == {q \in table : \A field \in same : q[field] = p[field]}

\* The comparator of a thread's table (trd_pc_comparator).
SamePc == {"op", "rank", "pc"}
\* Those of the collector: with the rank, without it, and by operation.
SameSrc == {"op", "csid", "rank"}
SameSrcId == {"op", "csid"}
SameOp == {"op"}

\* Search for p; insert a copy of new, or else merge p into what was found.
Accumulate(table, p, new, same) ==
    LET found == Matching(table, p, same) IN
    IF found = {} THEN table \cup {new}
    ELSE LET csp == CHOOSE q \in found : TRUE
         IN (table \ {csp}) \cup {MergeCallsite(csp, p)}

(***************************************************************************)
(* Program counters and source lines.                                      *)
(***************************************************************************)
\* mpiPi_query_pc: the answer for a program counter that is not in the cache.
\* A file "??" or NULL is unknown, and so is a function without a name.
Normal(loc) ==
    [loc EXCEPT !.file = IF @ \in {"??", "NULL"} THEN "[unknown]" ELSE @,
                !.func = IF @ = "NULL" THEN "[unknown]" ELSE @]

QueryPc(cache, pc, doLookup) ==
    IF pc \in DOMAIN cache THEN cache
    ELSE [x \in DOMAIN cache \cup {pc} |->
            IF x \in DOMAIN cache THEN cache[x]
            ELSE IF doLookup /\ pc \in DOMAIN Location THEN Normal(Location[pc])
            ELSE Unknown]

\* Mutant: the source lines decide.
SameEntry_LinesOnly(e, key, depth) ==
    IF depth = 0 THEN e.id = key.id ELSE e.src = key.src

\* callsite_src_id_cache_comparator: with a stack depth of zero the number,
\* else the source lines, and where these agree the program counters.
SameEntry(e, key, depth) ==
    IF depth = 0 THEN e.id = key.id ELSE e.src = key.src /\ e.pc = key.pc

\* mpiPi_query_src: the key of a record, and the entry it gets.
SourceKey(p, cache, doLookup) ==
    [id |-> p.op, op |-> p.op, pc |-> p.pc,
     src |-> [i \in DOMAIN p.pc |-> IF doLookup THEN cache[p.pc[i]] ELSE Unknown]]

\* Mutant: the counter is not moved on.
NextNumber_Same(counter) == counter

\* callsite_src_id_counter++.
NextNumber(counter) == counter + 1

\* A new entry takes the number of the operation, or the next of the counter.
\* At depth zero the entries of an operation are equal; the code hashes file
\* and line all the same and may keep several, which have the same number.
QuerySrc(srcs, counter, key, depth) ==
    LET found == {e \in srcs : SameEntry(e, key, depth)}
        entry == IF found # {} THEN CHOOSE e \in found : TRUE
                 ELSE IF depth = 0 THEN key ELSE [key EXCEPT !.id = counter]
    IN [srcs |-> srcs \cup {entry}, id |-> entry.id,
        counter |-> IF found = {} /\ depth > 0 THEN NextNumber(counter) ELSE counter]

(***************************************************************************)
(* Histograms: the bin of a size, and the bounds that the report prints.   *)
(***************************************************************************)
\* Mutant: one bin too high at each power of two less one.
Bin_OffByOne(val) ==
    IF val < FirstBinMax THEN 0
    ELSE Min({b \in 1 .. HistSize : val \div 2^b < FirstBinMax} \cup {HistSize})

\* get_histogram_bin: halve until the first bin holds it, HistSize times at most.
Bin(val) ==
    IF val <= FirstBinMax THEN 0
    ELSE Min({b \in 1 .. HistSize : val \div 2^b <= FirstBinMax} \cup {HistSize})

\* get_histogram_bin_str.
BinBounds(v) ==
    IF v = 0 THEN 0 .. FirstBinMax
    ELSE LET low == (FirstBinMax + 1) * 2^(v - 1) IN low .. (2 * low - 1)
=============================================================================
