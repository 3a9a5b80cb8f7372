-------------------------- MODULE StatTablesProofs --------------------------
(***************************************************************************)
(* Proofs about StatTables: for any number of threads, callsites and       *)
(* chains, and any number of calls, reports and resets.                    *)
(*                                                                         *)
(* The argument: every pointer is to a record, and each record is in the   *)
(* chain of its key (Basics, Placed).  While resets are kept apart from    *)
(* the calls of other threads, a record is in one table at most, a call    *)
(* holds a record of its own table, and the drain frees only what it has   *)
(* collected (Safe).  For a report, what the rank shows so far and what    *)
(* the tables still to be read show lies between the calls recorded when   *)
(* it began and those recorded now (Bracketing), which together with the   *)
(* calls not yet counted are the calls begun (Totals).                     *)
(***************************************************************************)
EXTENDS StatTables, FoldTheorems, WellFoundedInduction

Buckets == 0 .. TableSize - 1
Records == [key : Keys, count : Nat, time : Nat, tmpid : Nat]
HashTables == [chain : [Buckets -> Seq(Nat)], count : Nat]
Linking == {"number", "link"}
Draining == {"free", "zero", "release"}
Merging == {"record", "insert", "addcount", "addtime"}

Ops == [pc : Steps, key : Keys \cup {0}, csp : Nat, id : Nat, seen : Nat]
Controls == [pc : CtlSteps, kind : {"none", "report", "reset"}, todo : Seq(Threads),
             i : Buckets, av : Seq(Nat), room : Nat, csp : Nat, id : Nat]

(* The types, of the numbers of records too, which Ids bounds below.       *)
Types ==
    /\ discipline \in Disciplines
    /\ table \in [Tables -> HashTables]
    /\ rec \in Seq(Records) /\ tmpCtr \in Nat /\ freed \subseteq Nat
    /\ hist \in [Tables -> Nat]
    /\ op \in [Threads -> Ops] /\ ctl \in Controls
    /\ calls \in Nat /\ reports \in Nat /\ resets \in Nat
    /\ begun \in [Keys -> Nat] /\ made \in [Keys -> Nat] /\ madeHist \in Nat
    /\ since \in [made : [Keys -> Nat], hist : Nat]

(* Where the threads and MPI_Pcontrol stand. *)
Stands ==
    /\ \A t \in Threads : op[t].pc # "idle" => op[t].key \in Keys
    /\ ctl.pc # "idle" => op[Main].pc = "idle"
    /\ ctl.pc = "idle" <=> ctl.kind = "none"
    /\ ctl.pc \in Draining => ctl.kind = "reset"
    /\ ctl.pc \in Merging => ctl.kind = "report"
    /\ ctl.pc \notin {"idle", "end"} => ctl.todo # <<>>
    /\ ctl.pc \in {"idle", "rank", "alloc", "end"} => ctl.av = <<>>
    /\ ctl.pc \in {"insert", "addcount", "addtime"} => ctl.av # <<>>

(* Every pointer is to a record. *)
Pointers ==
    /\ freed \subseteq Ids
    /\ \A t \in Tables : Entries(table[t]) \subseteq Ids
    /\ \A t \in Threads : /\ op[t].csp \in Ids \cup {0}
                          /\ op[t].pc \in Linking \cup {"bump", "count", "time"}
                                => op[t].csp \in Ids
    /\ Range(ctl.av) \subseteq Ids
    /\ ctl.pc \in {"addcount", "addtime"} => ctl.csp \in Ids

(* Each record is in the chain of its key, no key twice. *)
Chained ==
    \A t \in Tables : \A i \in Buckets :
        \A j, l \in DOMAIN table[t].chain[i] :
            /\ Index(Key(table[t].chain[i][j])) = i
            /\ Key(table[t].chain[i][j]) = Key(table[t].chain[i][l]) => j = l

(* So will be the one that a call is about to link. *)
Placed == Chained /\ \A t \in Threads : op[t].pc \in Linking => Key(op[t].csp) = op[t].key

(* The numbers given so far are below the counter, but for the one that    *)
(* is being given.                                                         *)
Numbered ==
    /\ \A t \in Threads \ {Main} : op[t].pc = "idle"
    /\ \A p, q \in Ids : p # q => rec[p].tmpid # rec[q].tmpid
    /\ \A p \in Ids : \/ rec[p].tmpid < tmpCtr
                      \/ op[Main].pc = "number" /\ op[Main].csp = p /\ rec[p].tmpid = tmpCtr
    /\ op[Main].pc = "number" => op[Main].id = tmpCtr
    /\ ctl.pc = "insert" => ctl.id = tmpCtr

(* A record is in one table at most, and not freed while it is. *)
Owned ==
    /\ \A t, u \in Tables : t # u => Entries(table[t]) \cap Entries(table[u]) = {}
    /\ \A t \in Tables : Entries(table[t]) \cap freed = {}

Loose(t) == op[t].pc \in Linking

(* The record of a call under way: new and in no table, or in that of the  *)
(* thread.                                                                 *)
Held ==
    \A t \in Threads :
        /\ Loose(t) => /\ op[t].csp \notin freed
                       /\ \A u \in Tables : op[t].csp \notin Entries(table[u])
                       /\ \A u \in Threads : Loose(u) /\ op[u].csp = op[t].csp => u = t
        /\ op[t].pc \in Linking \cup {"create"} =>
               \A p \in Entries(table[t]) : Key(p) # op[t].key
        /\ op[t].pc \in {"bump", "count", "time"} =>
               op[t].csp \in Entries(table[t]) /\ Key(op[t].csp) = op[t].key

Counted ==
    \A t \in Tables :
        /\ ~BeingDrained(t) =>
               Size(table[t]) = table[t].count + IF BeingLinked(t) THEN 1 ELSE 0
        /\ BeingLinked(t) => op[t].seen = table[t].count

(* What the merge or the drain has collected. *)
Collected ==
    /\ Resetting => Quiet
    /\ ctl.pc = "gather" \/ ctl.pc \in Merging =>
           Range(ctl.av) \subseteq Entries(table[Current])
    /\ ctl.pc = "gather" /\ Resetting =>
           \A i \in 0 .. ctl.i - 1 : Range(table[Current].chain[i]) \subseteq Range(ctl.av)
    /\ ctl.pc = "free" =>
           /\ \A i \in 0 .. ctl.i - 1 : table[Current].chain[i] = <<>>
           /\ Entries(table[Current]) \subseteq Range(ctl.av)
    /\ ctl.pc \in {"zero", "release"} => \A i \in Buckets : table[Current].chain[i] = <<>>
    /\ ctl.pc = "release" => table[Current].count = 0
    /\ ctl.pc \in Draining =>
           \A t \in Tables \ {Current} : Entries(table[t]) \cap Range(ctl.av) = {}
    /\ ctl.pc = "insert" => \A p \in Entries(table[Rank]) : Key(p) # Key(Head(ctl.av))
    /\ ctl.pc \in {"addcount", "addtime"} =>
           ctl.csp \in Entries(table[Rank]) /\ Key(ctl.csp) = Key(Head(ctl.av))

NoLeak ==
    \A p \in Ids \ freed : \/ \E t \in Tables : p \in Entries(table[t])
                           \/ \E t \in Threads : Loose(t) /\ op[t].csp = p
                           \/ ctl.pc \in Draining /\ p \in Range(ctl.av)

Lengths(ht) == [i \in Buckets |-> Len(ht.chain[i])]
Fits ==
    /\ ctl.pc = "gather" =>
           /\ ctl.room = table[Current].count
           /\ Len(ctl.av) = SumFunctionOnSet(Lengths(table[Current]), 0 .. ctl.i - 1)
    /\ ctl.pc \notin {"alloc", "gather"} => Len(ctl.av) <= ctl.room

(* What a report has still to read.  Of a table, what its entry for k      *)
(* shows; its calls for k that have not been counted yet.                  *)
Distinct(s) == \A i, j \in 1 .. Len(s) : s[i] = s[j] => i = j
With(ht, r, k) == {p \in Entries(ht) : r[p].key = k}
CountAt(ht, r, k) == IF With(ht, r, k) = {} THEN 0 ELSE r[CHOOSE p \in With(ht, r, k) : TRUE].count
TimeAt(ht, r, k) == IF With(ht, r, k) = {} THEN 0 ELSE r[CHOOSE p \in With(ht, r, k) : TRUE].time
Counts(k) == [t \in Tables |-> CountAt(table[t], rec, k)]
Times(k) == [t \in Tables |-> TimeAt(table[t], rec, k)]
Flying(t, k) == op[t].key = k /\ op[t].pc \in {"create", "number", "link", "bump", "count"}
Flights(k) == [t \in Threads |-> IF Flying(t, k) THEN 1 ELSE 0]

(* The tables listed and still to come, and with them the current one as   *)
(* long as it, or the entry of it for k, has still to be read.             *)
Unread(k, S) == \/ ctl.pc \in {"rank", "alloc"}
                \/ ctl.pc = "gather" /\ Index(k) >= ctl.i
                \/ \E p \in S : Key(p) = k
Awaited(k, S) == IF ctl.todo = <<>> THEN {}
                 ELSE Range(Tail(ctl.todo)) \cup IF Unread(k, S) THEN {Current} ELSE {}
UncountedRecords == IF ctl.pc = "addtime" THEN Range(Tail(ctl.av)) ELSE Range(ctl.av)
AwaitedCounts(k) == Awaited(k, UncountedRecords)
AwaitedTimes(k) == Awaited(k, Range(ctl.av))

Bracketed(f, merged, S, low) ==
    /\ low <= merged + SumFunctionOnSet(f, S)
    /\ merged + SumFunctionOnSet(f, S) <= SumFunctionOnSet(f, Threads)

Merged(f) == IF ctl.pc = "rank" THEN 0 ELSE f[Rank]

Listing == Distinct(ctl.todo) /\ (ctl.pc = "end" => ctl.todo = <<>>)

Fresh == \A t \in Threads : Loose(t) => rec[op[t].csp].count = 0 /\ rec[op[t].csp].time = 0

Totals ==
    ~Resetting => \A k \in Keys :
        /\ \A t \in Threads :
             Counts(k)[t] = Times(k)[t] + IF op[t].pc = "time" /\ op[t].key = k THEN 1 ELSE 0
        /\ made[k] = SumFunctionOnSet(Times(k), Threads)
        /\ begun[k] = SumFunctionOnSet(Counts(k), Threads) + SumFunctionOnSet(Flights(k), Threads)

Emptying == Resetting => \A t \in Threads \ Range(ctl.todo) : Entries(table[t]) = {}

Gathered ==
    ctl.kind = "report" =>
        /\ Distinct(ctl.av)
        /\ ctl.pc = "gather" => \A p \in Range(ctl.av) : Index(Key(p)) < ctl.i

Bracketing ==
    ctl.kind = "report" => \A k \in Keys :
        /\ Bracketed(Counts(k), Merged(Counts(k)), AwaitedCounts(k), since.made[k])
        /\ Bracketed(Times(k), Merged(Times(k)), AwaitedTimes(k), since.made[k])

HistListing ==
    /\ madeHist = SumFunctionOnSet(hist, Threads)
    /\ ctl.kind = "report" => reports # 0
    /\ reports = 0 => hist[Rank] = 0
    /\ ctl.kind = "report" /\ reports = 1 => Bracketed(hist, hist[Rank], Range(ctl.todo), since.hist)

Inv == /\ Types /\ Stands /\ Pointers /\ Placed /\ Listing /\ HistListing
       /\ discipline = "funneled" => Numbered /\ Fits
       /\ discipline # "free" => /\ Owned /\ Held /\ Counted /\ Collected /\ NoLeak
                                 /\ Fresh /\ Totals /\ Emptying /\ Gathered /\ Bracketing

-----------------------------------------------------------------------------
(***************************************************************************)
(* Hash tables.                                                            *)
(***************************************************************************)
LEMMA IndexInBuckets == \A k \in Keys : Index(k) \in Buckets
  BY TablesAssumption DEF Index, Buckets

LEMMA EntriesFacts ==
    ASSUME NEW ht \in HashTables
    PROVE  /\ DOMAIN ht.chain = Buckets
           /\ \A i \in Buckets : ht.chain[i] \in Seq(Nat) /\ Range(ht.chain[i]) \subseteq Entries(ht)
           /\ \A p \in Entries(ht) : p \in Nat /\ \E i \in Buckets : p \in Range(ht.chain[i])
<1>1. /\ DOMAIN ht.chain = Buckets
      /\ \A i \in Buckets : ht.chain[i] \in Seq(Nat)
  BY DEF HashTables
<1>2. Entries(ht) = UNION {Range(ht.chain[i]) : i \in Buckets}
  BY <1>1 DEF Entries
<1>3. \A i \in Buckets : Range(ht.chain[i]) \subseteq Nat
  BY <1>1 DEF Range
<1>4. QED
  BY <1>1, <1>2, <1>3

(* The search finds an entry of the chain that matches, if there is one.   *)
LEMMA SearchFacts ==
    ASSUME NEW ht \in HashTables, NEW i \in Buckets, NEW same,
           \A p \in Range(ht.chain[i]) : p # 0
    PROVE  /\ Search(ht, i, same) = 0 => Range(ht.chain[i]) \cap same = {}
           /\ Search(ht, i, same) # 0 => Search(ht, i, same) \in Range(ht.chain[i]) \cap same
<1> DEFINE matches == {j \in DOMAIN ht.chain[i] : ht.chain[i][j] \in same}
           first == CHOOSE j \in matches : \A l \in matches : j <= l
<1>1. ht.chain[i] \in Seq(Nat) /\ matches \subseteq Nat
  BY DEF HashTables
<1>2. ASSUME matches # {} PROVE first \in matches
  <2>1. \E j \in matches : \A l \in matches : j <= l
    BY <1>1, <1>2, LeastNumber
  <2>2. QED
    BY <2>1
<1>3. Search(ht, i, same) = IF matches = {} THEN 0 ELSE ht.chain[i][first]
  BY DEF Search
<1>4. CASE matches = {}
  BY <1>3, <1>4 DEF Range
<1>5. CASE matches # {}
  <2>1. first \in DOMAIN ht.chain[i] /\ ht.chain[i][first] \in same
    BY <1>2, <1>5
  <2>2. ht.chain[i][first] \in Range(ht.chain[i])
    BY <2>1 DEF Range
  <2>3. QED
    BY <1>3, <1>5, <2>1, <2>2
<1>6. QED
  BY <1>4, <1>5

LEMMA PrependFacts ==
    ASSUME NEW s \in Seq(Nat), NEW p \in Nat
    PROVE  /\ <<p>> \o s \in Seq(Nat)
           /\ Len(<<p>> \o s) = Len(s) + 1
           /\ (<<p>> \o s)[1] = p
           /\ \A j \in 1 .. Len(s) : (<<p>> \o s)[j + 1] = s[j]
           /\ Range(<<p>> \o s) = Range(s) \cup {p}
<1>1. /\ <<p>> \o s \in Seq(Nat)
      /\ Len(<<p>> \o s) = Len(s) + 1
      /\ (<<p>> \o s)[1] = p
      /\ \A j \in 1 .. Len(s) : (<<p>> \o s)[j + 1] = s[j]
  OBVIOUS
<1>2. \A x \in Range(<<p>> \o s) : x = p \/ x \in Range(s)
  <2>1. SUFFICES ASSUME NEW j \in 1 .. Len(s) + 1, j # 1
                 PROVE  (<<p>> \o s)[j] \in Range(s)
    BY <1>1 DEF Range
  <2>2. j - 1 \in 1 .. Len(s) /\ (j - 1) + 1 = j
    BY <2>1
  <2>3. QED
    BY <1>1, <2>2 DEF Range
<1>3. p \in Range(<<p>> \o s)
  <2>1. 1 \in DOMAIN (<<p>> \o s)
    BY <1>1
  <2>2. QED
    BY <1>1, <2>1 DEF Range
<1>4. ASSUME NEW x \in Range(s)
      PROVE  x \in Range(<<p>> \o s)
  <2>1. PICK j \in 1 .. Len(s) : x = s[j]
    BY DEF Range
  <2>2. j + 1 \in DOMAIN (<<p>> \o s) /\ (<<p>> \o s)[j + 1] = x
    BY <1>1, <2>1
  <2>3. QED
    BY <2>2 DEF Range
<1>5. QED
  BY <1>1, <1>2, <1>3, <1>4

LEMMA LinkFacts ==
    ASSUME NEW ht \in HashTables, NEW i \in Buckets, NEW p \in Nat, NEW same,
           Search(ht, i, same) = 0, NEW new, new = Link(ht, i, p, same)
    PROVE  /\ new \in HashTables /\ new.count = ht.count
           /\ new.chain[i] = <<p>> \o ht.chain[i]
           /\ \A j \in Buckets \ {i} : new.chain[j] = ht.chain[j]
           /\ Entries(new) = Entries(ht) \cup {p}
<1>1. ht.chain[i] \in Seq(Nat)
  BY EntriesFacts
<1>2. /\ <<p>> \o ht.chain[i] \in Seq(Nat)
      /\ Range(<<p>> \o ht.chain[i]) = Range(ht.chain[i]) \cup {p}
  BY <1>1, PrependFacts
<1>3. PICK s \in Seq(Nat) : s = <<p>> \o ht.chain[i] /\ new = [ht EXCEPT !.chain[i] = s]
  BY <1>2 DEF Link
<1>4. /\ new \in HashTables /\ new.count = ht.count
      /\ new.chain[i] = <<p>> \o ht.chain[i]
      /\ \A j \in Buckets \ {i} : new.chain[j] = ht.chain[j]
  <2>1. PICK f : f = [ht.chain EXCEPT ![i] = s]
    OBVIOUS
  <2>2. ht.chain \in [Buckets -> Seq(Nat)]
    BY DEF HashTables
  <2>3. /\ f \in [Buckets -> Seq(Nat)] /\ f[i] = s
        /\ \A j \in Buckets \ {i} : f[j] = ht.chain[j]
    BY <2>1, <2>2
  <2>4. new = [ht EXCEPT !.chain = f]
    BY <1>3, <2>1
  <2>5. new \in HashTables /\ new.count = ht.count /\ new.chain = f
    BY <2>3, <2>4 DEF HashTables
  <2>6. QED
    BY <1>3, <2>3, <2>5
<1>5. \A x : x \in Entries(new) <=> x \in Entries(ht) \cup {p}
  <2>1. \A x \in Entries(ht) : \E j \in Buckets : x \in Range(ht.chain[j])
    BY EntriesFacts
  <2>2. \A x \in Entries(new) : \E j \in Buckets : x \in Range(new.chain[j])
    BY <1>4, EntriesFacts
  <2>3. \A j \in Buckets : /\ Range(ht.chain[j]) \subseteq Entries(ht)
                           /\ Range(new.chain[j]) \subseteq Entries(new)
    BY <1>4, EntriesFacts
  <2>4. \A j \in Buckets : Range(new.chain[j]) =
            IF j = i THEN Range(ht.chain[j]) \cup {p} ELSE Range(ht.chain[j])
    BY <1>2, <1>4
  <2>5. QED
    BY <2>1, <2>2, <2>3, <2>4
<1>6. QED
  BY <1>4, <1>5

LEMMA CountUp ==
    ASSUME NEW ht \in HashTables, NEW new, new = [ht EXCEPT !.count = @ + 1]
    PROVE  new \in HashTables /\ new.count = ht.count + 1 /\ new.chain = ht.chain
  BY DEF HashTables

LEMMA Emptied ==
    ASSUME NEW ht \in HashTables, NEW f \in [Buckets -> Seq(Nat)],
           NEW new, new = [ht EXCEPT !.chain = f, !.count = 0]
    PROVE  new \in HashTables /\ new.count = 0 /\ new.chain = f
  BY DEF HashTables

LEMMA InsertFacts ==
    ASSUME NEW ht \in HashTables, NEW i \in Buckets, NEW p \in Nat, NEW same,
           Search(ht, i, same) = 0, NEW new, new = Insert(ht, i, p, same)
    PROVE  /\ new \in HashTables /\ new.count = ht.count + 1
           /\ new.chain[i] = <<p>> \o ht.chain[i]
           /\ \A j \in Buckets \ {i} : new.chain[j] = ht.chain[j]
           /\ Entries(new) = Entries(ht) \cup {p}
<1>1. PICK mid : mid = Link(ht, i, p, same)
  OBVIOUS
<1>2. /\ mid \in HashTables /\ mid.count = ht.count
      /\ mid.chain[i] = <<p>> \o ht.chain[i]
      /\ \A j \in Buckets \ {i} : mid.chain[j] = ht.chain[j]
      /\ Entries(mid) = Entries(ht) \cup {p}
  BY <1>1, LinkFacts, SMTT(20)
<1>3. new = [mid EXCEPT !.count = @ + 1]
  BY <1>1 DEF Insert
<1>4. new \in HashTables /\ new.count = mid.count + 1 /\ new.chain = mid.chain
  BY <1>2, <1>3, CountUp
<1>5. Entries(new) = Entries(mid)
  BY <1>4 DEF Entries
<1>6. QED
  BY <1>2, <1>4, <1>5

(* A chain emptied. *)
Cleared(ht, i) == [ht EXCEPT !.chain[i] = <<>>]

LEMMA ClearFacts ==
    ASSUME NEW ht \in HashTables, NEW i \in Buckets, NEW new, new = Cleared(ht, i)
    PROVE  /\ new \in HashTables /\ new.count = ht.count /\ new.chain[i] = <<>>
           /\ \A j \in Buckets \ {i} : new.chain[j] = ht.chain[j]
           /\ Entries(new) \subseteq Entries(ht)
           /\ Entries(ht) \subseteq Entries(new) \cup Range(ht.chain[i])
<1>1. /\ new \in HashTables /\ new.count = ht.count /\ new.chain[i] = <<>>
      /\ \A j \in Buckets \ {i} : new.chain[j] = ht.chain[j]
  <2>1. /\ ht.chain \in [Buckets -> Seq(Nat)] /\ ht.count \in Nat
        /\ ht = [chain |-> ht.chain, count |-> ht.count]
    BY DEF HashTables
  <2>2. new = [chain |-> [ht.chain EXCEPT ![i] = <<>>], count |-> ht.count]
    BY <2>1 DEF Cleared
  <2>3. <<>> \in Seq(Nat)
    OBVIOUS
  <2>4. [ht.chain EXCEPT ![i] = <<>>] \in [Buckets -> Seq(Nat)]
    BY <2>1, <2>3
  <2>5. /\ new.chain = [ht.chain EXCEPT ![i] = <<>>] /\ new.count = ht.count
        /\ new \in HashTables
    BY <2>1, <2>2, <2>4 DEF HashTables
  <2>6. QED
    BY <2>1, <2>5
<1>2. \A j \in Buckets : Range(new.chain[j]) =
            IF j = i THEN {} ELSE Range(ht.chain[j])
  BY <1>1 DEF Range
<1>3. \A x \in Entries(ht) : \E j \in Buckets : x \in Range(ht.chain[j])
  BY EntriesFacts
<1>4. \A x \in Entries(new) : \E j \in Buckets : x \in Range(new.chain[j])
  BY <1>1, EntriesFacts
<1>5. \A j \in Buckets : /\ Range(ht.chain[j]) \subseteq Entries(ht)
                         /\ Range(new.chain[j]) \subseteq Entries(new)
  BY <1>1, EntriesFacts
<1>6. QED
  BY <1>1, <1>2, <1>3, <1>4, <1>5

LEMMA EmptyFacts ==
    ASSUME NEW ht \in HashTables, \A i \in Buckets : ht.chain[i] = <<>>
    PROVE  Entries(ht) = {} /\ Size(ht) = 0
<1>1. \A i \in Buckets : Range(ht.chain[i]) = {}
  BY DEF Range
<1>2. Entries(ht) = {}
  BY <1>1, EntriesFacts
<1>3. Size(ht) = SumFunctionOnSet(Lengths(ht), Buckets)
  BY EntriesFacts DEF Size, Lengths
<1>4. IsFiniteSet(Buckets)
  BY TablesAssumption, FS_Interval DEF Buckets
<1>5. \A i \in Buckets : Lengths(ht)[i] = 0
  BY DEF Lengths
<1>6. QED
  BY <1>2, <1>3, <1>4, <1>5, SumZero

LEMMA DrainedFacts ==
    ASSUME NEW ht \in HashTables
    PROVE  /\ Drained(ht) \in HashTables /\ Drained(ht).count = 0
           /\ \A i \in Buckets : Drained(ht).chain[i] = <<>>
           /\ Entries(Drained(ht)) = {} /\ Size(Drained(ht)) = 0
<1>1. /\ Drained(ht) \in HashTables /\ Drained(ht).count = 0
      /\ \A i \in Buckets : Drained(ht).chain[i] = <<>>
  <2>1. [i \in Buckets |-> <<>>] \in [Buckets -> Seq(Nat)]
    OBVIOUS
  <2>2. PICK f : f = [i \in Buckets |-> <<>>]
    OBVIOUS
  <2>3. Drained(ht) = [ht EXCEPT !.chain = f, !.count = 0] /\ f \in [Buckets -> Seq(Nat)]
    BY <2>1, <2>2, EntriesFacts DEF Drained
  <2>4. /\ Drained(ht) \in HashTables /\ Drained(ht).count = 0
        /\ Drained(ht).chain = f
    BY <2>3, Emptied
  <2>5. QED
    BY <2>2, <2>4
<1>2. QED
  BY <1>1, EmptyFacts

LEMMA OpenFacts ==
    /\ Open(TableSize) \in HashTables /\ Open(TableSize).count = 0
    /\ \A i \in Buckets : Open(TableSize).chain[i] = <<>>
    /\ Entries(Open(TableSize)) = {} /\ Size(Open(TableSize)) = 0
<1>1. /\ Open(TableSize) \in HashTables /\ Open(TableSize).count = 0
      /\ \A i \in Buckets : Open(TableSize).chain[i] = <<>>
  BY DEF Open, HashTables, Buckets
<1>2. QED
  BY <1>1, EmptyFacts

(* A table that grew by an entry has one more. *)
LEMMA SizeGrows ==
    ASSUME NEW ht \in HashTables, NEW new \in HashTables, NEW i \in Buckets,
           Len(new.chain[i]) = Len(ht.chain[i]) + 1,
           \A j \in Buckets \ {i} : new.chain[j] = ht.chain[j]
    PROVE  Size(new) = Size(ht) + 1
<1>1. /\ Size(ht) = SumFunctionOnSet(Lengths(ht), Buckets)
      /\ Size(new) = SumFunctionOnSet(Lengths(new), Buckets)
  BY EntriesFacts DEF Size, Lengths
<1>2. IsFiniteSet(Buckets)
  BY TablesAssumption, FS_Interval DEF Buckets
<1>3. \A j \in Buckets : ht.chain[j] \in Seq(Nat) /\ new.chain[j] \in Seq(Nat)
  BY EntriesFacts
<1>4. /\ \A j \in Buckets : Lengths(ht)[j] \in Nat /\ Lengths(new)[j] \in Nat
      /\ \A j \in Buckets \ {i} : Lengths(ht)[j] = Lengths(new)[j]
      /\ Lengths(new)[i] = Lengths(ht)[i] + 1
  <2>1. \A j \in Buckets : Lengths(ht)[j] = Len(ht.chain[j]) /\ Lengths(new)[j] = Len(new.chain[j])
    BY DEF Lengths
  <2>2. \A j \in Buckets : Len(ht.chain[j]) \in Nat /\ Len(new.chain[j]) \in Nat
    BY <1>3
  <2>3. QED
    BY <2>1, <2>2
<1>5. SumFunctionOnSet(Lengths(new), Buckets) + Lengths(ht)[i] =
      SumFunctionOnSet(Lengths(ht), Buckets) + Lengths(new)[i]
  BY <1>2, <1>4, SumUpdate
<1>6. SumFunctionOnSet(Lengths(new), Buckets) \in Nat
        /\ SumFunctionOnSet(Lengths(ht), Buckets) \in Nat
  BY <1>2, <1>4, SumNat
<1>7. QED
  BY <1>1, <1>4, <1>5, <1>6

LEMMA SizeFacts ==
    ASSUME NEW ht \in HashTables
    PROVE  /\ Size(ht) \in Nat /\ Size(ht) = SumFunctionOnSet(Lengths(ht), Buckets)
           /\ \A n \in 0 .. TableSize :
                SumFunctionOnSet(Lengths(ht), 0 .. n - 1) \in Nat
           /\ SumFunctionOnSet(Lengths(ht), 0 .. -1) = 0
           /\ \A n \in Buckets :
                SumFunctionOnSet(Lengths(ht), 0 .. n) =
                SumFunctionOnSet(Lengths(ht), 0 .. n - 1) + Len(ht.chain[n])
<1>1. Size(ht) = SumFunctionOnSet(Lengths(ht), Buckets)
  BY EntriesFacts DEF Size, Lengths
<1>2. \A j \in Buckets : Lengths(ht)[j] \in Nat /\ Lengths(ht)[j] = Len(ht.chain[j])
  BY EntriesFacts DEF Lengths
<1>3. \A n \in 0 .. TableSize : IsFiniteSet(0 .. n - 1) /\ 0 .. n - 1 \subseteq Buckets
  BY TablesAssumption, FS_Interval DEF Buckets
<1>4. IsFiniteSet(Buckets)
  BY TablesAssumption, FS_Interval DEF Buckets
<1>5. SumFunctionOnSet(Lengths(ht), Buckets) \in Nat
  BY <1>2, <1>4, SumNat
<1>6. ASSUME NEW n \in 0 .. TableSize
      PROVE  SumFunctionOnSet(Lengths(ht), 0 .. n - 1) \in Nat
  <2>1. \A j \in 0 .. n - 1 : Lengths(ht)[j] \in Nat
    BY <1>2, <1>3
  <2>2. QED
    BY <1>3, <2>1, SumNat
<1>7. 0 .. -1 = {}
  OBVIOUS
<1>8. ASSUME NEW n \in Buckets
      PROVE  SumFunctionOnSet(Lengths(ht), 0 .. n) =
             SumFunctionOnSet(Lengths(ht), 0 .. n - 1) + Len(ht.chain[n])
  <2>1. n + 1 \in 0 .. TableSize /\ (n + 1) - 1 = n /\ n \in 0 .. n /\ n \in 0 .. TableSize
    BY TablesAssumption DEF Buckets
  <2>2. IsFiniteSet(0 .. n) /\ 0 .. n \subseteq Buckets
    BY <1>3, <2>1
  <2>3. (0 .. n) \ {n} = 0 .. n - 1
    BY <2>1
  <2>4. SumFunctionOnSet(Lengths(ht), 0 .. n) =
        Lengths(ht)[n] + SumFunctionOnSet(Lengths(ht), (0 .. n) \ {n})
    <3>1. PICK f, S : f = Lengths(ht) /\ S = 0 .. n
      OBVIOUS
    <3>2. IsFiniteSet(S) /\ n \in S /\ \A j \in S : f[j] \in Nat
      BY <1>2, <2>1, <2>2, <3>1
    <3>3. SumFunctionOnSet(f, S) = f[n] + SumFunctionOnSet(f, S \ {n})
      BY <3>2, SumTakeOut
    <3>4. QED
      BY <3>1, <3>3
  <2>5. Lengths(ht)[n] \in Nat /\ SumFunctionOnSet(Lengths(ht), 0 .. n - 1) \in Nat
    BY <1>2, <1>6, <2>1
  <2>6. SumFunctionOnSet(Lengths(ht), 0 .. n) =
        Lengths(ht)[n] + SumFunctionOnSet(Lengths(ht), 0 .. n - 1)
    BY <2>3, <2>4
  <2>7. QED
    BY <1>2, <2>5, <2>6
<1>9. QED
  BY <1>1, <1>5, <1>6, <1>7, <1>8, SumEmpty

-----------------------------------------------------------------------------
(***************************************************************************)
(* Types and pointers.                                                     *)
(***************************************************************************)
LEMMA ListedFacts ==
    /\ Listed \in Seq(Threads) /\ Len(Listed) \in Nat \ {0} /\ Listed # <<>>
    /\ Range(Listed) = Threads
    /\ \A i, j \in 1 .. Len(Listed) : Listed[i] = Listed[j] => i = j
<1>1. PICK n \in Nat : n = Cardinality(Threads) /\ ExistsBijection(1 .. n, Threads)
  BY TablesAssumption, FS_CardinalityType
<1>2. PICK f \in [1 .. n -> Threads] : IsInjective(f)
  BY <1>1 DEF ExistsBijection, Bijection, Injection
<1>3. Listed \in [1 .. n -> Threads] /\ IsInjective(Listed)
  BY <1>1, <1>2 DEF Listed, SetToSeq
<1>4. IsFiniteSet(1 .. n) /\ Cardinality(1 .. n) = n
  BY <1>1, FS_Interval
<1>5. Listed \in Surjection(1 .. n, Threads)
  <2>1. Listed \in Injection(1 .. n, Threads)
    BY <1>3 DEF Injection
  <2>2. QED
    BY <1>1, <1>4, <2>1, TablesAssumption, FS_Injection
<1>6. Listed \in Seq(Threads) /\ Len(Listed) = n /\ DOMAIN Listed = 1 .. n
  BY <1>3
<1>7. Range(Listed) = Threads
  BY <1>3, <1>5, <1>6 DEF Surjection, Range
<1>8. n # 0
  <2>1. Main \in Range(Listed)
    BY <1>7, TablesAssumption
  <2>2. QED
    BY <2>1, <1>6 DEF Range
<1>9. QED
  BY <1>3, <1>6, <1>7, <1>8 DEF IsInjective

LEMMA TailFacts ==
    ASSUME NEW S, NEW s \in Seq(S), s # <<>>
    PROVE  /\ Head(s) \in S /\ Tail(s) \in Seq(S)
           /\ Len(s) \in Nat \ {0} /\ Len(Tail(s)) = Len(s) - 1
           /\ Len(s) = 1 <=> Tail(s) = <<>>
           /\ Head(s) = s[1] /\ \A i \in 1 .. Len(s) - 1 : Tail(s)[i] = s[i + 1]
<1>1. Len(s) \in Nat \ {0}
  OBVIOUS
<1>2. Head(s) = s[1] /\ Head(s) \in S
  BY <1>1
<1>3. /\ Tail(s) \in Seq(S) /\ Len(Tail(s)) = Len(s) - 1
      /\ \A i \in 1 .. Len(s) - 1 : Tail(s)[i] = s[i + 1]
  BY <1>1
<1>4. Tail(s) = <<>> <=> Len(Tail(s)) = 0
  <2>1. \A u \in Seq(S) : u = <<>> <=> Len(u) = 0
    OBVIOUS
  <2>2. QED
    BY <1>3, <2>1
<1>5. QED
  BY <1>1, <1>2, <1>3, <1>4

LEMMA InitTypes == Init => Types /\ Stands /\ Pointers
<1>1. SUFFICES ASSUME Init
               PROVE  Types /\ Stands /\ Pointers
  OBVIOUS
<1>2. \A t \in Tables : table[t] = Open(TableSize)
  BY <1>1 DEF Init
<1>3. table \in [Tables -> HashTables]
  BY <1>1, OpenFacts DEF Init
<1>4. Types
  BY <1>1, <1>3, TablesAssumption
     DEF Init, Types, Records, Ops, Controls, Idle, CtlIdle, Steps, CtlSteps, Zero, Buckets
<1>5. Stands
  BY <1>1 DEF Init, Stands, Idle, CtlIdle, Draining, Merging
<1>6. Pointers
  BY <1>1, <1>2, OpenFacts DEF Init, Pointers, Idle, CtlIdle, Linking, Range, Ids
<1>7. QED
  BY <1>4, <1>5, <1>6

(***************************************************************************)
(* What each step of a call does to the place where the thread stands.     *)
(***************************************************************************)
Others(t) == \A u \in Threads \ {t} : op'[u] = op[u]

LEMMA OpFields ==
    ASSUME NEW t \in Threads, op \in [Threads -> Ops]
    PROVE  /\ op[t].pc \in Steps /\ op[t].key \in Keys \cup {0} /\ op[t].csp \in Nat
           /\ op[t].id \in Nat /\ op[t].seen \in Nat
  BY DEF Ops

LEMMA SearchMoves ==
    ASSUME NEW t \in Threads, op \in [Threads -> Ops], NEW k \in Keys,
           NEW csp \in Nat, csp = Lookup(t, k), SearchCallsite(t, k)
    PROVE  /\ op' \in [Threads -> Ops] /\ Others(t)
           /\ op'[t].pc = (IF csp = 0 THEN "create" ELSE "count")
           /\ op'[t].csp = csp /\ op'[t].key = k
<1>1. PICK new : new = [Idle EXCEPT !.key = k, !.csp = csp,
                                    !.pc = IF csp = 0 THEN "create" ELSE "count"]
  OBVIOUS
<1>2. /\ new \in Ops /\ new.pc = (IF csp = 0 THEN "create" ELSE "count")
      /\ new.csp = csp /\ new.key = k
  BY <1>1 DEF Ops, Idle, Steps
<1>3. op' = [op EXCEPT ![t] = new]
  BY <1>1 DEF SearchCallsite
<1>4. QED
  BY <1>2, <1>3 DEF Others

LEMMA CreateMoves ==
    ASSUME NEW t \in Threads, op \in [Threads -> Ops], tmpCtr \in Nat,
           Len(rec) \in Nat, CreateCallsite(t)
    PROVE  /\ op' \in [Threads -> Ops] /\ Others(t)
           /\ op'[t].pc = "number" /\ op'[t].csp = Len(rec) + 1 /\ op'[t].id = tmpCtr
           /\ op'[t].key = op[t].key
<1>1. PICK n \in Nat : n = Len(rec) + 1
  OBVIOUS
<1>2. op' = [op EXCEPT ![t].pc = "number", ![t].csp = n, ![t].id = tmpCtr]
  BY <1>1 DEF CreateCallsite
<1>3. /\ op' \in [Threads -> Ops] /\ Others(t)
      /\ op'[t].pc = "number" /\ op'[t].csp = n /\ op'[t].id = tmpCtr
      /\ op'[t].key = op[t].key
  <2>1. PICK o : o = [op[t] EXCEPT !.pc = "number", !.csp = n, !.id = tmpCtr]
    OBVIOUS
  <2>2. op[t] \in Ops
    OBVIOUS
  <2>3. o \in Ops /\ o.pc = "number" /\ o.csp = n /\ o.id = tmpCtr /\ o.key = op[t].key
    BY <2>1, <2>2 DEF Ops, Steps
  <2>4. op' = [op EXCEPT ![t] = o]
    BY <1>2, <2>1
  <2>5. QED
    BY <2>3, <2>4 DEF Others
<1>4. QED
  BY <1>1, <1>3

LEMMA NumberMoves ==
    ASSUME NEW t \in Threads, op \in [Threads -> Ops], NumberCallsite(t)
    PROVE  /\ op' \in [Threads -> Ops] /\ Others(t)
           /\ op'[t].pc = "link" /\ op'[t].csp = op[t].csp /\ op'[t].key = op[t].key
  BY DEF NumberCallsite, Ops, Steps, Others

LEMMA LinkMoves ==
    ASSUME NEW t \in Threads, op \in [Threads -> Ops], table[t].count \in Nat,
           LinkCallsite(t)
    PROVE  /\ op' \in [Threads -> Ops] /\ Others(t)
           /\ op'[t].csp = op[t].csp /\ op'[t].key = op[t].key
           /\ \/ /\ Lookup(t, op[t].key) # 0 /\ op'[t].pc = "count" /\ UNCHANGED table
              \/ /\ Lookup(t, op[t].key) = 0 /\ op'[t].pc = "bump"
                 /\ op'[t].seen = table[t].count
                 /\ table' = [table EXCEPT ![t] = Link(@, Index(op[t].key), op[t].csp,
                                                       SameKey(op[t].key))]
<1>1. \/ /\ Lookup(t, op[t].key) # 0
         /\ op' = [op EXCEPT ![t].pc = "count"] /\ UNCHANGED table
      \/ /\ Lookup(t, op[t].key) = 0
         /\ op' = [op EXCEPT ![t].pc = "bump", ![t].seen = table[t].count]
         /\ table' = [table EXCEPT ![t] = Link(@, Index(op[t].key), op[t].csp,
                                               SameKey(op[t].key))]
  BY DEF LinkCallsite
<1>2. ASSUME op' = [op EXCEPT ![t].pc = "count"]
      PROVE  /\ op' \in [Threads -> Ops] /\ Others(t) /\ op'[t].pc = "count"
             /\ op'[t].csp = op[t].csp /\ op'[t].key = op[t].key
  BY <1>2 DEF Ops, Steps, Others
<1>3. PICK n \in Nat : n = table[t].count
  OBVIOUS
<1>4. ASSUME op' = [op EXCEPT ![t].pc = "bump", ![t].seen = n]
      PROVE  /\ op' \in [Threads -> Ops] /\ Others(t) /\ op'[t].pc = "bump"
             /\ op'[t].csp = op[t].csp /\ op'[t].key = op[t].key /\ op'[t].seen = n
  BY <1>4 DEF Ops, Steps, Others
<1>5. QED
  BY <1>1, <1>2, <1>3, <1>4

LEMMA BumpMoves ==
    ASSUME NEW t \in Threads, op \in [Threads -> Ops], BumpCount(t)
    PROVE  /\ op' \in [Threads -> Ops] /\ Others(t)
           /\ op'[t].pc = "count" /\ op'[t].csp = op[t].csp /\ op'[t].key = op[t].key
  BY DEF BumpCount, Ops, Steps, Others

LEMMA CountMoves ==
    ASSUME NEW t \in Threads, op \in [Threads -> Ops], UpdateCount(t)
    PROVE  /\ op' \in [Threads -> Ops] /\ Others(t)
           /\ op'[t].pc = "time" /\ op'[t].csp = op[t].csp /\ op'[t].key = op[t].key
<1>1. op' = [op EXCEPT ![t].pc = "time"]
  BY DEF UpdateCount
<1>2. QED
  BY <1>1 DEF Ops, Steps, Others

LEMMA TimeMoves ==
    ASSUME NEW t \in Threads, op \in [Threads -> Ops], UpdateTime(t)
    PROVE  /\ op' \in [Threads -> Ops] /\ Others(t)
           /\ op'[t].pc = "hist" /\ op'[t].csp = op[t].csp /\ op'[t].key = op[t].key
<1>1. op' = [op EXCEPT ![t].pc = "hist"]
  BY DEF UpdateTime
<1>2. QED
  BY <1>1 DEF Ops, Steps, Others

LEMMA HistMoves ==
    ASSUME NEW t \in Threads, op \in [Threads -> Ops], UpdateHist(t)
    PROVE  op' \in [Threads -> Ops] /\ Others(t) /\ op'[t] = Idle
<1>1. Idle \in Ops
  BY DEF Ops, Idle, Steps
<1>2. op' = [op EXCEPT ![t] = Idle]
  BY DEF UpdateHist
<1>3. QED
  BY <1>1, <1>2 DEF Others


(***************************************************************************)
(* The same of each step of MPI_Pcontrol.                                  *)
(***************************************************************************)
LEMMA ControlFields ==
    ASSUME ctl \in Controls
    PROVE  /\ ctl.pc \in CtlSteps /\ ctl.kind \in {"none", "report", "reset"}
           /\ ctl.todo \in Seq(Threads) /\ ctl.i \in Buckets /\ ctl.av \in Seq(Nat)
           /\ ctl.room \in Nat /\ ctl.csp \in Nat /\ ctl.id \in Nat
  BY DEF Controls

SameTask == ctl'.kind = ctl.kind /\ ctl'.todo = ctl.todo

LEMMA NewTask ==
    ASSUME NEW kind \in {"report", "reset"}, NEW todo \in Seq(Threads),
           NEW empty \in Seq(Nat), NEW c,
           c = [pc |-> "rank", kind |-> kind, todo |-> todo, i |-> 0, av |-> empty,
                room |-> 0, csp |-> 0, id |-> 0]
    PROVE  /\ c \in Controls /\ c.pc = "rank" /\ c.kind = kind
           /\ c.todo = todo /\ c.av = empty /\ c.i = 0
<1>1. 0 \in Buckets /\ "rank" \in CtlSteps /\ kind \in {"none", "report", "reset"}
  BY TablesAssumption DEF CtlSteps, Buckets
<1>2. QED
  BY <1>1 DEF Controls

LEMMA StartMoves ==
    ASSUME NEW kind \in {"report", "reset"},
           (kind = "report" /\ StartReport) \/ (kind = "reset" /\ StartReset)
    PROVE  /\ ctl' \in Controls /\ ctl'.pc = "rank" /\ ctl'.kind = kind
           /\ ctl'.todo = Listed /\ ctl'.av = <<>> /\ ctl'.i = 0
<1>1. PICK todo \in Seq(Threads) : todo = Listed
  BY ListedFacts
<1>2. <<>> \in Seq(Nat)
  OBVIOUS
<1>3. PICK empty \in Seq(Nat) : empty = <<>>
  BY <1>2
<1>4. ctl' = [pc |-> "rank", kind |-> kind, todo |-> todo, i |-> 0, av |-> empty,
              room |-> 0, csp |-> 0, id |-> 0]
  <2>1. ctl' = [CtlIdle EXCEPT !.pc = "rank", !.kind = kind, !.todo = Listed]
    BY DEF StartReport, StartReset
  <2>2. QED
    BY <1>1, <1>3, <2>1 DEF CtlIdle
<1>5. /\ ctl' \in Controls /\ ctl'.pc = "rank" /\ ctl'.kind = kind
      /\ ctl'.todo = todo /\ ctl'.av = empty /\ ctl'.i = 0
  BY <1>4, NewTask
<1>6. QED
  BY <1>1, <1>3, <1>5

LEMMA RankMoves ==
    ASSUME ctl \in Controls, DrainRank
    PROVE  /\ ctl' \in Controls /\ SameTask /\ ctl'.pc = "alloc" /\ ctl'.av = ctl.av
<1>1. ctl' = [ctl EXCEPT !.pc = "alloc"]
  BY DEF DrainRank
<1>2. QED
  BY <1>1 DEF Controls, CtlSteps, SameTask

LEMMA AllocMoves ==
    ASSUME ctl \in Controls, table[Current].count \in Nat, GatherAlloc
    PROVE  /\ ctl' \in Controls /\ SameTask /\ ctl'.pc = "gather" /\ ctl'.i = 0
           /\ ctl'.av = <<>> /\ ctl'.room = table[Current].count
<1>1. PICK room \in Nat : room = table[Current].count
  OBVIOUS
<1>2. <<>> \in Seq(Nat) /\ 0 \in Buckets
  BY TablesAssumption DEF Buckets
<1>3. PICK empty \in Seq(Nat) : empty = <<>>
  BY <1>2
<1>4. ctl' = [ctl EXCEPT !.pc = "gather", !.i = 0, !.av = empty, !.room = room]
  BY <1>1, <1>3 DEF GatherAlloc
<1>5. /\ ctl' \in Controls /\ SameTask /\ ctl'.pc = "gather" /\ ctl'.i = 0
      /\ ctl'.av = empty /\ ctl'.room = room
  BY <1>2, <1>4 DEF Controls, CtlSteps, SameTask
<1>6. QED
  BY <1>1, <1>3, <1>5

(* Where a loop over the buckets goes on. *)
Goes(pc, next) ==
    \/ ctl.i + 1 \in Buckets /\ ctl'.pc = pc /\ ctl'.i = ctl.i + 1
    \/ ctl.i + 1 = TableSize /\ ctl'.pc = next /\ ctl'.i = 0

LEMMA GatherMoves ==
    ASSUME ctl \in Controls, NEW chain \in Seq(Nat), chain = table[Current].chain[ctl.i],
           GatherChain
    PROVE  /\ ctl' \in Controls /\ SameTask /\ ctl'.room = ctl.room
           /\ ctl'.av = ctl.av \o chain
           /\ Goes("gather", IF Resetting THEN "free" ELSE "record")
<1>1. PICK next \in {"free", "record"} : next = IF Resetting THEN "free" ELSE "record"
  OBVIOUS
<1>2. PICK o : o = Onward("gather", next)
  OBVIOUS
<1>3. /\ o.pc \in {"gather", next} /\ o.i \in Buckets
      /\ \/ ctl.i + 1 \in Buckets /\ o.pc = "gather" /\ o.i = ctl.i + 1
         \/ ctl.i + 1 = TableSize /\ o.pc = next /\ o.i = 0
  BY <1>2, ControlFields, TablesAssumption DEF Onward, Buckets
<1>4. PICK av \in Seq(Nat) : av = ctl.av \o chain
  <2>1. ctl.av \in Seq(Nat)
    BY ControlFields
  <2>2. ctl.av \o chain \in Seq(Nat)
    BY <2>1
  <2>3. QED
    BY <2>2
<1>5. ctl' = [ctl EXCEPT !.av = av, !.pc = o.pc, !.i = o.i]
  BY <1>1, <1>2, <1>4 DEF GatherChain
<1>6. /\ ctl' \in Controls /\ SameTask /\ ctl'.room = ctl.room
      /\ ctl'.av = av /\ ctl'.pc = o.pc /\ ctl'.i = o.i
  <2>1. o.pc \in CtlSteps
    BY <1>1, <1>3 DEF CtlSteps
  <2>2. QED
    BY <1>3, <1>5, <2>1 DEF Controls, SameTask
<1>7. QED
  BY <1>1, <1>3, <1>4, <1>6 DEF Goes

LEMMA FreeMoves ==
    ASSUME ctl \in Controls, FreeChain
    PROVE  /\ ctl' \in Controls /\ SameTask /\ ctl'.av = ctl.av /\ ctl'.room = ctl.room
           /\ Goes("free", "zero")
<1>1. PICK o : o = Onward("free", "zero")
  OBVIOUS
<1>2. /\ o.pc \in CtlSteps /\ o.i \in Buckets
      /\ \/ ctl.i + 1 \in Buckets /\ o.pc = "free" /\ o.i = ctl.i + 1
         \/ ctl.i + 1 = TableSize /\ o.pc = "zero" /\ o.i = 0
  BY <1>1, ControlFields, TablesAssumption DEF Onward, Buckets, CtlSteps
<1>3. ctl' = [ctl EXCEPT !.pc = o.pc, !.i = o.i]
  BY <1>1 DEF FreeChain
<1>4. /\ ctl' \in Controls /\ SameTask /\ ctl'.av = ctl.av /\ ctl'.room = ctl.room
      /\ ctl'.pc = o.pc /\ ctl'.i = o.i
  BY <1>2, <1>3 DEF Controls, SameTask
<1>5. QED
  BY <1>2, <1>4 DEF Goes

LEMMA ZeroMoves ==
    ASSUME ctl \in Controls, ZeroCount
    PROVE  /\ ctl' \in Controls /\ SameTask /\ ctl'.pc = "release" /\ ctl'.av = ctl.av
           /\ ctl'.room = ctl.room
<1>1. ctl' = [ctl EXCEPT !.pc = "release"]
  BY DEF ZeroCount
<1>2. QED
  BY <1>1 DEF Controls, CtlSteps, SameTask

LEMMA TableMoves ==
    ASSUME ctl \in Controls, ctl.todo # <<>>, ctl' = NextTable(ctl)
    PROVE  /\ ctl' \in Controls /\ ctl'.kind = ctl.kind /\ ctl'.todo = Tail(ctl.todo)
           /\ ctl'.av = <<>> /\ ctl'.room = ctl.room
           /\ ctl'.pc = IF Tail(ctl.todo) = <<>> THEN "end" ELSE "alloc"
<1>1. /\ Tail(ctl.todo) \in Seq(Threads)
      /\ Len(ctl.todo) = 1 <=> Tail(ctl.todo) = <<>>
  BY ControlFields, TailFacts
<1>2. PICK todo \in Seq(Threads) : todo = Tail(ctl.todo)
  BY <1>1
<1>3. <<>> \in Seq(Nat)
  OBVIOUS
<1>4. PICK empty \in Seq(Nat) : empty = <<>>
  BY <1>3
<1>5. PICK pc \in {"end", "alloc"} : pc = IF Tail(ctl.todo) = <<>> THEN "end" ELSE "alloc"
  OBVIOUS
<1>6. ctl' = [ctl EXCEPT !.todo = todo, !.av = empty, !.pc = pc]
  BY <1>1, <1>2, <1>4, <1>5 DEF NextTable
<1>7. /\ ctl' \in Controls /\ ctl'.kind = ctl.kind /\ ctl'.todo = todo
      /\ ctl'.av = empty /\ ctl'.room = ctl.room /\ ctl'.pc = pc
  BY <1>6 DEF Controls, CtlSteps
<1>8. QED
  BY <1>2, <1>4, <1>5, <1>7

LEMMA FindMoves ==
    ASSUME ctl \in Controls, tmpCtr \in Nat, NEW csp \in Nat,
           csp = Lookup(Rank, Key(Head(ctl.av))), FindInRank
    PROVE  /\ ctl' \in Controls /\ SameTask /\ ctl'.av = ctl.av /\ ctl'.room = ctl.room
           /\ ctl'.csp = csp /\ ctl'.id = tmpCtr
           /\ ctl'.pc = IF csp = 0 THEN "insert" ELSE "addcount"
<1>1. PICK pc \in {"insert", "addcount"} : pc = IF csp = 0 THEN "insert" ELSE "addcount"
  OBVIOUS
<1>2. ctl' = [ctl EXCEPT !.csp = csp, !.id = tmpCtr, !.pc = pc]
  BY <1>1 DEF FindInRank
<1>3. /\ ctl' \in Controls /\ SameTask /\ ctl'.av = ctl.av /\ ctl'.room = ctl.room
      /\ ctl'.csp = csp /\ ctl'.id = tmpCtr /\ ctl'.pc = pc
  BY <1>2 DEF Controls, CtlSteps, SameTask
<1>4. QED
  BY <1>1, <1>3

LEMMA InsertMoves ==
    ASSUME ctl \in Controls, Len(rec) \in Nat, InsertInRank
    PROVE  /\ ctl' \in Controls /\ SameTask /\ ctl'.av = ctl.av /\ ctl'.room = ctl.room
           /\ ctl'.csp = Len(rec) + 1 /\ ctl'.pc = "addcount"
<1>1. PICK n \in Nat : n = Len(rec) + 1
  OBVIOUS
<1>2. ctl' = [ctl EXCEPT !.csp = n, !.pc = "addcount"]
  BY <1>1 DEF InsertInRank
<1>3. /\ ctl' \in Controls /\ SameTask /\ ctl'.av = ctl.av /\ ctl'.room = ctl.room
      /\ ctl'.csp = n /\ ctl'.pc = "addcount"
  BY <1>2 DEF Controls, CtlSteps, SameTask
<1>4. QED
  BY <1>1, <1>3

LEMMA MergeCountMoves ==
    ASSUME ctl \in Controls, MergeCount
    PROVE  /\ ctl' \in Controls /\ SameTask /\ ctl'.av = ctl.av /\ ctl'.room = ctl.room
           /\ ctl'.csp = ctl.csp /\ ctl'.pc = "addtime"
<1>1. ctl' = [ctl EXCEPT !.pc = "addtime"]
  BY DEF MergeCount
<1>2. QED
  BY <1>1 DEF Controls, CtlSteps, SameTask

LEMMA MergeTimeMoves ==
    ASSUME ctl \in Controls, ctl.av # <<>>, MergeTime
    PROVE  /\ ctl' \in Controls /\ SameTask /\ ctl'.av = Tail(ctl.av)
           /\ ctl'.room = ctl.room /\ ctl'.pc = "record"
<1>1. Tail(ctl.av) \in Seq(Nat)
  BY ControlFields, TailFacts
<1>2. PICK av \in Seq(Nat) : av = Tail(ctl.av)
  BY <1>1
<1>3. ctl' = [ctl EXCEPT !.pc = "record", !.av = av]
  BY <1>2 DEF MergeTime
<1>4. /\ ctl' \in Controls /\ SameTask /\ ctl'.av = av
      /\ ctl'.room = ctl.room /\ ctl'.pc = "record"
  BY <1>3 DEF Controls, CtlSteps, SameTask
<1>5. QED
  BY <1>2, <1>4

LEMMA EndMoves ==
    ASSUME EndControl
    PROVE  /\ ctl' \in Controls /\ ctl'.pc = "idle" /\ ctl'.kind = "none"
           /\ ctl'.todo = <<>> /\ ctl'.av = <<>> /\ ctl'.room = 0
  BY TablesAssumption DEF EndControl, CtlIdle, Controls, CtlSteps, Buckets

(***************************************************************************)
(* Records.                                                                *)
(***************************************************************************)
LEMMA RecFields ==
    ASSUME rec \in Seq(Records)
    PROVE  /\ Len(rec) \in Nat /\ Ids \subseteq Nat \ {0}
           /\ \A p \in Ids : /\ rec[p] \in Records /\ Key(p) \in Keys /\ rec[p].key = Key(p)
                             /\ rec[p].count \in Nat /\ rec[p].time \in Nat
                             /\ rec[p].tmpid \in Nat
<1>1. Len(rec) \in Nat /\ Ids \subseteq Nat \ {0}
  BY DEF Ids
<1>2. \A p \in Ids : rec[p] \in Records
  BY DEF Ids
<1>3. QED
  BY <1>1, <1>2 DEF Records, Key

(* The records keep what tells them apart. *)
RecKept ==
    /\ rec' \in Seq(Records) /\ Ids' = Ids
    /\ \A p \in Ids : Key(p)' = Key(p) /\ rec'[p].tmpid = rec[p].tmpid

LEMMA RecSame ==
    ASSUME rec \in Seq(Records), UNCHANGED rec
    PROVE  RecKept
  BY DEF RecKept, Ids, Key

LEMMA RecCount ==
    ASSUME rec \in Seq(Records), NEW p \in Ids, NEW n \in Nat,
           rec' = [rec EXCEPT ![p].count = n]
    PROVE  /\ RecKept /\ rec'[p].count = n /\ \A q \in Ids \ {p} : rec'[q] = rec[q]
           /\ \A q \in Ids : rec'[q].time = rec[q].time
<1>1. rec[p] \in Records /\ p \in 1 .. Len(rec)
  BY RecFields DEF Ids
<1>2. PICK r : r = [rec[p] EXCEPT !.count = n]
  OBVIOUS
<1>3. /\ r \in Records /\ r.count = n /\ r.key = rec[p].key
      /\ r.tmpid = rec[p].tmpid /\ r.time = rec[p].time
  BY <1>1, <1>2 DEF Records
<1>4. rec' = [rec EXCEPT ![p] = r]
  BY <1>2
<1>5. /\ rec' \in Seq(Records) /\ Len(rec') = Len(rec) /\ rec'[p] = r
      /\ \A q \in 1 .. Len(rec) \ {p} : rec'[q] = rec[q]
  BY <1>1, <1>3, <1>4
<1>6. QED
  BY <1>1, <1>3, <1>5 DEF RecKept, Ids, Key

LEMMA RecTime ==
    ASSUME rec \in Seq(Records), NEW p \in Ids, NEW n \in Nat,
           rec' = [rec EXCEPT ![p].time = n]
    PROVE  /\ RecKept /\ rec'[p].time = n /\ \A q \in Ids \ {p} : rec'[q] = rec[q]
           /\ \A q \in Ids : rec'[q].count = rec[q].count
<1>1. rec[p] \in Records /\ p \in 1 .. Len(rec)
  BY RecFields DEF Ids
<1>2. PICK r : r = [rec[p] EXCEPT !.time = n]
  OBVIOUS
<1>3. /\ r \in Records /\ r.time = n /\ r.key = rec[p].key
      /\ r.tmpid = rec[p].tmpid /\ r.count = rec[p].count
  BY <1>1, <1>2 DEF Records
<1>4. rec' = [rec EXCEPT ![p] = r]
  BY <1>2
<1>5. /\ rec' \in Seq(Records) /\ Len(rec') = Len(rec) /\ rec'[p] = r
      /\ \A q \in 1 .. Len(rec) \ {p} : rec'[q] = rec[q]
  BY <1>1, <1>3, <1>4
<1>6. QED
  BY <1>1, <1>3, <1>5 DEF RecKept, Ids, Key

(* A new record is behind the others. *)
RecAdded(k, id) ==
    /\ rec' \in Seq(Records) /\ Len(rec') = Len(rec) + 1 /\ Ids' = Ids \cup {Len(rec) + 1}
    /\ Len(rec) + 1 \notin Ids
    /\ \A p \in Ids : /\ Key(p)' = Key(p) /\ rec'[p].tmpid = rec[p].tmpid
                      /\ rec'[p].count = rec[p].count /\ rec'[p].time = rec[p].time
    /\ rec'[Len(rec) + 1].key = k /\ rec'[Len(rec) + 1].tmpid = id
    /\ rec'[Len(rec) + 1].count = 0 /\ rec'[Len(rec) + 1].time = 0

LEMMA RecNew ==
    ASSUME rec \in Seq(Records), NEW k \in Keys, NEW id \in Nat,
           rec' = Append(rec, NewRecord(k, id))
    PROVE  RecAdded(k, id)
<1>1. PICK r \in Records : /\ r = NewRecord(k, id)
                           /\ r.key = k /\ r.tmpid = id /\ r.count = 0 /\ r.time = 0
  <2>1. PICK r : r = [key |-> k, count |-> 0, time |-> 0, tmpid |-> id]
    OBVIOUS
  <2>2. r \in Records /\ r.key = k /\ r.tmpid = id /\ r.count = 0 /\ r.time = 0
    BY <2>1 DEF Records
  <2>3. QED
    BY <2>1, <2>2 DEF NewRecord
<1>2. /\ rec' \in Seq(Records) /\ Len(rec') = Len(rec) + 1 /\ Len(rec) \in Nat
      /\ \A p \in 1 .. Len(rec) : rec'[p] = rec[p]
      /\ rec'[Len(rec) + 1] = r
  BY <1>1
<1>3. 1 .. Len(rec') = 1 .. Len(rec) \cup {Len(rec) + 1} /\ Len(rec) + 1 \notin 1 .. Len(rec)
  BY <1>2
<1>4. QED
  BY <1>1, <1>2, <1>3 DEF RecAdded, Ids, Key

(* What a search finds is an entry of the table with the key searched for. *)
LEMMA LookupFinds ==
    ASSUME Types, Pointers, NEW t \in Tables, NEW k \in Keys
    PROVE  /\ Lookup(t, k) \in Nat
           /\ Lookup(t, k) # 0 => /\ Lookup(t, k) \in Entries(table[t]) /\ Lookup(t, k) \in Ids
                                  /\ Key(Lookup(t, k)) = k
           /\ Lookup(t, k) = 0 => \A p \in Range(table[t].chain[Index(k)]) : Key(p) # k
<1>1. table[t] \in HashTables /\ Index(k) \in Buckets /\ Ids \subseteq Nat \ {0}
  BY IndexInBuckets, RecFields DEF Types
<1>2. Range(table[t].chain[Index(k)]) \subseteq Entries(table[t])
  BY <1>1, EntriesFacts
<1>3. Entries(table[t]) \subseteq Ids
  BY DEF Pointers
<1>4. \A p \in Range(table[t].chain[Index(k)]) : p # 0
  BY <1>1, <1>2, <1>3
<1>5. /\ Lookup(t, k) = 0 => Range(table[t].chain[Index(k)]) \cap SameKey(k) = {}
      /\ Lookup(t, k) # 0 =>
            Lookup(t, k) \in Range(table[t].chain[Index(k)]) \cap SameKey(k)
  BY <1>1, <1>4, SearchFacts DEF Lookup
<1>6. \A p \in Ids : p \in SameKey(k) <=> Key(p) = k
  BY DEF SameKey, Ids, Types
<1>7. Lookup(t, k) # 0 => /\ Lookup(t, k) \in Entries(table[t]) /\ Lookup(t, k) \in Ids
                          /\ Key(Lookup(t, k)) = k
  BY <1>2, <1>3, <1>5, <1>6
<1>8. Lookup(t, k) = 0 => \A p \in Range(table[t].chain[Index(k)]) : Key(p) # k
  BY <1>2, <1>3, <1>5, <1>6
<1>9. Lookup(t, k) \in Nat
  <2>1. CASE Lookup(t, k) = 0
    BY <2>1
  <2>2. CASE Lookup(t, k) # 0
    <3>1. Lookup(t, k) \in Ids
      BY <1>7, <2>2
    <3>2. Ids \subseteq Nat
      BY <1>1
    <3>3. QED
      BY <3>1, <3>2
  <2>3. QED
    BY <2>1, <2>2
<1>10. QED
  BY <1>7, <1>8, <1>9

LEMMA PlacedFacts ==
    ASSUME Types, Placed, NEW t \in Tables
    PROVE  /\ \A p \in Entries(table[t]) : p \in Range(table[t].chain[Index(Key(p))])
           /\ \A p, q \in Entries(table[t]) : Key(p) = Key(q) => p = q
           /\ \A i \in Buckets : \A j, l \in DOMAIN table[t].chain[i] :
                table[t].chain[i][j] = table[t].chain[i][l] => j = l
<1>1. table[t] \in HashTables
  BY DEF Types
<1>2. \A p \in Entries(table[t]) : \E i \in Buckets : p \in Range(table[t].chain[i])
  BY <1>1, EntriesFacts
<1>3. \A i \in Buckets : \A j, l \in DOMAIN table[t].chain[i] :
         /\ Index(Key(table[t].chain[i][j])) = i
         /\ Key(table[t].chain[i][j]) = Key(table[t].chain[i][l]) => j = l
  BY DEF Placed, Chained
<1>4. \A i \in Buckets : \A p, q \in Range(table[t].chain[i]) :
         Index(Key(p)) = i /\ (Key(p) = Key(q) => p = q)
  <2>1. SUFFICES ASSUME NEW i \in Buckets, NEW p \in Range(table[t].chain[i]),
                        NEW q \in Range(table[t].chain[i])
                 PROVE  Index(Key(p)) = i /\ (Key(p) = Key(q) => p = q)
    OBVIOUS
  <2>2. PICK j, l \in DOMAIN table[t].chain[i] :
             p = table[t].chain[i][j] /\ q = table[t].chain[i][l]
    BY <2>1 DEF Range
  <2>3. QED
    BY <1>3, <2>2
<1>5. \A p \in Entries(table[t]) : /\ p \in Range(table[t].chain[Index(Key(p))])
                                    /\ Index(Key(p)) \in Buckets
  BY <1>2, <1>4
<1>6. \A p, q \in Entries(table[t]) : Key(p) = Key(q) => p = q
  BY <1>4, <1>5
<1>7. \A i \in Buckets : \A j, l \in DOMAIN table[t].chain[i] :
         table[t].chain[i][j] = table[t].chain[i][l] => j = l
  BY <1>3
<1>8. QED
  BY <1>5, <1>6, <1>7

(* A search that finds nothing means that there is nothing. *)
LEMMA LookupMisses ==
    ASSUME Types, Pointers, Placed, NEW t \in Tables, NEW k \in Keys
    PROVE  /\ Lookup(t, k) = 0 => \A p \in Entries(table[t]) : Key(p) # k
           /\ \A p \in Entries(table[t]) : Key(p) = k => Lookup(t, k) = p
<1>1. \A p \in Entries(table[t]) : p \in Range(table[t].chain[Index(Key(p))])
  BY PlacedFacts
<1>2. Lookup(t, k) = 0 => \A p \in Entries(table[t]) : Key(p) # k
  BY <1>1, LookupFinds
<1>3. \A p, q \in Entries(table[t]) : Key(p) = Key(q) => p = q
  BY PlacedFacts
<1>4. QED
  BY <1>2, <1>3, LookupFinds

(***************************************************************************)
(* Every step keeps types and pointers.                                    *)
(***************************************************************************)
LEMMA TableChange ==
    ASSUME table \in [Tables -> HashTables], NEW t \in Tables, NEW ht \in HashTables,
           table' = [table EXCEPT ![t] = ht]
    PROVE  /\ table' \in [Tables -> HashTables] /\ table'[t] = ht
           /\ \A u \in Tables \ {t} : table'[u] = table[u]
  OBVIOUS

(* What happens to the tables when a new record is linked, *)
LEMMA LinkEffect ==
    ASSUME Types, Stands, Pointers, NEW t \in Threads, LinkCallsite(t),
           Lookup(t, op[t].key) = 0
    PROVE  /\ table' \in [Tables -> HashTables] /\ table'[t].count = table[t].count
           /\ table'[t].chain[Index(op[t].key)]
                = <<op[t].csp>> \o table[t].chain[Index(op[t].key)]
           /\ \A j \in Buckets \ {Index(op[t].key)} : table'[t].chain[j] = table[t].chain[j]
           /\ Entries(table'[t]) = Entries(table[t]) \cup {op[t].csp}
           /\ \A u \in Tables \ {t} : table'[u] = table[u]
<1>1. op[t].key \in Keys /\ op[t].csp \in Ids
  BY DEF LinkCallsite, Stands, Pointers, Linking
<1>2. Ids \subseteq Nat /\ table \in [Tables -> HashTables] /\ t \in Tables
  BY RecFields DEF Types, Tables
<1>3. PICK i \in Buckets : i = Index(op[t].key)
  BY <1>1, IndexInBuckets
<1>4. PICK p \in Nat : p = op[t].csp
  BY <1>1, <1>2
<1>5. PICK ht \in HashTables : ht = table[t]
  BY <1>2
<1>6. PICK same : same = SameKey(op[t].key)
  OBVIOUS
<1>7. PICK new : new = Link(ht, i, p, same)
  OBVIOUS
<1>8. Search(ht, i, same) = 0
  BY <1>3, <1>5, <1>6 DEF Lookup
<1>9. /\ new \in HashTables /\ new.count = ht.count
      /\ new.chain[i] = <<p>> \o ht.chain[i]
      /\ \A j \in Buckets \ {i} : new.chain[j] = ht.chain[j]
      /\ Entries(new) = Entries(ht) \cup {p}
  BY <1>7, <1>8, LinkFacts
<1>10. table' = [table EXCEPT ![t] = new]
  BY <1>3, <1>4, <1>5, <1>6, <1>7 DEF LinkCallsite
<1>11. /\ table' \in [Tables -> HashTables] /\ table'[t] = new
       /\ \A u \in Tables \ {t} : table'[u] = table[u]
  BY <1>2, <1>9, <1>10, TableChange
<1>12. QED
  BY <1>3, <1>4, <1>5, <1>9, <1>11

(* or counted, *)
LEMMA BumpEffect ==
    ASSUME Types, NEW t \in Threads, BumpCount(t)
    PROVE  /\ table' \in [Tables -> HashTables]
           /\ table'[t].count = op[t].seen + 1
           /\ \A u \in Tables : table'[u].chain = table[u].chain
           /\ \A u \in Tables \ {t} : table'[u] = table[u]
           /\ \A u \in Tables : /\ Entries(table'[u]) = Entries(table[u])
                                /\ Size(table'[u]) = Size(table[u])
<1>1. table \in [Tables -> HashTables] /\ op \in [Threads -> Ops] /\ t \in Tables
  BY DEF Types, Tables
<1>2. PICK n \in Nat : n = op[t].seen + 1
  BY <1>1, OpFields
<1>3. table' = [table EXCEPT ![t].count = n]
  BY <1>2 DEF BumpCount
<1>4. /\ table' \in [Tables -> HashTables] /\ table'[t].count = n
      /\ \A u \in Tables : table'[u].chain = table[u].chain
      /\ \A u \in Tables \ {t} : table'[u] = table[u]
  BY <1>1, <1>3 DEF HashTables
<1>5. QED
  BY <1>2, <1>4 DEF Entries, Size

(* when a chain is emptied or the count set to zero, *)
LEMMA FreeEffect ==
    ASSUME Types, Stands, FreeChain
    PROVE  /\ Current \in Threads /\ table' \in [Tables -> HashTables]
           /\ table'[Current].count = table[Current].count
           /\ table'[Current].chain[ctl.i] = <<>>
           /\ \A j \in Buckets \ {ctl.i} : table'[Current].chain[j] = table[Current].chain[j]
           /\ Entries(table'[Current]) \subseteq Entries(table[Current])
           /\ Entries(table[Current]) \subseteq
                  Entries(table'[Current]) \cup Range(table[Current].chain[ctl.i])
           /\ \A u \in Tables \ {Current} : table'[u] = table[u]
<1>1. ctl.todo \in Seq(Threads) /\ ctl.todo # <<>> /\ ctl.i \in Buckets
  BY ControlFields DEF FreeChain, Stands, Types
<1>2. PICK t \in Threads : t = Current
  BY <1>1, TailFacts DEF Current
<1>3. table \in [Tables -> HashTables] /\ t \in Tables
  BY DEF Types, Tables
<1>4. PICK ht \in HashTables : ht = table[t]
  BY <1>3
<1>5. PICK i \in Buckets : i = ctl.i
  BY <1>1
<1>6. PICK new : new = Cleared(ht, i)
  OBVIOUS
<1>7. /\ new \in HashTables /\ new.count = ht.count /\ new.chain[i] = <<>>
      /\ \A j \in Buckets \ {i} : new.chain[j] = ht.chain[j]
      /\ Entries(new) \subseteq Entries(ht)
      /\ Entries(ht) \subseteq Entries(new) \cup Range(ht.chain[i])
  BY <1>6, ClearFacts
<1>8. table' = [table EXCEPT ![t] = new]
  <2>1. table' = [table EXCEPT ![t].chain[i] = <<>>]
    BY <1>2, <1>5 DEF FreeChain
  <2>2. QED
    BY <1>3, <1>4, <1>6, <2>1 DEF Cleared
<1>9. /\ table' \in [Tables -> HashTables] /\ table'[t] = new
      /\ \A u \in Tables \ {t} : table'[u] = table[u]
  BY <1>3, <1>7, <1>8, TableChange
<1>10. QED
  BY <1>2, <1>4, <1>5, <1>7, <1>9

LEMMA ZeroEffect ==
    ASSUME Types, Stands, ZeroCount
    PROVE  /\ Current \in Threads /\ table' \in [Tables -> HashTables]
           /\ table'[Current].count = 0
           /\ \A u \in Tables : table'[u].chain = table[u].chain
           /\ \A u \in Tables \ {Current} : table'[u] = table[u]
           /\ \A u \in Tables : /\ Entries(table'[u]) = Entries(table[u])
                                /\ Size(table'[u]) = Size(table[u])
<1>1. ctl.todo \in Seq(Threads) /\ ctl.todo # <<>>
  BY ControlFields DEF ZeroCount, Stands, Types
<1>2. PICK t \in Threads : t = Current
  BY <1>1, TailFacts DEF Current
<1>3. table \in [Tables -> HashTables] /\ t \in Tables
  BY DEF Types, Tables
<1>4. table' = [table EXCEPT ![t].count = 0]
  BY <1>2 DEF ZeroCount
<1>5. /\ table' \in [Tables -> HashTables] /\ table'[t].count = 0
      /\ \A u \in Tables : table'[u].chain = table[u].chain
      /\ \A u \in Tables \ {t} : table'[u] = table[u]
  BY <1>3, <1>4 DEF HashTables
<1>6. QED
  BY <1>2, <1>5 DEF Entries, Size

(* when the table of the rank is drained, *)
LEMMA RankEffect ==
    ASSUME Types, DrainRank
    PROVE  /\ table' \in [Tables -> HashTables] /\ Rank \in Tables
           /\ table'[Rank].count = 0 /\ \A i \in Buckets : table'[Rank].chain[i] = <<>>
           /\ Entries(table'[Rank]) = {} /\ Size(table'[Rank]) = 0
           /\ \A u \in Tables \ {Rank} : table'[u] = table[u]
<1>1. table \in [Tables -> HashTables] /\ Rank \in Tables
  BY DEF Types, Tables
<1>2. PICK new \in HashTables : /\ new = Drained(table[Rank])
                                /\ new.count = 0 /\ \A i \in Buckets : new.chain[i] = <<>>
                                /\ Entries(new) = {} /\ Size(new) = 0
  BY <1>1, DrainedFacts
<1>3. table' = [table EXCEPT ![Rank] = new]
  BY <1>2 DEF DrainRank
<1>4. /\ table' \in [Tables -> HashTables] /\ table'[Rank] = new
      /\ \A u \in Tables \ {Rank} : table'[u] = table[u]
  BY <1>1, <1>3, TableChange
<1>5. QED
  BY <1>1, <1>2, <1>4

(* and when a record of the rank's own is added to it. *)
LEMMA InsertEffect ==
    ASSUME Types, Stands, Pointers, InsertInRank, Lookup(Rank, Key(Head(ctl.av))) = 0
    PROVE  /\ table' \in [Tables -> HashTables] /\ Rank \in Tables
           /\ table'[Rank].count = table[Rank].count + 1
           /\ table'[Rank].chain[Index(Key(Head(ctl.av)))]
                = <<Len(rec) + 1>> \o table[Rank].chain[Index(Key(Head(ctl.av)))]
           /\ \A j \in Buckets \ {Index(Key(Head(ctl.av)))} :
                  table'[Rank].chain[j] = table[Rank].chain[j]
           /\ Entries(table'[Rank]) = Entries(table[Rank]) \cup {Len(rec) + 1}
           /\ \A u \in Tables \ {Rank} : table'[u] = table[u]
<1>1. ctl.av \in Seq(Nat) /\ ctl.av # <<>>
  BY ControlFields DEF InsertInRank, Stands, Types
<1>2. Key(Head(ctl.av)) \in Keys
  <2>1. Head(ctl.av) \in Range(ctl.av)
    BY <1>1, TailFacts DEF Range
  <2>2. QED
    BY <2>1, RecFields DEF Pointers, Types
<1>3. table \in [Tables -> HashTables] /\ Rank \in Tables /\ Len(rec) \in Nat
  BY DEF Types, Tables
<1>4. PICK i \in Buckets : i = Index(Key(Head(ctl.av)))
  BY <1>2, IndexInBuckets
<1>5. PICK p \in Nat : p = Len(rec) + 1
  BY <1>3
<1>6. PICK ht \in HashTables : ht = table[Rank]
  BY <1>3
<1>7. PICK same : same = SameKey(Key(Head(ctl.av)))
  OBVIOUS
<1>8. PICK new : new = Insert(ht, i, p, same)
  OBVIOUS
<1>9. Search(ht, i, same) = 0
  BY <1>4, <1>6, <1>7 DEF Lookup
<1>10. /\ new \in HashTables /\ new.count = ht.count + 1
       /\ new.chain[i] = <<p>> \o ht.chain[i]
       /\ \A j \in Buckets \ {i} : new.chain[j] = ht.chain[j]
       /\ Entries(new) = Entries(ht) \cup {p}
  BY <1>8, <1>9, InsertFacts
<1>11. table' = [table EXCEPT ![Rank] = new]
  BY <1>4, <1>5, <1>6, <1>7, <1>8 DEF InsertInRank
<1>12. /\ table' \in [Tables -> HashTables] /\ table'[Rank] = new
       /\ \A u \in Tables \ {Rank} : table'[u] = table[u]
  BY <1>3, <1>10, <1>11, TableChange
<1>13. QED
  BY <1>3, <1>4, <1>5, <1>6, <1>10, <1>12

LEMMA UpdateTypes ==
    ASSUME Types, Stands, Pointers, NEW t \in Threads, Update(t)
    PROVE  Types'
<1> USE DEF bounds, memory, history
<1>1. /\ table \in [Tables -> HashTables] /\ op \in [Threads -> Ops] /\ t \in Tables
      /\ tmpCtr \in Nat /\ Len(rec) \in Nat /\ rec \in Seq(Records)
      /\ hist \in [Tables -> Nat] /\ madeHist \in Nat /\ calls \in Nat
      /\ begun \in [Keys -> Nat] /\ made \in [Keys -> Nat]
  BY DEF Types, Tables
<1>2. /\ op[t].pc \in Steps /\ op[t].key \in Keys \cup {0} /\ op[t].csp \in Nat
      /\ op[t].id \in Nat /\ table[t] \in HashTables /\ table[t].count \in Nat
      /\ op[t].seen \in Nat
  BY <1>1, OpFields DEF HashTables
<1>3. op[t].pc # "idle" => op[t].key \in Keys
  BY DEF Stands
<1>4. ASSUME NEW k \in Keys, SearchCallsite(t, k)
      PROVE  Types'
  <2>1. op' \in [Threads -> Ops]
    BY <1>1, <1>4, LookupFinds, SearchMoves
  <2>2. /\ UNCHANGED <<discipline, table, rec, tmpCtr, freed, hist, ctl, reports, resets,
                       made, madeHist, since>>
        /\ calls' = calls + 1 /\ begun' = [begun EXCEPT ![k] = @ + 1]
    BY <1>4 DEF SearchCallsite
  <2>3. calls' \in Nat /\ begun' \in [Keys -> Nat]
    BY <1>1, <2>2
  <2>4. QED
    BY <2>1, <2>2, <2>3 DEF Types
<1>5. CASE CreateCallsite(t)
  <2>1. op' \in [Threads -> Ops] /\ op[t].key \in Keys
    BY <1>1, <1>3, <1>5, CreateMoves DEF CreateCallsite
  <2>2. rec' = Append(rec, NewRecord(op[t].key, tmpCtr))
    BY <1>5 DEF CreateCallsite
  <2>3. rec' \in Seq(Records)
    BY <1>1, <2>1, <2>2, RecNew DEF RecAdded
  <2>4. UNCHANGED <<discipline, table, tmpCtr, freed, hist, ctl, reports, resets, calls,
                    begun, made, madeHist, since>>
    BY <1>5 DEF CreateCallsite
  <2>5. QED
    BY <2>1, <2>3, <2>4 DEF Types
<1>6. CASE NumberCallsite(t)
  <2>1. op' \in [Threads -> Ops]
    BY <1>1, <1>6, NumberMoves
  <2>2. /\ UNCHANGED <<discipline, table, rec, freed, hist, ctl, reports, resets, calls,
                       begun, made, madeHist, since>>
        /\ tmpCtr' = op[t].id + 1
    BY <1>6 DEF NumberCallsite
  <2>3. tmpCtr' \in Nat
    BY <1>2, <2>2
  <2>4. QED
    BY <2>1, <2>2, <2>3 DEF Types
<1>7. CASE LinkCallsite(t)
  <2>1. op' \in [Threads -> Ops] /\ op[t].key \in Keys
    BY <1>1, <1>2, <1>3, <1>7, LinkMoves DEF LinkCallsite
  <2>2. UNCHANGED <<discipline, rec, tmpCtr, freed, hist, ctl, reports, resets, calls,
                    begun, made, madeHist, since>>
    BY <1>7 DEF LinkCallsite
  <2>3. table' \in [Tables -> HashTables]
    <3>1. CASE UNCHANGED table
      BY <1>1, <3>1
    <3>2. CASE Lookup(t, op[t].key) = 0
      BY <1>7, <3>2, LinkEffect
    <3>3. QED
      BY <1>1, <1>2, <1>7, <3>1, <3>2, LinkMoves
  <2>4. QED
    BY <2>1, <2>2, <2>3 DEF Types
<1>8. CASE BumpCount(t)
  <2>1. op' \in [Threads -> Ops]
    BY <1>1, <1>8, BumpMoves
  <2>2. /\ UNCHANGED <<discipline, rec, tmpCtr, freed, hist, ctl, reports, resets, calls,
                       begun, made, madeHist, since>>
        /\ table' = [table EXCEPT ![t].count = op[t].seen + 1]
    BY <1>8 DEF BumpCount
  <2>3. table' \in [Tables -> HashTables]
    BY <1>8, BumpEffect
  <2>4. QED
    BY <2>1, <2>2, <2>3 DEF Types
<1>9. CASE UpdateCount(t)
  <2>1. op' \in [Threads -> Ops]
    BY <1>1, <1>9, CountMoves
  <2>2. op[t].csp \in Ids
    BY <1>9 DEF UpdateCount, Pointers
  <2>3. /\ UNCHANGED <<discipline, table, tmpCtr, freed, hist, ctl, reports, resets, calls,
                       begun, made, madeHist, since>>
        /\ rec' = [rec EXCEPT ![op[t].csp].count = @ + 1]
    BY <1>9 DEF UpdateCount
  <2>4. rec' \in Seq(Records)
    <3>1. PICK n \in Nat : n = rec[op[t].csp].count + 1
      <4>1. rec[op[t].csp].count \in Nat
        BY <1>1, <2>2, RecFields
      <4>2. QED
        BY <4>1
    <3>2. rec' = [rec EXCEPT ![op[t].csp].count = n]
      BY <2>3, <3>1
    <3>3. QED
      BY <1>1, <2>2, <3>2, RecCount DEF RecKept
  <2>5. QED
    BY <2>1, <2>3, <2>4 DEF Types
<1>10. CASE UpdateTime(t)
  <2>1. op' \in [Threads -> Ops]
    BY <1>1, <1>10, TimeMoves
  <2>2. op[t].csp \in Ids /\ op[t].key \in Keys
    BY <1>3, <1>10 DEF UpdateTime, Pointers
  <2>3. /\ UNCHANGED <<discipline, table, tmpCtr, freed, hist, ctl, reports, resets, calls,
                       begun, madeHist, since>>
        /\ rec' = [rec EXCEPT ![op[t].csp].time = @ + 1]
        /\ made' = [made EXCEPT ![op[t].key] = @ + 1]
    BY <1>10 DEF UpdateTime
  <2>4. rec' \in Seq(Records)
    <3>1. PICK n \in Nat : n = rec[op[t].csp].time + 1
      <4>1. rec[op[t].csp].time \in Nat
        BY <1>1, <2>2, RecFields
      <4>2. QED
        BY <4>1
    <3>2. rec' = [rec EXCEPT ![op[t].csp].time = n]
      BY <2>3, <3>1
    <3>3. QED
      BY <1>1, <2>2, <3>2, RecTime DEF RecKept
  <2>5. made' \in [Keys -> Nat]
    BY <1>1, <2>2, <2>3
  <2>6. QED
    BY <2>1, <2>3, <2>4, <2>5 DEF Types
<1>11. CASE UpdateHist(t)
  <2>1. op' \in [Threads -> Ops]
    BY <1>1, <1>11, HistMoves
  <2>2. /\ UNCHANGED <<discipline, table, rec, tmpCtr, freed, ctl, reports, resets, calls,
                       begun, made, since>>
        /\ hist' = [hist EXCEPT ![t] = @ + 1] /\ madeHist' = madeHist + 1
    BY <1>11 DEF UpdateHist
  <2>3. hist' \in [Tables -> Nat] /\ madeHist' \in Nat
    BY <1>1, <2>2
  <2>4. QED
    BY <2>1, <2>2, <2>3 DEF Types
<1>12. QED
  BY <1>4, <1>5, <1>6, <1>7, <1>8, <1>9, <1>10, <1>11 DEF Update

LEMMA UpdateStands ==
    ASSUME Types, Stands, Pointers, NEW t \in Threads, Update(t)
    PROVE  Stands'
<1>1. op \in [Threads -> Ops] /\ Len(rec) \in Nat /\ tmpCtr \in Nat
      /\ table[t].count \in Nat
  BY DEF Types, Tables, HashTables
<1>2. UNCHANGED ctl
  BY DEF Update, SearchCallsite, CreateCallsite, NumberCallsite, LinkCallsite, BumpCount,
         UpdateCount, UpdateTime, UpdateHist
<1>3. t = Main => ctl.pc = "idle"
  <2>1. op[t].pc # "idle" => (t = Main => ctl.pc = "idle")
    BY DEF Stands
  <2>2. QED
    BY <2>1 DEF Update, SearchCallsite, MayCall, CreateCallsite, NumberCallsite, LinkCallsite,
           BumpCount, UpdateCount, UpdateTime, UpdateHist
<1>4. Others(t) /\ (op'[t].pc # "idle" => op'[t].key \in Keys)
  <2>1. ASSUME NEW k \in Keys, SearchCallsite(t, k)
        PROVE  Others(t) /\ op'[t].key \in Keys
    <3>1. Lookup(t, k) \in Nat
      BY LookupFinds DEF Tables
    <3>2. QED
      BY <1>1, <2>1, <3>1, SearchMoves
  <2>2. CASE UpdateHist(t)
    BY <1>1, <2>2, HistMoves DEF Idle
  <2>3. ASSUME CreateCallsite(t) \/ NumberCallsite(t) \/ LinkCallsite(t) \/ BumpCount(t)
                  \/ UpdateCount(t) \/ UpdateTime(t)
        PROVE  Others(t) /\ op'[t].key = op[t].key /\ op[t].pc # "idle"
    <3>1. op[t].pc # "idle"
      BY <2>3 DEF CreateCallsite, NumberCallsite, LinkCallsite, BumpCount, UpdateCount, UpdateTime
    <3>2. QED
      BY <1>1, <2>3, <3>1, CreateMoves, NumberMoves, LinkMoves, BumpMoves, CountMoves, TimeMoves
  <2>4. QED
    BY <2>1, <2>2, <2>3 DEF Update, Stands
<1>5. \A u \in Threads : op'[u].pc # "idle" => op'[u].key \in Keys
  BY <1>4 DEF Others, Stands
<1>6. ctl'.pc # "idle" => op'[Main].pc = "idle"
  BY <1>2, <1>3, <1>4, TablesAssumption DEF Others, Stands
<1>7. QED
  BY <1>2, <1>5, <1>6 DEF Stands

(* The pointers stay in range when records are only added. *)
LEMMA UpdatePointers ==
    ASSUME Types, Stands, Pointers, NEW t \in Threads, Update(t)
    PROVE  Pointers'
<1> USE DEF bounds, memory, history
<1>1. /\ op \in [Threads -> Ops] /\ Len(rec) \in Nat /\ tmpCtr \in Nat
      /\ rec \in Seq(Records) /\ table \in [Tables -> HashTables]
      /\ t \in Tables /\ table[t] \in HashTables /\ table[t].count \in Nat
  BY DEF Types, Tables, HashTables
<1>2. UNCHANGED <<ctl, freed>>
  BY DEF Update, SearchCallsite, CreateCallsite, NumberCallsite, LinkCallsite, BumpCount,
         UpdateCount, UpdateTime, UpdateHist
<1>3. op[t].pc # "idle" => op[t].key \in Keys
  BY DEF Stands
<1>4. ASSUME Ids \subseteq Ids', UNCHANGED table, Others(t), op'[t].csp \in Ids' \cup {0},
             op'[t].pc \in Linking \cup {"bump", "count", "time"} => op'[t].csp \in Ids'
      PROVE  Pointers'
  BY <1>2, <1>4 DEF Pointers, Others
<1>5. ASSUME NEW k \in Keys, SearchCallsite(t, k)
      PROVE  Pointers'
  <2>1. /\ Lookup(t, k) \in Nat /\ (Lookup(t, k) # 0 => Lookup(t, k) \in Ids)
    BY <1>1, LookupFinds
  <2>2. /\ Others(t) /\ op'[t].csp = Lookup(t, k)
        /\ op'[t].pc = IF Lookup(t, k) = 0 THEN "create" ELSE "count"
    BY <1>1, <1>5, <2>1, SearchMoves
  <2>3. UNCHANGED <<table, rec>> /\ Ids' = Ids
    BY <1>5 DEF SearchCallsite, Ids
  <2>4. QED
    BY <1>4, <2>1, <2>2, <2>3 DEF Linking
<1>6. CASE CreateCallsite(t)
  <2>1. Others(t) /\ op'[t].csp = Len(rec) + 1 /\ op[t].key \in Keys
    BY <1>1, <1>3, <1>6, CreateMoves DEF CreateCallsite
  <2>2. UNCHANGED table /\ rec' = Append(rec, NewRecord(op[t].key, tmpCtr))
    BY <1>6 DEF CreateCallsite
  <2>3. Ids' = Ids \cup {Len(rec) + 1}
    BY <1>1, <2>1, <2>2, RecNew DEF RecAdded
  <2>4. QED
    BY <1>4, <2>1, <2>2, <2>3
<1>7. CASE NumberCallsite(t)
  <2>1. Others(t) /\ op'[t].csp = op[t].csp /\ op[t].pc = "number"
    BY <1>1, <1>7, NumberMoves DEF NumberCallsite
  <2>2. UNCHANGED <<table, rec>> /\ Ids' = Ids
    BY <1>7 DEF NumberCallsite, Ids
  <2>3. QED
    BY <1>4, <2>1, <2>2 DEF Pointers, Linking
<1>8. CASE LinkCallsite(t)
  <2>1. Others(t) /\ op'[t].csp = op[t].csp /\ op[t].pc = "link" /\ op[t].key \in Keys
    BY <1>1, <1>3, <1>8, LinkMoves DEF LinkCallsite
  <2>2. UNCHANGED rec /\ Ids' = Ids
    BY <1>8 DEF LinkCallsite, Ids
  <2>3. op[t].csp \in Ids /\ op[t].csp \in Nat
    BY <1>1, <2>1, OpFields DEF Pointers, Linking
  <2>4. CASE UNCHANGED table
    BY <1>4, <2>1, <2>2, <2>3, <2>4
  <2>5. CASE Lookup(t, op[t].key) = 0
    <3>1. /\ Entries(table'[t]) = Entries(table[t]) \cup {op[t].csp}
          /\ \A u \in Tables \ {t} : table'[u] = table[u]
      BY <1>8, <2>5, LinkEffect
    <3>2. \A u \in Tables : Entries(table'[u]) \subseteq Ids'
      BY <2>2, <2>3, <3>1 DEF Pointers
    <3>3. QED
      BY <1>2, <2>1, <2>2, <2>3, <3>2 DEF Pointers, Others
  <2>6. QED
    BY <1>1, <1>8, <2>4, <2>5, LinkMoves
<1>9. CASE BumpCount(t)
  <2>1. Others(t) /\ op'[t].csp = op[t].csp /\ op[t].pc = "bump"
    BY <1>1, <1>9, BumpMoves DEF BumpCount
  <2>2. UNCHANGED rec /\ Ids' = Ids
    BY <1>9 DEF BumpCount, Ids
  <2>3. \A u \in Tables : Entries(table'[u]) = Entries(table[u])
    BY <1>9, BumpEffect
  <2>4. QED
    BY <1>2, <2>1, <2>2, <2>3 DEF Pointers, Others
<1>10. CASE UpdateCount(t) \/ UpdateTime(t)
  <2>1. /\ Others(t) /\ op'[t].csp = op[t].csp /\ op[t].pc \in {"count", "time"}
        /\ UNCHANGED table
    BY <1>1, <1>10, CountMoves, TimeMoves DEF UpdateCount, UpdateTime
  <2>2. Ids' = Ids
    <3>1. Len(rec') = Len(rec)
      BY <1>1, <1>10 DEF UpdateCount, UpdateTime
    <3>2. QED
      BY <3>1 DEF Ids
  <2>3. QED
    BY <1>4, <2>1, <2>2 DEF Pointers
<1>11. CASE UpdateHist(t)
  <2>1. Others(t) /\ op'[t] = Idle /\ UNCHANGED <<table, rec>> /\ Ids' = Ids
    BY <1>1, <1>11, HistMoves DEF UpdateHist, Ids
  <2>2. QED
    BY <1>4, <2>1 DEF Idle, Linking
<1>12. QED
  BY <1>5, <1>6, <1>7, <1>8, <1>9, <1>10, <1>11 DEF Update

(***************************************************************************)
(* The same of MPI_Pcontrol.                                               *)
(***************************************************************************)
LEMMA CurrentThread ==
    ASSUME Types, Stands, ctl.pc \notin {"idle", "end"}
    PROVE  Current \in Threads /\ Current \in Tables /\ ctl.todo # <<>> /\ Rank \in Tables
<1>1. ctl.todo \in Seq(Threads) /\ ctl.todo # <<>>
  BY ControlFields DEF Types, Stands
<1>2. Current \in Threads
  BY <1>1, TailFacts DEF Current
<1>3. QED
  BY <1>1, <1>2 DEF Tables

LEMMA HeadRecord ==
    ASSUME Types, Pointers, ctl.av # <<>>
    PROVE  /\ Head(ctl.av) \in Range(ctl.av) /\ Head(ctl.av) \in Ids
           /\ Key(Head(ctl.av)) \in Keys
           /\ Range(Tail(ctl.av)) \subseteq Range(ctl.av)
<1>1. ctl.av \in Seq(Nat)
  BY ControlFields DEF Types
<1>2. /\ Len(ctl.av) \in Nat \ {0} /\ Len(Tail(ctl.av)) = Len(ctl.av) - 1
      /\ Tail(ctl.av) \in Seq(Nat)
      /\ Head(ctl.av) = ctl.av[1]
      /\ \A i \in 1 .. Len(ctl.av) - 1 : Tail(ctl.av)[i] = ctl.av[i + 1]
  BY <1>1, TailFacts
<1>3. DOMAIN ctl.av = 1 .. Len(ctl.av) /\ DOMAIN Tail(ctl.av) = 1 .. Len(ctl.av) - 1
  BY <1>1, <1>2
<1>4. 1 \in DOMAIN ctl.av /\ \A i \in 1 .. Len(ctl.av) - 1 : i + 1 \in DOMAIN ctl.av
  BY <1>2, <1>3
<1>5. Head(ctl.av) \in Range(ctl.av)
  BY <1>2, <1>4 DEF Range
<1>6. Range(Tail(ctl.av)) \subseteq Range(ctl.av)
  <2>1. ASSUME NEW x \in Range(Tail(ctl.av))
        PROVE  x \in Range(ctl.av)
    <3>1. PICK i \in 1 .. Len(ctl.av) - 1 : x = Tail(ctl.av)[i]
      BY <1>3 DEF Range
    <3>2. x = ctl.av[i + 1] /\ i + 1 \in DOMAIN ctl.av
      BY <1>2, <1>4, <3>1
    <3>3. QED
      BY <3>2 DEF Range
  <2>2. QED
    BY <2>1
<1>7. Head(ctl.av) \in Ids
  BY <1>5 DEF Pointers
<1>8. Key(Head(ctl.av)) \in Keys
  BY <1>7, RecFields DEF Types
<1>9. QED
  BY <1>5, <1>6, <1>7, <1>8

LEMMA AppendedRange ==
    ASSUME NEW s \in Seq(Nat), NEW u \in Seq(Nat)
    PROVE  /\ Range(s \o u) = Range(s) \cup Range(u)
           /\ Len(s \o u) = Len(s) + Len(u) /\ Len(s) \in Nat /\ Len(u) \in Nat
<1>1. /\ Len(s \o u) = Len(s) + Len(u) /\ Len(s) \in Nat /\ Len(u) \in Nat
      /\ \A i \in 1 .. Len(s) : (s \o u)[i] = s[i]
      /\ \A i \in 1 .. Len(u) : (s \o u)[i + Len(s)] = u[i]
      /\ DOMAIN (s \o u) = 1 .. Len(s) + Len(u)
      /\ DOMAIN s = 1 .. Len(s) /\ DOMAIN u = 1 .. Len(u)
  OBVIOUS
<1>2. ASSUME NEW x \in Range(s \o u)
      PROVE  x \in Range(s) \cup Range(u)
  <2>1. PICK i \in 1 .. Len(s) + Len(u) : x = (s \o u)[i]
    BY <1>1 DEF Range
  <2>2. CASE i <= Len(s)
    BY <1>1, <2>1, <2>2 DEF Range
  <2>3. CASE i > Len(s)
    <3>1. i - Len(s) \in 1 .. Len(u) /\ (i - Len(s)) + Len(s) = i
      BY <1>1, <2>1, <2>3
    <3>2. x = u[i - Len(s)]
      BY <1>1, <2>1, <3>1
    <3>3. QED
      BY <1>1, <3>1, <3>2 DEF Range
  <2>4. QED
    BY <1>1, <2>1, <2>2, <2>3
<1>3. ASSUME NEW x \in Range(s)
      PROVE  x \in Range(s \o u)
  <2>1. PICK i \in 1 .. Len(s) : x = s[i]
    BY <1>1 DEF Range
  <2>2. i \in 1 .. Len(s) + Len(u) /\ x = (s \o u)[i]
    BY <1>1, <2>1
  <2>3. QED
    BY <1>1, <2>2 DEF Range
<1>4. ASSUME NEW x \in Range(u)
      PROVE  x \in Range(s \o u)
  <2>1. PICK i \in 1 .. Len(u) : x = u[i]
    BY <1>1 DEF Range
  <2>2. i + Len(s) \in 1 .. Len(s) + Len(u) /\ x = (s \o u)[i + Len(s)]
    BY <1>1, <2>1
  <2>3. QED
    BY <1>1, <2>2 DEF Range
<1>5. QED
  BY <1>1, <1>2, <1>3, <1>4

LEMMA MergeCountEffect ==
    ASSUME Types, Stands, Pointers, MergeCount
    PROVE  /\ RecKept /\ rec'[ctl.csp].count = rec[ctl.csp].count + rec[Head(ctl.av)].count
           /\ \A q \in Ids \ {ctl.csp} : rec'[q] = rec[q]
           /\ \A q \in Ids : rec'[q].time = rec[q].time
<1>1. ctl.csp \in Ids /\ Head(ctl.av) \in Ids
  BY HeadRecord DEF MergeCount, Stands, Pointers
<1>2. rec[ctl.csp].count \in Nat /\ rec[Head(ctl.av)].count \in Nat /\ rec \in Seq(Records)
  BY <1>1, RecFields DEF Types
<1>3. PICK n \in Nat : n = rec[ctl.csp].count + rec[Head(ctl.av)].count
  BY <1>2
<1>4. PICK p \in Ids : p = ctl.csp
  BY <1>1
<1>5. rec' = [rec EXCEPT ![p].count = n]
  BY <1>3, <1>4 DEF MergeCount
<1>6. QED
  BY <1>2, <1>3, <1>4, <1>5, RecCount

LEMMA MergeTimeEffect ==
    ASSUME Types, Stands, Pointers, MergeTime
    PROVE  /\ RecKept /\ rec'[ctl.csp].time = rec[ctl.csp].time + rec[Head(ctl.av)].time
           /\ \A q \in Ids \ {ctl.csp} : rec'[q] = rec[q]
           /\ \A q \in Ids : rec'[q].count = rec[q].count
<1>1. ctl.csp \in Ids /\ Head(ctl.av) \in Ids
  BY HeadRecord DEF MergeTime, Stands, Pointers
<1>2. rec[ctl.csp].time \in Nat /\ rec[Head(ctl.av)].time \in Nat /\ rec \in Seq(Records)
  BY <1>1, RecFields DEF Types
<1>3. PICK n \in Nat : n = rec[ctl.csp].time + rec[Head(ctl.av)].time
  BY <1>2
<1>4. PICK p \in Ids : p = ctl.csp
  BY <1>1
<1>5. rec' = [rec EXCEPT ![p].time = n]
  BY <1>3, <1>4 DEF MergeTime
<1>6. QED
  BY <1>2, <1>3, <1>4, <1>5, RecTime

LEMMA InsertRecord ==
    ASSUME Types, Stands, Pointers, InsertInRank
    PROVE  /\ RecAdded(Key(Head(ctl.av)), ctl.id) /\ tmpCtr' = ctl.id + 1
           /\ Key(Head(ctl.av)) \in Keys /\ ctl.id \in Nat
<1>1. Key(Head(ctl.av)) \in Keys /\ ctl.id \in Nat /\ rec \in Seq(Records)
  BY HeadRecord, ControlFields DEF InsertInRank, Stands, Types
<1>2. rec' = Append(rec, NewRecord(Key(Head(ctl.av)), ctl.id)) /\ tmpCtr' = ctl.id + 1
  BY DEF InsertInRank
<1>3. QED
  BY <1>1, <1>2, RecNew

(* What MPI_Pcontrol leaves alone. *)
Untouched == UNCHANGED <<discipline, op, calls>>

LEMMA ControlUntouched == Control => Untouched
  BY DEF Control, Untouched, opVars, bounds, StartReport, StartReset, DrainRank, GatherAlloc,
         GatherChain, FreeChain, ZeroCount, ReleaseRecords, FindInRank, InsertInRank,
         MergeCount, MergeTime, MergeHist, EndControl

LEMMA ControlTypes ==
    ASSUME Types, Stands, Pointers, Control
    PROVE  Types'
<1> USE DEF opVars, bounds, memory, history
<1>1. /\ table \in [Tables -> HashTables] /\ ctl \in Controls /\ tmpCtr \in Nat
      /\ rec \in Seq(Records) /\ Len(rec) \in Nat /\ freed \subseteq Nat
      /\ hist \in [Tables -> Nat] /\ made \in [Keys -> Nat] /\ madeHist \in Nat
      /\ reports \in Nat /\ resets \in Nat
  BY DEF Types
<1>2. UNCHANGED <<discipline, op, calls>>
  BY ControlUntouched DEF Untouched
<1>3. CASE StartReport
  <2>1. /\ ctl' \in Controls
    BY <1>3, StartMoves
  <2>2. /\ UNCHANGED <<table, rec, freed, tmpCtr, hist, resets, begun, made, madeHist>>
        /\ reports' = reports + 1 /\ since' = [made |-> made, hist |-> madeHist]
    BY <1>3 DEF StartReport
  <2>3. reports' \in Nat /\ since' \in [made : [Keys -> Nat], hist : Nat]
    BY <1>1, <2>2
  <2>4. QED
    BY <1>2, <2>1, <2>2, <2>3 DEF Types
<1>4. CASE StartReset
  <2>1. ctl' \in Controls
    BY <1>4, StartMoves
  <2>2. /\ UNCHANGED <<table, rec, freed, tmpCtr, hist, reports, begun, made, madeHist, since>>
        /\ resets' = resets + 1
    BY <1>4 DEF StartReset
  <2>3. QED
    BY <1>1, <1>2, <2>1, <2>2 DEF Types
<1>5. CASE DrainRank
  <2>1. ctl' \in Controls /\ table' \in [Tables -> HashTables] /\ Rank \in Tables
    BY <1>1, <1>5, RankMoves, RankEffect
  <2>2. /\ UNCHANGED <<rec, tmpCtr, hist, reports, resets, begun, made, madeHist, since>>
        /\ freed' = freed \cup Entries(table[Rank])
    BY <1>5 DEF DrainRank
  <2>3. Entries(table[Rank]) \subseteq Nat
    BY <1>1, <2>1, EntriesFacts
  <2>4. freed' \subseteq Nat
    BY <1>1, <2>2, <2>3
  <2>5. QED
    BY <1>2, <2>1, <2>2, <2>4 DEF Types
<1>6. CASE GatherAlloc
  <2>1. table[Current].count \in Nat
    BY <1>1, <1>6, CurrentThread DEF GatherAlloc, HashTables
  <2>2. ctl' \in Controls
    BY <1>1, <1>6, <2>1, AllocMoves
  <2>3. UNCHANGED <<table, rec, freed, tmpCtr, hist, reports, resets, begun, made, madeHist, since>>
    BY <1>6 DEF GatherAlloc
  <2>4. QED
    BY <1>2, <2>2, <2>3 DEF Types
<1>7. CASE GatherChain
  <2>1. table[Current].chain[ctl.i] \in Seq(Nat)
    BY <1>1, <1>7, CurrentThread, ControlFields, EntriesFacts DEF GatherChain
  <2>2. ctl' \in Controls
    BY <1>1, <1>7, <2>1, GatherMoves
  <2>3. UNCHANGED <<table, rec, freed, tmpCtr, hist, reports, resets, begun, made, madeHist, since>>
    BY <1>7 DEF GatherChain
  <2>4. QED
    BY <1>2, <2>2, <2>3 DEF Types
<1>8. CASE FreeChain
  <2>1. ctl' \in Controls /\ table' \in [Tables -> HashTables]
    BY <1>1, <1>8, FreeMoves, FreeEffect
  <2>2. UNCHANGED <<rec, freed, tmpCtr, hist, reports, resets, begun, made, madeHist, since>>
    BY <1>8 DEF FreeChain
  <2>3. QED
    BY <1>2, <2>1, <2>2 DEF Types
<1>9. CASE ZeroCount
  <2>1. ctl' \in Controls /\ table' \in [Tables -> HashTables]
    BY <1>1, <1>9, ZeroMoves, ZeroEffect
  <2>2. UNCHANGED <<rec, freed, tmpCtr, hist, reports, resets, begun, made, madeHist, since>>
    BY <1>9 DEF ZeroCount
  <2>3. QED
    BY <1>2, <2>1, <2>2 DEF Types
<1>10. CASE ReleaseRecords
  <2>1. ctl' \in Controls
    <3>1. ctl.todo # <<>> /\ ctl' = NextTable(ctl)
      BY <1>10, CurrentThread DEF ReleaseRecords
    <3>2. QED
      BY <1>1, <3>1, TableMoves
  <2>2. /\ UNCHANGED <<table, rec, tmpCtr, hist, reports, resets, begun, made, madeHist, since>>
        /\ freed' = freed \cup Range(ctl.av)
    BY <1>10 DEF ReleaseRecords
  <2>3. Range(ctl.av) \subseteq Nat
    BY <1>1, ControlFields DEF Range
  <2>4. freed' \subseteq Nat
    BY <1>1, <2>2, <2>3
  <2>5. QED
    BY <1>2, <2>1, <2>2, <2>4 DEF Types
<1>11. CASE FindInRank
  <2>1. Key(Head(ctl.av)) \in Keys /\ Rank \in Tables
    BY <1>11, HeadRecord DEF FindInRank, Tables
  <2>2. Lookup(Rank, Key(Head(ctl.av))) \in Nat
    BY <2>1, LookupFinds
  <2>3. ctl' \in Controls
    BY <1>1, <1>11, <2>2, FindMoves
  <2>4. UNCHANGED <<table, rec, freed, tmpCtr, hist, reports, resets, begun, made, madeHist, since>>
    BY <1>11 DEF FindInRank
  <2>5. QED
    BY <1>2, <2>3, <2>4 DEF Types
<1>12. CASE InsertInRank
  <2>1. ctl' \in Controls
    BY <1>1, <1>12, InsertMoves
  <2>2. rec' \in Seq(Records) /\ tmpCtr' \in Nat
    BY <1>12, InsertRecord DEF RecAdded
  <2>3. UNCHANGED <<freed, hist, reports, resets, begun, made, madeHist, since>>
    BY <1>12 DEF InsertInRank
  <2>4. table' \in [Tables -> HashTables]
    <3>1. CASE Lookup(Rank, Key(Head(ctl.av))) = 0
      BY <1>12, <3>1, InsertEffect
    <3>2. CASE Lookup(Rank, Key(Head(ctl.av))) # 0
      <4>1. table' = [table EXCEPT ![Rank] = @]
        BY <1>12, <3>2 DEF InsertInRank, Insert, Lookup
      <4>2. QED
        BY <1>1, <4>1
    <3>3. QED
      BY <3>1, <3>2
  <2>5. QED
    BY <1>2, <2>1, <2>2, <2>3, <2>4 DEF Types
<1>13. CASE MergeCount
  <2>1. ctl' \in Controls /\ rec' \in Seq(Records)
    BY <1>1, <1>13, MergeCountMoves, MergeCountEffect DEF RecKept
  <2>2. UNCHANGED <<table, freed, tmpCtr, hist, reports, resets, begun, made, madeHist, since>>
    BY <1>13 DEF MergeCount
  <2>3. QED
    BY <1>2, <2>1, <2>2 DEF Types
<1>14. CASE MergeTime
  <2>1. ctl' \in Controls /\ rec' \in Seq(Records)
    <3>1. ctl.av # <<>>
      BY <1>14 DEF MergeTime, Stands
    <3>2. QED
      BY <1>1, <1>14, <3>1, MergeTimeMoves, MergeTimeEffect DEF RecKept
  <2>2. UNCHANGED <<table, freed, tmpCtr, hist, reports, resets, begun, made, madeHist, since>>
    BY <1>14 DEF MergeTime
  <2>3. QED
    BY <1>2, <2>1, <2>2 DEF Types
<1>15. CASE MergeHist
  <2>1. Current \in Tables /\ Rank \in Tables /\ ctl.todo # <<>>
    BY <1>15, CurrentThread DEF MergeHist
  <2>2. /\ UNCHANGED <<table, rec, freed, tmpCtr, reports, resets, begun, made, madeHist, since>>
        /\ hist' = [hist EXCEPT ![Rank] = @ + hist[Current]] /\ ctl' = NextTable(ctl)
    BY <1>15 DEF MergeHist
  <2>3. ctl' \in Controls
    BY <1>1, <2>1, <2>2, TableMoves
  <2>4. hist' \in [Tables -> Nat]
    <3>1. PICK n \in Nat : n = hist[Rank] + hist[Current]
      BY <1>1, <2>1
    <3>2. hist' = [hist EXCEPT ![Rank] = n]
      BY <2>2, <3>1
    <3>3. QED
      BY <1>1, <3>2
  <2>5. QED
    BY <1>2, <2>2, <2>3, <2>4 DEF Types
<1>16. CASE EndControl
  <2>1. ctl' \in Controls
    BY <1>16, EndMoves
  <2>2. /\ UNCHANGED <<table, rec, freed, tmpCtr, hist, reports, resets, madeHist>>
        /\ \/ UNCHANGED <<begun, made, since>>
           \/ begun' = Zero /\ made' = Zero /\ since' = [since EXCEPT !.made = Zero]
    BY <1>16 DEF EndControl
  <2>3. PICK zero \in [Keys -> Nat] : zero = Zero
    BY DEF Zero
  <2>4. ASSUME since' = [since EXCEPT !.made = zero]
        PROVE  since' \in [made : [Keys -> Nat], hist : Nat]
    <3>1. since \in [made : [Keys -> Nat], hist : Nat]
      BY DEF Types
    <3>2. QED
      BY <2>4, <3>1
  <2>5. /\ begun' \in [Keys -> Nat] /\ made' \in [Keys -> Nat]
        /\ since' \in [made : [Keys -> Nat], hist : Nat]
    BY <2>2, <2>3, <2>4 DEF Types
  <2>6. QED
    BY <1>2, <2>1, <2>2, <2>5 DEF Types
<1>17. QED
  BY <1>3, <1>4, <1>5, <1>6, <1>7, <1>8, <1>9, <1>10, <1>11, <1>12, <1>13, <1>14, <1>15,
     <1>16 DEF Control

LEMMA ControlStands ==
    ASSUME Types, Stands, Pointers, Control
    PROVE  Stands'
<1>1. ctl \in Controls /\ tmpCtr \in Nat /\ Len(rec) \in Nat
      /\ table \in [Tables -> HashTables]
  BY DEF Types
<1>2. UNCHANGED op
  BY ControlUntouched DEF Untouched
<1>3. ASSUME op[Main].pc = "idle" \/ ctl'.pc = "idle",
             ctl'.pc = "idle" <=> ctl'.kind = "none",
             ctl'.pc \in Draining => ctl'.kind = "reset",
             ctl'.pc \in Merging => ctl'.kind = "report",
             ctl'.pc \notin {"idle", "end"} => ctl'.todo # <<>>,
             ctl'.pc \in {"idle", "rank", "alloc", "end"} => ctl'.av = <<>>,
             ctl'.pc \in {"insert", "addcount", "addtime"} => ctl'.av # <<>>
      PROVE  Stands'
  BY <1>2, <1>3 DEF Stands
<1>4. ctl.pc # "idle" => ctl.kind \in {"report", "reset"} /\ op[Main].pc = "idle"
  BY <1>1, ControlFields DEF Stands
<1>5. ctl.pc \notin {"idle", "end"} => ctl.todo # <<>>
  BY DEF Stands
<1>6. CASE StartReport
  BY <1>3, <1>6, StartMoves, ListedFacts DEF StartReport, Draining, Merging
<1>7. CASE StartReset
  BY <1>3, <1>7, StartMoves, ListedFacts DEF StartReset, Draining, Merging
<1>8. CASE DrainRank
  <2>1. ctl.pc = "rank" /\ ctl.av = <<>>
    BY <1>8 DEF DrainRank, Stands
  <2>2. QED
    BY <1>1, <1>3, <1>4, <1>5, <1>8, <2>1, RankMoves DEF SameTask, Draining, Merging
<1>9. CASE GatherAlloc
  <2>1. ctl.pc = "alloc" /\ table[Current].count \in Nat
    BY <1>1, <1>9, CurrentThread DEF GatherAlloc, HashTables
  <2>2. QED
    BY <1>1, <1>3, <1>4, <1>5, <1>9, <2>1, AllocMoves DEF SameTask, Draining, Merging
<1>10. CASE GatherChain
  <2>1. ctl.pc = "gather" /\ table[Current].chain[ctl.i] \in Seq(Nat)
    BY <1>1, <1>10, CurrentThread, ControlFields, EntriesFacts DEF GatherChain
  <2>2. SameTask /\ (ctl'.pc = "gather" \/ ctl'.pc = IF Resetting THEN "free" ELSE "record")
    BY <1>1, <1>10, <2>1, GatherMoves DEF Goes
  <2>3. QED
    BY <1>3, <1>4, <1>5, <2>1, <2>2 DEF SameTask, Draining, Merging, Resetting
<1>11. CASE FreeChain
  <2>1. ctl.pc = "free" /\ ctl.kind = "reset"
    BY <1>11 DEF FreeChain, Stands, Draining
  <2>2. SameTask /\ ctl'.pc \in {"free", "zero"}
    BY <1>1, <1>11, FreeMoves DEF Goes
  <2>3. QED
    BY <1>3, <1>4, <1>5, <2>1, <2>2 DEF SameTask, Draining, Merging
<1>12. CASE ZeroCount
  <2>1. ctl.pc = "zero" /\ ctl.kind = "reset"
    BY <1>12 DEF ZeroCount, Stands, Draining
  <2>2. QED
    BY <1>1, <1>3, <1>4, <1>5, <1>12, <2>1, ZeroMoves DEF SameTask, Draining, Merging
<1>13. CASE ReleaseRecords \/ MergeHist
  <2>1. ctl.pc \in {"release", "record"} /\ ctl' = NextTable(ctl)
    BY <1>13 DEF ReleaseRecords, MergeHist
  <2>2. /\ ctl'.kind = ctl.kind /\ ctl'.todo = Tail(ctl.todo) /\ ctl'.av = <<>>
        /\ ctl'.pc = IF Tail(ctl.todo) = <<>> THEN "end" ELSE "alloc"
    BY <1>1, <1>5, <2>1, TableMoves
  <2>3. QED
    BY <1>3, <1>4, <2>1, <2>2 DEF Draining, Merging
<1>14. CASE FindInRank
  <2>1. ctl.pc = "record" /\ ctl.kind = "report" /\ ctl.av # <<>>
    BY <1>14 DEF FindInRank, Stands, Merging
  <2>2. Lookup(Rank, Key(Head(ctl.av))) \in Nat
    BY <2>1, HeadRecord, LookupFinds DEF Tables
  <2>3. SameTask /\ ctl'.av = ctl.av /\ ctl'.pc \in {"insert", "addcount"}
    BY <1>1, <1>14, <2>2, FindMoves
  <2>4. QED
    BY <1>3, <1>4, <1>5, <2>1, <2>3 DEF SameTask, Draining, Merging
<1>15. CASE InsertInRank \/ MergeCount
  <2>1. ctl.pc \in {"insert", "addcount"} /\ ctl.kind = "report" /\ ctl.av # <<>>
    BY <1>15 DEF InsertInRank, MergeCount, Stands, Merging
  <2>2. SameTask /\ ctl'.av = ctl.av /\ ctl'.pc \in {"addcount", "addtime"}
    BY <1>1, <1>15, InsertMoves, MergeCountMoves
  <2>3. QED
    BY <1>3, <1>4, <1>5, <2>1, <2>2 DEF SameTask, Draining, Merging
<1>16. CASE MergeTime
  <2>1. ctl.pc = "addtime" /\ ctl.kind = "report" /\ ctl.av # <<>>
    BY <1>16 DEF MergeTime, Stands, Merging
  <2>2. SameTask /\ ctl'.pc = "record"
    BY <1>1, <1>16, <2>1, MergeTimeMoves
  <2>3. QED
    BY <1>3, <1>4, <1>5, <2>1, <2>2 DEF SameTask, Draining, Merging
<1>17. CASE EndControl
  BY <1>3, <1>17, EndMoves DEF Draining, Merging
<1>18. QED
  BY <1>6, <1>7, <1>8, <1>9, <1>10, <1>11, <1>12, <1>13, <1>14, <1>15, <1>16, <1>17 DEF Control

LEMMA ControlPointers ==
    ASSUME Types, Stands, Pointers, Control
    PROVE  Pointers'
<1> USE DEF opVars, bounds, memory, history
<1>1. /\ ctl \in Controls /\ tmpCtr \in Nat /\ Len(rec) \in Nat
      /\ table \in [Tables -> HashTables] /\ Rank \in Tables
      /\ op \in [Threads -> Ops]
  BY DEF Types, Tables
<1>2. UNCHANGED op
  BY ControlUntouched DEF Untouched
<1>3. ASSUME Ids \subseteq Ids', freed' \subseteq Ids',
             \A u \in Tables : Entries(table'[u]) \subseteq Ids',
             Range(ctl'.av) \subseteq Ids',
             ctl'.pc \in {"addcount", "addtime"} => ctl'.csp \in Ids'
      PROVE  Pointers'
  BY <1>2, <1>3 DEF Pointers
<1>4. /\ freed \subseteq Ids /\ \A u \in Tables : Entries(table[u]) \subseteq Ids
      /\ Range(ctl.av) \subseteq Ids /\ Range(<<>>) = {}
      /\ ctl.pc \in {"addcount", "addtime"} => ctl.csp \in Ids
  BY DEF Pointers, Range
<1>5. UNCHANGED rec => Ids' = Ids
  BY DEF Ids
<1>6. CASE StartReport \/ StartReset
  <2>1. ctl'.av = <<>> /\ ctl'.pc = "rank"
    BY <1>6, StartMoves
  <2>2. UNCHANGED <<rec, freed, table>>
    BY <1>6 DEF StartReport, StartReset
  <2>3. QED
    BY <1>3, <1>4, <1>5, <2>1, <2>2
<1>7. CASE DrainRank
  <2>1. ctl'.av = ctl.av /\ ctl'.pc = "alloc"
    BY <1>1, <1>7, RankMoves
  <2>2. UNCHANGED rec /\ freed' = freed \cup Entries(table[Rank])
    BY <1>7 DEF DrainRank
  <2>3. Entries(table'[Rank]) = {} /\ \A u \in Tables \ {Rank} : table'[u] = table[u]
    BY <1>7, RankEffect
  <2>4. QED
    BY <1>1, <1>3, <1>4, <1>5, <2>1, <2>2, <2>3
<1>8. CASE GatherAlloc
  <2>1. table[Current].count \in Nat
    BY <1>1, <1>8, CurrentThread DEF GatherAlloc, HashTables
  <2>2. ctl'.av = <<>> /\ ctl'.pc = "gather"
    BY <1>1, <1>8, <2>1, AllocMoves
  <2>3. UNCHANGED <<rec, freed, table>>
    BY <1>8 DEF GatherAlloc
  <2>4. QED
    BY <1>3, <1>4, <1>5, <2>2, <2>3
<1>9. CASE GatherChain
  <2>1. Current \in Tables /\ ctl.i \in Buckets /\ ctl.av \in Seq(Nat)
    BY <1>1, <1>9, CurrentThread, ControlFields DEF GatherChain
  <2>2. /\ table[Current].chain[ctl.i] \in Seq(Nat)
        /\ Range(table[Current].chain[ctl.i]) \subseteq Entries(table[Current])
    BY <1>1, <2>1, EntriesFacts
  <2>3. /\ ctl'.av = ctl.av \o table[Current].chain[ctl.i]
        /\ ctl'.pc \in {"gather", "free", "record"}
    BY <1>1, <1>9, <2>2, GatherMoves DEF Goes
  <2>4. Range(ctl'.av) = Range(ctl.av) \cup Range(table[Current].chain[ctl.i])
    BY <2>1, <2>2, <2>3, AppendedRange
  <2>5. UNCHANGED <<rec, freed, table>>
    BY <1>9 DEF GatherChain
  <2>6. QED
    BY <1>3, <1>4, <1>5, <2>1, <2>2, <2>3, <2>4, <2>5
<1>10. CASE FreeChain
  <2>1. ctl'.av = ctl.av /\ ctl'.pc \in {"free", "zero"}
    BY <1>1, <1>10, FreeMoves DEF Goes
  <2>2. UNCHANGED <<rec, freed>>
    BY <1>10 DEF FreeChain
  <2>3. \A u \in Tables : Entries(table'[u]) \subseteq Entries(table[u])
    BY <1>10, FreeEffect
  <2>4. QED
    BY <1>3, <1>4, <1>5, <2>1, <2>2, <2>3
<1>11. CASE ZeroCount
  <2>1. ctl'.av = ctl.av /\ ctl'.pc = "release"
    BY <1>1, <1>11, ZeroMoves
  <2>2. UNCHANGED <<rec, freed>>
    BY <1>11 DEF ZeroCount
  <2>3. \A u \in Tables : Entries(table'[u]) = Entries(table[u])
    BY <1>11, ZeroEffect
  <2>4. QED
    BY <1>3, <1>4, <1>5, <2>1, <2>2, <2>3
<1>12. CASE ReleaseRecords \/ MergeHist
  <2>1. ctl.todo # <<>> /\ ctl' = NextTable(ctl) /\ UNCHANGED <<rec, table>>
    BY <1>12, CurrentThread DEF ReleaseRecords, MergeHist
  <2>2. ctl'.av = <<>> /\ ctl'.pc \in {"end", "alloc"}
    BY <1>1, <2>1, TableMoves
  <2>3. freed' \subseteq Ids
    BY <1>4, <1>12 DEF ReleaseRecords, MergeHist
  <2>4. QED
    BY <1>3, <1>4, <1>5, <2>1, <2>2, <2>3
<1>13. CASE FindInRank
  <2>1. Key(Head(ctl.av)) \in Keys
    BY <1>13, HeadRecord DEF FindInRank
  <2>2. /\ Lookup(Rank, Key(Head(ctl.av))) \in Nat
        /\ Lookup(Rank, Key(Head(ctl.av))) # 0 => Lookup(Rank, Key(Head(ctl.av))) \in Ids
    BY <1>1, <2>1, LookupFinds
  <2>3. /\ ctl'.av = ctl.av /\ ctl'.csp = Lookup(Rank, Key(Head(ctl.av)))
        /\ ctl'.pc = IF Lookup(Rank, Key(Head(ctl.av))) = 0 THEN "insert" ELSE "addcount"
    BY <1>1, <1>13, <2>2, FindMoves
  <2>4. UNCHANGED <<rec, freed, table>>
    BY <1>13 DEF FindInRank
  <2>5. QED
    BY <1>3, <1>4, <1>5, <2>2, <2>3, <2>4
<1>14. CASE InsertInRank
  <2>1. ctl'.av = ctl.av /\ ctl'.csp = Len(rec) + 1
    BY <1>1, <1>14, InsertMoves
  <2>2. Ids' = Ids \cup {Len(rec) + 1}
    BY <1>14, InsertRecord DEF RecAdded
  <2>3. UNCHANGED freed
    BY <1>14 DEF InsertInRank
  <2>4. \A u \in Tables : Entries(table'[u]) \subseteq Entries(table[u]) \cup {Len(rec) + 1}
    <3>1. CASE Lookup(Rank, Key(Head(ctl.av))) = 0
      BY <1>14, <3>1, InsertEffect
    <3>2. CASE Lookup(Rank, Key(Head(ctl.av))) # 0
      <4>1. table' = [table EXCEPT ![Rank] = @]
        BY <1>14, <3>2 DEF InsertInRank, Insert, Lookup
      <4>2. QED
        BY <1>1, <4>1
    <3>3. QED
      BY <3>1, <3>2
  <2>5. QED
    BY <1>3, <1>4, <2>1, <2>2, <2>3, <2>4
<1>15. CASE MergeCount
  <2>1. ctl'.av = ctl.av /\ ctl'.csp = ctl.csp /\ ctl.pc = "addcount"
    BY <1>1, <1>15, MergeCountMoves DEF MergeCount
  <2>2. Ids' = Ids /\ UNCHANGED <<freed, table>>
    BY <1>15, MergeCountEffect DEF RecKept, MergeCount
  <2>3. QED
    BY <1>3, <1>4, <2>1, <2>2
<1>16. CASE MergeTime
  <2>1. ctl.av # <<>>
    BY <1>16 DEF MergeTime, Stands
  <2>2. ctl'.av = Tail(ctl.av) /\ ctl'.pc = "record"
    BY <1>1, <1>16, <2>1, MergeTimeMoves
  <2>3. Ids' = Ids /\ UNCHANGED <<freed, table>>
    BY <1>16, MergeTimeEffect DEF RecKept, MergeTime
  <2>4. QED
    BY <1>3, <1>4, <2>1, <2>2, <2>3, HeadRecord
<1>17. CASE EndControl
  <2>1. ctl'.av = <<>> /\ ctl'.pc = "idle"
    BY <1>17, EndMoves
  <2>2. UNCHANGED <<rec, freed, table>>
    BY <1>17 DEF EndControl
  <2>3. QED
    BY <1>3, <1>4, <1>5, <2>1, <2>2
<1>18. QED
  BY <1>6, <1>7, <1>8, <1>9, <1>10, <1>11, <1>12, <1>13, <1>14, <1>15, <1>16, <1>17 DEF Control

Basics == Types /\ Stands /\ Pointers

LEMMA BasicsUnchanged == Basics /\ UNCHANGED vars => Basics'
<1>1. SUFFICES ASSUME Basics, UNCHANGED vars
               PROVE  Basics'
  OBVIOUS
<1>2. UNCHANGED <<discipline, table, rec, freed, tmpCtr, hist, op, ctl, calls, reports,
                  resets, begun, made, madeHist, since>>
  BY <1>1 DEF vars, bounds, memory, opVars, history
<1>3. Types'
  BY <1>1, <1>2 DEF Basics, Types
<1>4. Stands'
  BY <1>1, <1>2 DEF Basics, Stands
<1>5. Pointers'
  <2>1. Ids' = Ids
    BY <1>2 DEF Ids
  <2>2. QED
    BY <1>1, <1>2, <2>1 DEF Basics, Pointers
<1>6. QED
  BY <1>3, <1>4, <1>5 DEF Basics

LEMMA BasicsStep == Basics /\ [Next]_vars => Basics'
<1>1. ASSUME Basics, NEW t \in Threads, Update(t)
      PROVE  Basics'
  BY <1>1, UpdateTypes, UpdateStands, UpdatePointers DEF Basics
<1>2. ASSUME Basics, Control
      PROVE  Basics'
  BY <1>2, ControlTypes, ControlStands, ControlPointers DEF Basics
<1>3. QED
  BY <1>1, <1>2, BasicsUnchanged DEF Next

LEMMA BasicsInvariant == Spec => []Basics
<1>1. Init => Basics
  BY InitTypes DEF Basics
<1>2. QED
  BY <1>1, BasicsStep, PTL DEF Spec

(* A sequence of numbers of records. *)
LEMMA SequenceOfIds ==
    ASSUME NEW s \in Seq(Nat), Range(s) \subseteq Ids
    PROVE  s \in Seq(Ids)
<1>1. s \in [1 .. Len(s) -> Nat] /\ Len(s) \in Nat
  OBVIOUS
<1>2. \A j \in 1 .. Len(s) : s[j] \in Ids
  BY <1>1 DEF Range
<1>3. s \in [1 .. Len(s) -> Ids]
  BY <1>1, <1>2
<1>4. QED
  BY <1>1, <1>3

(* The types hold whatever the application does: under any discipline, the *)
(* free one included, no table, no place of a call and no place of a merge *)
(* or drain refers to a record that was never made, and the index of       *)
(* h_gather_data and h_drain stays inside the table.                       *)
THEOREM TablesType == Spec => []TypeOK
<1>1. Basics => TypeOK
  <2>1. SUFFICES ASSUME Basics
                 PROVE  TypeOK
    OBVIOUS
  <2>2. /\ table \in [Tables -> HashTables] /\ ctl \in Controls /\ op \in [Threads -> Ops]
        /\ freed \subseteq Ids
    BY <2>1 DEF Basics, Types, Pointers
  <2>3. ASSUME NEW t \in Tables
        PROVE  /\ table[t].count \in Nat
               /\ \A i \in 0 .. TableSize - 1 : table[t].chain[i] \in Seq(Ids)
    <3>1. table[t] \in HashTables /\ Entries(table[t]) \subseteq Ids
      BY <2>1, <2>2 DEF Basics, Pointers
    <3>2. \A i \in Buckets : /\ table[t].chain[i] \in Seq(Nat)
                             /\ Range(table[t].chain[i]) \subseteq Ids
      BY <3>1, EntriesFacts
    <3>3. \A i \in Buckets : table[t].chain[i] \in Seq(Ids)
      BY <3>2, SequenceOfIds
    <3>4. QED
      BY <3>1, <3>3 DEF HashTables, Buckets
  <2>4. ctl.pc \in CtlSteps /\ ctl.i \in 0 .. TableSize - 1
    BY <2>2, ControlFields DEF Buckets
  <2>5. ctl.av \in Seq(Ids)
    BY <2>1, <2>2, ControlFields, SequenceOfIds DEF Basics, Pointers
  <2>6. op \in [Threads -> [pc : Steps, key : Keys \cup {0}, csp : Ids \cup {0},
                            id : Nat, seen : Nat]]
    <3>1. \A t \in Threads : op[t].csp \in Ids \cup {0}
      BY <2>1 DEF Basics, Pointers
    <3>2. QED
      BY <2>2, <3>1 DEF Ops
  <2>7. QED
    BY <2>1, <2>2, <2>3, <2>4, <2>5, <2>6 DEF TypeOK, Basics, Types, Records
<1>2. QED
  BY <1>1, BasicsInvariant, PTL

-----------------------------------------------------------------------------
(***************************************************************************)
(* The chains hold each record where its key belongs.                      *)
(***************************************************************************)
LEMMA CreateRecord ==
    ASSUME Basics, NEW t \in Threads, CreateCallsite(t)
    PROVE  RecAdded(op[t].key, tmpCtr) /\ op[t].key \in Keys /\ tmpCtr \in Nat
<1>1. op[t].key \in Keys /\ tmpCtr \in Nat /\ rec \in Seq(Records)
  BY DEF CreateCallsite, Basics, Stands, Types
<1>2. rec' = Append(rec, NewRecord(op[t].key, tmpCtr))
  BY DEF CreateCallsite
<1>3. QED
  BY <1>1, <1>2, RecNew

LEMMA CountEffect ==
    ASSUME Basics, NEW t \in Threads, UpdateCount(t)
    PROVE  /\ RecKept /\ op[t].csp \in Ids
           /\ rec'[op[t].csp].count = rec[op[t].csp].count + 1
           /\ \A q \in Ids \ {op[t].csp} : rec'[q] = rec[q]
           /\ \A q \in Ids : rec'[q].time = rec[q].time
<1>1. op[t].csp \in Ids /\ rec \in Seq(Records)
  BY DEF UpdateCount, Basics, Pointers, Types
<1>2. PICK p \in Ids : p = op[t].csp
  BY <1>1
<1>3. PICK n \in Nat : n = rec[op[t].csp].count + 1
  <2>1. rec[op[t].csp].count \in Nat
    BY <1>1, RecFields
  <2>2. QED
    BY <2>1
<1>4. rec' = [rec EXCEPT ![p].count = n]
  BY <1>2, <1>3 DEF UpdateCount
<1>5. QED
  BY <1>1, <1>2, <1>3, <1>4, RecCount

LEMMA TimeEffect ==
    ASSUME Basics, NEW t \in Threads, UpdateTime(t)
    PROVE  /\ RecKept /\ op[t].csp \in Ids
           /\ rec'[op[t].csp].time = rec[op[t].csp].time + 1
           /\ \A q \in Ids \ {op[t].csp} : rec'[q] = rec[q]
           /\ \A q \in Ids : rec'[q].count = rec[q].count
<1>1. op[t].csp \in Ids /\ rec \in Seq(Records)
  BY DEF UpdateTime, Basics, Pointers, Types
<1>2. PICK p \in Ids : p = op[t].csp
  BY <1>1
<1>3. PICK n \in Nat : n = rec[op[t].csp].time + 1
  <2>1. rec[op[t].csp].time \in Nat
    BY <1>1, RecFields
  <2>2. QED
    BY <2>1
<1>4. rec' = [rec EXCEPT ![p].time = n]
  BY <1>2, <1>3 DEF UpdateTime
<1>5. QED
  BY <1>1, <1>2, <1>3, <1>4, RecTime

(* No record loses its key or its number. *)
NewKey(p) == rec'[p].key
KeysKept == Ids \subseteq Ids' /\ \A p \in Ids : NewKey(p) = Key(p) /\ rec'[p].tmpid = rec[p].tmpid

LEMMA UpdateKeys ==
    ASSUME Basics, NEW t \in Threads, Update(t)
    PROVE  KeysKept
<1>1. CASE CreateCallsite(t)
  BY <1>1, CreateRecord DEF RecAdded, KeysKept, Key, NewKey
<1>2. CASE UpdateCount(t)
  BY <1>2, CountEffect DEF RecKept, KeysKept, Key, NewKey
<1>3. CASE UpdateTime(t)
  BY <1>3, TimeEffect DEF RecKept, KeysKept, Key, NewKey
<1>4. CASE UNCHANGED rec
  BY <1>4 DEF KeysKept, Ids, Key, NewKey
<1>5. QED
  BY <1>1, <1>2, <1>3, <1>4
     DEF Update, SearchCallsite, NumberCallsite, LinkCallsite, BumpCount, UpdateHist, memory

LEMMA ControlKeys ==
    ASSUME Basics, Control
    PROVE  KeysKept
<1>1. CASE InsertInRank
  BY <1>1, InsertRecord DEF RecAdded, KeysKept, Key, NewKey, Basics
<1>2. CASE MergeCount
  BY <1>2, MergeCountEffect DEF RecKept, KeysKept, Key, NewKey, Basics
<1>3. CASE MergeTime
  BY <1>3, MergeTimeEffect DEF RecKept, KeysKept, Key, NewKey, Basics
<1>4. CASE UNCHANGED rec
  BY <1>4 DEF KeysKept, Ids, Key, NewKey
<1>5. QED
  BY <1>1, <1>2, <1>3, <1>4
     DEF Control, StartReport, StartReset, DrainRank, GatherAlloc, GatherChain, FreeChain,
         ZeroCount, ReleaseRecords, FindInRank, MergeHist, EndControl, memory

(* Chains that stay or are emptied keep it so, *)
LEMMA ChainedKept ==
    ASSUME Basics, Chained, KeysKept,
           \A u \in Tables : \A i \in Buckets : \/ table'[u].chain[i] = table[u].chain[i]
                                               \/ table'[u].chain[i] = <<>>
    PROVE  Chained'
<1>1. ASSUME NEW u \in Tables, NEW i \in Buckets, NEW j \in DOMAIN table'[u].chain[i],
             NEW l \in DOMAIN table'[u].chain[i]
      PROVE  /\ Index(NewKey(table'[u].chain[i][j])) = i
             /\ NewKey(table'[u].chain[i][j]) = NewKey(table'[u].chain[i][l]) => j = l
  <2>1. table'[u].chain[i] = table[u].chain[i]
    BY <1>1
  <2>2. table[u] \in HashTables /\ Entries(table[u]) \subseteq Ids
    BY DEF Basics, Types, Pointers
  <2>3. \A m \in DOMAIN table[u].chain[i] : table[u].chain[i][m] \in Ids
    BY <2>2, EntriesFacts DEF Range
  <2>4. /\ NewKey(table'[u].chain[i][j]) = Key(table[u].chain[i][j])
        /\ NewKey(table'[u].chain[i][l]) = Key(table[u].chain[i][l])
    BY <1>1, <2>1, <2>3 DEF KeysKept
  <2>5. QED
    BY <1>1, <2>1, <2>4 DEF Chained
<1>2. QED
  BY <1>1 DEF Chained, Index, Key, NewKey

(* and so does a new record at the head of the chain of its key. *)
LEMMA ChainedGrows ==
    ASSUME Basics, Chained, KeysKept, NEW v \in Tables, NEW k \in Keys, NEW p \in Nat,
           NewKey(p) = k, \A q \in Range(table[v].chain[Index(k)]) : Key(q) # k,
           table'[v].chain[Index(k)] = <<p>> \o table[v].chain[Index(k)],
           \A j \in Buckets \ {Index(k)} : table'[v].chain[j] = table[v].chain[j],
           \A u \in Tables \ {v} : table'[u] = table[u]
    PROVE  Chained'
<1>1. ASSUME NEW u \in Tables, NEW i \in Buckets, u # v \/ i # Index(k),
             NEW j \in DOMAIN table'[u].chain[i], NEW l \in DOMAIN table'[u].chain[i]
      PROVE  /\ Index(NewKey(table'[u].chain[i][j])) = i
             /\ NewKey(table'[u].chain[i][j]) = NewKey(table'[u].chain[i][l]) => j = l
  <2>1. table'[u].chain[i] = table[u].chain[i]
    BY <1>1
  <2>2. table[u] \in HashTables /\ Entries(table[u]) \subseteq Ids
    BY DEF Basics, Types, Pointers
  <2>3. \A m \in DOMAIN table[u].chain[i] : table[u].chain[i][m] \in Ids
    BY <2>2, EntriesFacts DEF Range
  <2>4. /\ NewKey(table'[u].chain[i][j]) = Key(table[u].chain[i][j])
        /\ NewKey(table'[u].chain[i][l]) = Key(table[u].chain[i][l])
    BY <1>1, <2>1, <2>3 DEF KeysKept
  <2>5. QED
    BY <1>1, <2>1, <2>4 DEF Chained
<1>2. PICK s \in Seq(Nat) : s = table[v].chain[Index(k)] /\ Range(s) \subseteq Ids
  <2>1. table[v] \in HashTables /\ Entries(table[v]) \subseteq Ids
    BY DEF Basics, Types, Pointers
  <2>2. QED
    BY <2>1, IndexInBuckets, EntriesFacts
<1>3. PICK new : new = table'[v].chain[Index(k)]
  OBVIOUS
<1>4. /\ new \in Seq(Nat) /\ DOMAIN new = 1 .. Len(s) + 1 /\ new[1] = p
      /\ \A m \in 1 .. Len(s) : new[m + 1] = s[m]
  BY <1>2, <1>3, PrependFacts
<1>5. /\ DOMAIN s = 1 .. Len(s) /\ Len(s) \in Nat
      /\ \A m \in 1 .. Len(s) : s[m] \in Range(s) /\ s[m] \in Ids
  <2>1. DOMAIN s = 1 .. Len(s) /\ Len(s) \in Nat
    OBVIOUS
  <2>2. \A m \in 1 .. Len(s) : s[m] \in Range(s)
    BY <2>1 DEF Range
  <2>3. QED
    BY <1>2, <2>1, <2>2
<1>6. \A m, n \in 1 .. Len(s) : /\ Index(Key(s[m])) = Index(k)
                                /\ Key(s[m]) = Key(s[n]) => m = n
  <2>1. SUFFICES ASSUME NEW m \in DOMAIN s, NEW n \in DOMAIN s
                 PROVE  /\ Index(Key(s[m])) = Index(k)
                        /\ Key(s[m]) = Key(s[n]) => m = n
    BY <1>5
  <2>2. Index(k) \in Buckets
    BY IndexInBuckets
  <2>3. QED
    BY <1>2, <2>1, <2>2 DEF Chained
<1>7. \A m \in 1 .. Len(s) : NewKey(s[m]) = Key(s[m]) /\ Key(s[m]) # k
  BY <1>2, <1>5 DEF KeysKept
<1>8. \A m \in 1 .. Len(s) + 1 : m = 1 \/ (m - 1 \in 1 .. Len(s) /\ new[m] = s[m - 1])
  <2>1. SUFFICES ASSUME NEW m \in 1 .. Len(s) + 1, m # 1
                 PROVE  m - 1 \in 1 .. Len(s) /\ new[m] = s[m - 1]
    OBVIOUS
  <2>2. m - 1 \in 1 .. Len(s) /\ (m - 1) + 1 = m
    BY <1>5, <2>1
  <2>3. QED
    BY <1>4, <2>2
<1>9. ASSUME NEW j \in DOMAIN new, NEW l \in DOMAIN new
      PROVE  /\ Index(NewKey(new[j])) = Index(k)
             /\ NewKey(new[j]) = NewKey(new[l]) => j = l
  <2>1. j \in 1 .. Len(s) + 1 /\ l \in 1 .. Len(s) + 1
    BY <1>4, <1>9
  <2>2. j = 1 \/ (j - 1 \in 1 .. Len(s) /\ new[j] = s[j - 1])
    BY <1>8, <2>1
  <2>3. l = 1 \/ (l - 1 \in 1 .. Len(s) /\ new[l] = s[l - 1])
    BY <1>8, <2>1
  <2>4. /\ new[1] = p /\ NewKey(p) = k
        /\ \A m \in 1 .. Len(s) : NewKey(s[m]) = Key(s[m]) /\ Key(s[m]) # k
        /\ \A m, n \in 1 .. Len(s) : /\ Index(Key(s[m])) = Index(k)
                                     /\ Key(s[m]) = Key(s[n]) => m = n
    BY <1>4, <1>6, <1>7
  <2>5. Index(NewKey(new[j])) = Index(k)
    BY <2>2, <2>4
  <2>6. ASSUME NewKey(new[j]) = NewKey(new[l])
        PROVE  j = l
    <3>1. CASE j = 1 \/ l = 1
      BY <2>2, <2>3, <2>4, <2>6, <3>1
    <3>2. CASE j # 1 /\ l # 1
      <4>1. PICK x \in 1 .. Len(s), y \in 1 .. Len(s) :
                x = j - 1 /\ y = l - 1 /\ new[j] = s[x] /\ new[l] = s[y]
        BY <2>2, <2>3, <3>2
      <4>2. x = y
        BY <2>4, <2>6, <4>1
      <4>3. QED
        BY <1>5, <2>1, <4>1, <4>2
    <3>3. QED
      BY <3>1, <3>2
  <2>7. QED
    BY <2>5, <2>6
<1>10. ASSUME NEW u \in Tables, NEW i \in Buckets,
              NEW j \in DOMAIN table'[u].chain[i], NEW l \in DOMAIN table'[u].chain[i]
       PROVE  /\ Index(NewKey(table'[u].chain[i][j])) = i
              /\ NewKey(table'[u].chain[i][j]) = NewKey(table'[u].chain[i][l]) => j = l
  <2>1. CASE u = v /\ i = Index(k)
    BY <1>3, <1>9, <1>10, <2>1
  <2>2. CASE u # v \/ i # Index(k)
    BY <1>1, <1>10, <2>2
  <2>3. QED
    BY <2>1, <2>2
<1>11. QED
  BY <1>10 DEF Chained, Index, Key, NewKey

LEMMA ChainedInsert ==
    ASSUME Basics, Placed, InsertInRank
    PROVE  Chained'
<1> DEFINE k == Key(Head(ctl.av))
<1>1. /\ RecAdded(k, ctl.id) /\ k \in Keys /\ Len(rec) \in Nat
      /\ table \in [Tables -> HashTables] /\ Rank \in Tables
  BY InsertRecord DEF Basics, Types, Tables
<1>2. KeysKept
  BY ControlKeys DEF Control
<1>3. CASE Lookup(Rank, k) = 0
  <2>1. PICK n \in Nat : n = Len(rec) + 1
    BY <1>1
  <2>2. NewKey(n) = k
    BY <1>1, <2>1 DEF RecAdded, NewKey
  <2>3. /\ table'[Rank].chain[Index(k)] = <<n>> \o table[Rank].chain[Index(k)]
        /\ \A j \in Buckets \ {Index(k)} : table'[Rank].chain[j] = table[Rank].chain[j]
        /\ \A u \in Tables \ {Rank} : table'[u] = table[u]
    BY <1>3, <2>1, InsertEffect DEF Basics
  <2>4. \A q \in Range(table[Rank].chain[Index(k)]) : Key(q) # k
    BY <1>1, <1>3, LookupFinds DEF Basics
  <2>5. PICK kk \in Keys : kk = k
    BY <1>1
  <2>6. QED
    BY <1>1, <1>2, <2>2, <2>3, <2>4, <2>5, ChainedGrows DEF Placed
<1>4. CASE Lookup(Rank, k) # 0
  <2>1. table' = [table EXCEPT ![Rank] = @]
    BY <1>4 DEF InsertInRank, Insert, Lookup
  <2>2. table' = table
    BY <1>1, <2>1
  <2>3. QED
    BY <1>2, <2>2, ChainedKept DEF Placed
<1>5. QED
  BY <1>3, <1>4

LEMMA ChainedLink ==
    ASSUME Basics, Placed, NEW t \in Threads, LinkCallsite(t)
    PROVE  Chained'
<1>1. /\ op[t].key \in Keys /\ op[t].csp \in Ids /\ Ids \subseteq Nat
      /\ Key(op[t].csp) = op[t].key /\ t \in Tables
  BY RecFields DEF LinkCallsite, Basics, Stands, Pointers, Types, Placed, Linking, Tables
<1>2. KeysKept
  BY UpdateKeys DEF Update
<1>3. CASE Lookup(t, op[t].key) = 0
  <2>1. PICK k \in Keys : k = op[t].key
    BY <1>1
  <2>2. PICK p \in Nat : p = op[t].csp
    BY <1>1
  <2>3. NewKey(p) = k
    BY <1>1, <1>2, <2>1, <2>2 DEF KeysKept
  <2>4. /\ table'[t].chain[Index(k)] = <<p>> \o table[t].chain[Index(k)]
        /\ \A j \in Buckets \ {Index(k)} : table'[t].chain[j] = table[t].chain[j]
        /\ \A u \in Tables \ {t} : table'[u] = table[u]
    BY <1>3, <2>1, <2>2, LinkEffect DEF Basics
  <2>5. \A q \in Range(table[t].chain[Index(k)]) : Key(q) # k
    BY <1>1, <1>3, <2>1, LookupFinds DEF Basics
  <2>6. QED
    BY <1>1, <1>2, <2>3, <2>4, <2>5, ChainedGrows DEF Placed
<1>4. CASE Lookup(t, op[t].key) # 0
  <2>1. UNCHANGED table
    BY <1>4 DEF LinkCallsite
  <2>2. QED
    BY <1>2, <2>1, ChainedKept DEF Placed
<1>5. QED
  BY <1>3, <1>4

LEMMA ChainedStep == Basics /\ Placed /\ Next => Chained'
<1>1. SUFFICES ASSUME Basics, Placed, Next
               PROVE  Chained'
  OBVIOUS
<1>2. CASE InsertInRank
  BY <1>1, <1>2, ChainedInsert
<1>3. ASSUME NEW t \in Threads, LinkCallsite(t)
      PROVE  Chained'
  BY <1>1, <1>3, ChainedLink
<1>4. KeysKept
  BY <1>1, ControlKeys, UpdateKeys DEF Next
<1>5. CASE UNCHANGED table
  BY <1>1, <1>4, <1>5, ChainedKept DEF Placed
<1>6. ASSUME NEW t \in Threads, BumpCount(t)
      PROVE  Chained'
  <2>1. \A u \in Tables : table'[u].chain = table[u].chain
    BY <1>1, <1>6, BumpEffect DEF Basics
  <2>2. QED
    BY <1>1, <1>4, <2>1, ChainedKept DEF Placed
<1>7. CASE DrainRank
  <2>1. /\ \A i \in Buckets : table'[Rank].chain[i] = <<>>
        /\ \A u \in Tables \ {Rank} : table'[u] = table[u]
    BY <1>1, <1>7, RankEffect DEF Basics
  <2>2. QED
    BY <1>1, <1>4, <2>1, ChainedKept DEF Placed
<1>8. CASE FreeChain
  <2>1. /\ table'[Current].chain[ctl.i] = <<>>
        /\ \A j \in Buckets \ {ctl.i} : table'[Current].chain[j] = table[Current].chain[j]
        /\ \A u \in Tables \ {Current} : table'[u] = table[u]
    BY <1>1, <1>8, FreeEffect DEF Basics
  <2>2. QED
    BY <1>1, <1>4, <2>1, ChainedKept DEF Placed
<1>9. CASE ZeroCount
  <2>1. \A u \in Tables : table'[u].chain = table[u].chain
    BY <1>1, <1>9, ZeroEffect DEF Basics
  <2>2. QED
    BY <1>1, <1>4, <2>1, ChainedKept DEF Placed
<1>10. ASSUME NEW t \in Threads, Update(t)
       PROVE  LinkCallsite(t) \/ BumpCount(t) \/ UNCHANGED table
  BY <1>10 DEF Update, SearchCallsite, CreateCallsite, NumberCallsite, UpdateCount, UpdateTime,
               UpdateHist
<1>11. ASSUME Control
       PROVE  InsertInRank \/ DrainRank \/ FreeChain \/ ZeroCount \/ UNCHANGED table
  BY <1>11 DEF Control, StartReport, StartReset, GatherAlloc, GatherChain, ReleaseRecords,
               FindInRank, MergeCount, MergeTime, MergeHist, EndControl
<1>12. QED
  BY <1>1, <1>2, <1>3, <1>5, <1>6, <1>7, <1>8, <1>9, <1>10, <1>11 DEF Next

(* The record to be linked keeps its key. *)
LinksKey == \A t \in Threads : op[t].pc \in Linking => Key(op[t].csp) = op[t].key

LEMMA PlacedStep == Basics /\ Placed /\ [Next]_vars => Placed'
<1>1. SUFFICES ASSUME Basics, Placed, [Next]_vars
               PROVE  Placed'
  OBVIOUS
<1>2. /\ op \in [Threads -> Ops] /\ Len(rec) \in Nat /\ tmpCtr \in Nat
      /\ table \in [Tables -> HashTables] /\ \A t \in Threads : t \in Tables
      /\ \A t \in Threads : op[t].pc \in Linking => op[t].csp \in Ids
  BY <1>1 DEF Basics, Types, Pointers, Tables
<1>3. ASSUME KeysKept, NEW t \in Threads, Others(t),
             op'[t].pc \in Linking => NewKey(op'[t].csp) = op'[t].key
      PROVE  LinksKey'
  <2>1. ASSUME NEW u \in Threads, op'[u].pc \in Linking
        PROVE  NewKey(op'[u].csp) = op'[u].key
    <3>1. CASE u = t
      BY <1>3, <2>1, <3>1
    <3>2. CASE u # t
      <4>1. op'[u] = op[u]
        BY <1>3, <3>2 DEF Others
      <4>2. op[u].csp \in Ids /\ Key(op[u].csp) = op[u].key
        BY <1>1, <1>2, <2>1, <4>1 DEF Placed
      <4>3. QED
        BY <1>3, <4>1, <4>2 DEF KeysKept
    <3>3. QED
      BY <3>1, <3>2
  <2>2. QED
    BY <2>1 DEF LinksKey, Key, NewKey
<1>4. ASSUME NEW t \in Threads, Update(t)
      PROVE  LinksKey'
  <2>1. KeysKept
    BY <1>1, <1>4, UpdateKeys
  <2>2. ASSUME NEW k \in Keys, SearchCallsite(t, k)
        PROVE  LinksKey'
    <3>1. Lookup(t, k) \in Nat
      BY <1>1, <1>2, LookupFinds DEF Basics
    <3>2. Others(t) /\ op'[t].pc \in {"create", "count"}
      BY <1>2, <2>2, <3>1, SearchMoves
    <3>3. QED
      BY <1>3, <2>1, <3>2 DEF Linking
  <2>3. CASE CreateCallsite(t)
    <3>1. Others(t) /\ op'[t].csp = Len(rec) + 1 /\ op'[t].key = op[t].key
      BY <1>2, <2>3, CreateMoves
    <3>2. NewKey(Len(rec) + 1) = op[t].key
      BY <1>1, <2>3, CreateRecord DEF RecAdded, NewKey
    <3>3. QED
      BY <1>3, <2>1, <3>1, <3>2
  <2>4. CASE NumberCallsite(t)
    <3>1. Others(t) /\ op'[t].csp = op[t].csp /\ op'[t].key = op[t].key /\ op[t].pc = "number"
      BY <1>2, <2>4, NumberMoves DEF NumberCallsite
    <3>2. op[t].csp \in Ids /\ Key(op[t].csp) = op[t].key
      BY <1>1, <1>2, <3>1 DEF Placed, Linking
    <3>3. QED
      BY <1>3, <2>1, <3>1, <3>2 DEF KeysKept
  <2>5. CASE LinkCallsite(t) \/ BumpCount(t) \/ UpdateCount(t) \/ UpdateTime(t)
    <3>1. table[t].count \in Nat
      BY <1>2 DEF HashTables
    <3>2. Others(t) /\ op'[t].pc \notin Linking
      BY <1>2, <2>5, <3>1, LinkMoves, BumpMoves, CountMoves, TimeMoves DEF Linking
    <3>3. QED
      BY <1>3, <2>1, <3>2
  <2>6. CASE UpdateHist(t)
    <3>1. Others(t) /\ op'[t].pc \notin Linking
      BY <1>2, <2>6, HistMoves DEF Idle, Linking
    <3>2. QED
      BY <1>3, <2>1, <3>1
  <2>7. QED
    BY <1>4, <2>2, <2>3, <2>4, <2>5, <2>6 DEF Update
<1>5. ASSUME Control
      PROVE  LinksKey'
  <2>1. KeysKept /\ op' = op
    BY <1>1, <1>5, ControlKeys, ControlUntouched DEF Untouched
  <2>2. \A u \in Threads : op[u].pc \in Linking => NewKey(op[u].csp) = op[u].key
    BY <1>1, <1>2, <2>1 DEF Placed, KeysKept
  <2>3. QED
    BY <2>1, <2>2 DEF LinksKey, Key, NewKey
<1>6. CASE Next
  <2>1. Chained'
    BY <1>1, <1>6, ChainedStep
  <2>2. LinksKey'
    BY <1>4, <1>5, <1>6 DEF Next
  <2>3. QED
    BY <2>1, <2>2 DEF Placed, LinksKey
<1>7. CASE UNCHANGED vars
  <2>1. UNCHANGED <<table, rec, op>>
    BY <1>7 DEF vars, memory, opVars
  <2>2. QED
    BY <1>1, <2>1 DEF Placed, Chained, Key
<1>8. QED
  BY <1>1, <1>6, <1>7

LEMMA PlacedInvariant == Spec => [](Basics /\ Placed)
<1>1. Init => Placed
  <2>1. SUFFICES ASSUME Init
                 PROVE  Placed
    OBVIOUS
  <2>2. \A t \in Tables : table[t] = Open(TableSize)
    BY <2>1 DEF Init
  <2>3. \A t \in Tables : \A i \in Buckets : table[t].chain[i] = <<>>
    BY <2>2, OpenFacts
  <2>4. \A t \in Threads : op[t].pc \notin Linking
    BY <2>1 DEF Init, Idle, Linking
  <2>5. QED
    BY <2>3, <2>4 DEF Placed, Chained
<1>2. Init => Basics
  BY InitTypes DEF Basics
<1>3. QED
  BY <1>1, <1>2, BasicsStep, PlacedStep, PTL DEF Spec

-----------------------------------------------------------------------------
(***************************************************************************)
(* The numbers of callsites.                                               *)
(***************************************************************************)
(* Under the funneled discipline only Main has a call under way. *)
LEMMA FunneledMain ==
    ASSUME discipline = "funneled", Numbered, NEW t \in Threads, Update(t)
    PROVE  t = Main
<1>1. ASSUME NEW k \in Keys, SearchCallsite(t, k)
      PROVE  t = Main
  BY <1>1 DEF SearchCallsite, MayCall
<1>2. ASSUME op[t].pc # "idle"
      PROVE  t = Main
  BY <1>2 DEF Numbered
<1>3. QED
  BY <1>1, <1>2 DEF Update, CreateCallsite, NumberCallsite, LinkCallsite, BumpCount,
                    UpdateCount, UpdateTime, UpdateHist

LEMMA NumberedUpdate ==
    ASSUME Basics, discipline = "funneled", Numbered, NEW t \in Threads, Update(t)
    PROVE  Numbered'
<1>1. /\ op \in [Threads -> Ops] /\ Len(rec) \in Nat /\ tmpCtr \in Nat /\ t = Main
      /\ table[t].count \in Nat /\ rec \in Seq(Records) /\ t \in Tables
  BY FunneledMain DEF Basics, Types, Tables, HashTables
<1>2. UNCHANGED ctl
  BY DEF Update, SearchCallsite, CreateCallsite, NumberCallsite, LinkCallsite, BumpCount,
         UpdateCount, UpdateTime, UpdateHist
<1>3. ctl.pc # "insert"
  <2>1. op[t].pc # "idle" => ctl.pc = "idle"
    BY <1>1 DEF Basics, Stands
  <2>2. QED
    BY <1>1, <2>1 DEF Update, SearchCallsite, MayCall, CreateCallsite, NumberCallsite,
           LinkCallsite, BumpCount, UpdateCount, UpdateTime, UpdateHist
<1>4. /\ \A u \in Threads \ {Main} : op[u].pc = "idle"
      /\ \A p, q \in Ids : p # q => rec[p].tmpid # rec[q].tmpid
      /\ \A p \in Ids : rec[p].tmpid \in Nat
      /\ op[Main].pc # "number" => \A p \in Ids : rec[p].tmpid < tmpCtr
  BY <1>1, RecFields DEF Numbered
<1>5. ASSUME Ids' = Ids, \A p \in Ids : rec'[p].tmpid = rec[p].tmpid, Others(t),
             UNCHANGED tmpCtr, op[t].pc # "number", op'[t].pc # "number"
      PROVE  Numbered'
  <2>1. \A u \in Threads \ {Main} : op'[u].pc = "idle"
    BY <1>1, <1>4, <1>5 DEF Others
  <2>2. \A p, q \in Ids' : p # q => rec'[p].tmpid # rec'[q].tmpid
    BY <1>4, <1>5
  <2>3. \A p \in Ids' : rec'[p].tmpid < tmpCtr'
    BY <1>1, <1>4, <1>5
  <2>4. QED
    BY <1>1, <1>2, <1>3, <1>5, <2>1, <2>2, <2>3 DEF Numbered
<1>6. UNCHANGED rec => Ids' = Ids
  BY DEF Ids
<1>7. ASSUME NEW k \in Keys, SearchCallsite(t, k)
      PROVE  Numbered'
  <2>1. Lookup(t, k) \in Nat
    BY <1>1, LookupFinds DEF Basics
  <2>2. Others(t) /\ op'[t].pc # "number"
    BY <1>1, <1>7, <2>1, SearchMoves
  <2>3. UNCHANGED <<rec, tmpCtr>> /\ op[t].pc = "idle"
    BY <1>7 DEF SearchCallsite, memory
  <2>4. QED
    BY <1>5, <1>6, <2>2, <2>3
<1>8. CASE CreateCallsite(t)
  <2>1. /\ Others(t) /\ op'[t].pc = "number" /\ op'[t].csp = Len(rec) + 1
        /\ op'[t].id = tmpCtr /\ op[t].pc = "create" /\ UNCHANGED tmpCtr
    BY <1>1, <1>8, CreateMoves DEF CreateCallsite
  <2>2. PICK n : /\ n = Len(rec) + 1 /\ n \notin Ids /\ Ids' = Ids \cup {n}
                 /\ rec'[n].tmpid = tmpCtr
                 /\ \A p \in Ids : rec'[p].tmpid = rec[p].tmpid
    BY <1>8, CreateRecord DEF RecAdded
  <2>3. \A p \in Ids : rec[p].tmpid < tmpCtr
    BY <1>4, <2>1, <1>1
  <2>4. \A p \in Ids : rec[p].tmpid # tmpCtr
    BY <1>1, <1>4, <2>3
  <2>5. \A p, q \in Ids' : p # q => rec'[p].tmpid # rec'[q].tmpid
    BY <1>4, <2>2, <2>4
  <2>6. \A u \in Threads \ {Main} : op'[u].pc = "idle"
    BY <1>1, <1>4, <2>1 DEF Others
  <2>7. \A p \in Ids' : \/ rec'[p].tmpid < tmpCtr'
                        \/ op'[Main].pc = "number" /\ op'[Main].csp = p /\ rec'[p].tmpid = tmpCtr'
    BY <1>1, <2>1, <2>2, <2>3
  <2>8. QED
    BY <1>1, <1>2, <1>3, <2>1, <2>5, <2>6, <2>7 DEF Numbered
<1>9. CASE NumberCallsite(t)
  <2>1. /\ Others(t) /\ op'[t].pc = "link" /\ op[t].pc = "number" /\ UNCHANGED rec
        /\ tmpCtr' = op[t].id + 1
    BY <1>1, <1>9, NumberMoves DEF NumberCallsite
  <2>2. op[t].id = tmpCtr /\ \A p \in Ids : rec[p].tmpid < tmpCtr \/ rec[p].tmpid = tmpCtr
    BY <1>1, <2>1 DEF Numbered
  <2>3. \A p \in Ids : rec[p].tmpid < tmpCtr'
    BY <1>1, <1>4, <2>1, <2>2
  <2>4. \A u \in Threads \ {Main} : op'[u].pc = "idle"
    BY <1>1, <1>4, <2>1 DEF Others
  <2>5. QED
    BY <1>1, <1>2, <1>3, <1>4, <1>6, <2>1, <2>3, <2>4 DEF Numbered
<1>10. CASE LinkCallsite(t) \/ BumpCount(t)
  <2>1. /\ Others(t) /\ op[t].pc # "number" /\ op'[t].pc # "number" /\ UNCHANGED <<rec, tmpCtr>>
    BY <1>1, <1>10, LinkMoves, BumpMoves DEF LinkCallsite, BumpCount, memory
  <2>2. QED
    BY <1>5, <1>6, <2>1
<1>11. CASE UpdateCount(t) \/ UpdateTime(t)
  <2>1. /\ Others(t) /\ op[t].pc # "number" /\ op'[t].pc # "number" /\ UNCHANGED tmpCtr
    BY <1>1, <1>11, CountMoves, TimeMoves DEF UpdateCount, UpdateTime
  <2>2. Ids' = Ids /\ \A p \in Ids : rec'[p].tmpid = rec[p].tmpid
    BY <1>11, CountEffect, TimeEffect DEF RecKept
  <2>3. QED
    BY <1>5, <2>1, <2>2
<1>12. CASE UpdateHist(t)
  <2>1. Others(t) /\ op'[t] = Idle /\ op[t].pc # "number" /\ UNCHANGED <<rec, tmpCtr>>
    BY <1>1, <1>12, HistMoves DEF UpdateHist, memory
  <2>2. QED
    BY <1>5, <1>6, <2>1 DEF Idle
<1>13. QED
  BY <1>7, <1>8, <1>9, <1>10, <1>11, <1>12 DEF Update

LEMMA NumberedControl ==
    ASSUME Basics, Numbered, Control
    PROVE  Numbered'
<1>1. /\ ctl \in Controls /\ Len(rec) \in Nat /\ tmpCtr \in Nat /\ rec \in Seq(Records)
      /\ table \in [Tables -> HashTables]
  BY DEF Basics, Types
<1>2. UNCHANGED op
  BY ControlUntouched DEF Untouched
<1>3. /\ \A u \in Threads \ {Main} : op[u].pc = "idle"
      /\ \A p, q \in Ids : p # q => rec[p].tmpid # rec[q].tmpid
      /\ \A p \in Ids : rec[p].tmpid \in Nat
      /\ op[Main].pc # "number" => \A p \in Ids : rec[p].tmpid < tmpCtr
  BY <1>1, RecFields DEF Numbered
<1>4. ASSUME Ids' = Ids, \A p \in Ids : rec'[p].tmpid = rec[p].tmpid, UNCHANGED tmpCtr,
             ctl'.pc = "insert" => ctl'.id = tmpCtr
      PROVE  Numbered'
  BY <1>2, <1>3, <1>4 DEF Numbered
<1>5. UNCHANGED rec => Ids' = Ids
  BY DEF Ids
<1>6. CASE InsertInRank
  <2>1. op[Main].pc = "idle" /\ ctl.id = tmpCtr /\ ctl'.pc = "addcount"
    BY <1>1, <1>6, InsertMoves DEF InsertInRank, Basics, Stands, Numbered
  <2>2. PICK n : /\ n = Len(rec) + 1 /\ n \notin Ids /\ Ids' = Ids \cup {n}
                 /\ rec'[n].tmpid = ctl.id /\ tmpCtr' = ctl.id + 1
                 /\ \A p \in Ids : rec'[p].tmpid = rec[p].tmpid
    BY <1>6, InsertRecord DEF RecAdded, Basics
  <2>3. \A p \in Ids : rec[p].tmpid < tmpCtr
    BY <1>3, <2>1
  <2>4. \A p \in Ids' : rec'[p].tmpid < tmpCtr'
    BY <1>1, <1>3, <2>1, <2>2, <2>3
  <2>5. \A p \in Ids : rec[p].tmpid # tmpCtr
    BY <1>1, <1>3, <2>3
  <2>6. \A p, q \in Ids' : p # q => rec'[p].tmpid # rec'[q].tmpid
    BY <1>3, <2>1, <2>2, <2>5
  <2>7. QED
    BY <1>2, <1>3, <2>1, <2>4, <2>6 DEF Numbered
<1>7. CASE FindInRank
  <2>1. Key(Head(ctl.av)) \in Keys /\ Rank \in Tables
    BY <1>7, HeadRecord DEF FindInRank, Basics, Tables
  <2>2. Lookup(Rank, Key(Head(ctl.av))) \in Nat
    BY <2>1, LookupFinds DEF Basics
  <2>3. ctl'.id = tmpCtr
    BY <1>1, <1>7, <2>2, FindMoves
  <2>4. UNCHANGED <<rec, tmpCtr>>
    BY <1>7 DEF FindInRank, memory
  <2>5. QED
    BY <1>4, <1>5, <2>3, <2>4
<1>8. CASE MergeCount \/ MergeTime
  <2>1. ctl.av # <<>>
    BY <1>8 DEF MergeCount, MergeTime, Basics, Stands
  <2>2. ctl'.pc # "insert"
    BY <1>1, <1>8, <2>1, MergeCountMoves, MergeTimeMoves
  <2>3. UNCHANGED tmpCtr
    BY <1>8 DEF MergeCount, MergeTime
  <2>4. Ids' = Ids /\ \A p \in Ids : rec'[p].tmpid = rec[p].tmpid
    BY <1>8, MergeCountEffect, MergeTimeEffect DEF RecKept, Basics
  <2>5. QED
    BY <1>4, <2>2, <2>3, <2>4
<1>9. ASSUME UNCHANGED <<rec, tmpCtr>>, ctl'.pc # "insert"
      PROVE  Numbered'
  BY <1>4, <1>5, <1>9
<1>10. CASE StartReport \/ StartReset
  BY <1>9, <1>10, StartMoves DEF StartReport, StartReset, memory
<1>11. CASE DrainRank
  BY <1>1, <1>9, <1>11, RankMoves DEF DrainRank
<1>12. CASE GatherAlloc
  <2>1. table[Current].count \in Nat
    BY <1>1, <1>12, CurrentThread DEF GatherAlloc, HashTables, Basics
  <2>2. QED
    BY <1>1, <1>9, <1>12, <2>1, AllocMoves DEF GatherAlloc, memory
<1>13. CASE GatherChain
  <2>1. table[Current].chain[ctl.i] \in Seq(Nat)
    BY <1>1, <1>13, CurrentThread, ControlFields, EntriesFacts DEF GatherChain, Basics
  <2>2. ctl'.pc # "insert"
    BY <1>1, <1>13, <2>1, GatherMoves DEF Goes
  <2>3. QED
    BY <1>9, <1>13, <2>2 DEF GatherChain, memory
<1>14. CASE FreeChain
  <2>1. ctl'.pc # "insert"
    BY <1>1, <1>14, FreeMoves DEF Goes
  <2>2. QED
    BY <1>9, <1>14, <2>1 DEF FreeChain, memory
<1>15. CASE ZeroCount
  BY <1>1, <1>9, <1>15, ZeroMoves DEF ZeroCount, memory
<1>16. CASE ReleaseRecords \/ MergeHist
  <2>1. ctl.todo # <<>> /\ ctl' = NextTable(ctl) /\ UNCHANGED <<rec, tmpCtr>>
    BY <1>16, CurrentThread DEF ReleaseRecords, MergeHist, memory, Basics
  <2>2. ctl'.pc # "insert"
    BY <1>1, <2>1, TableMoves
  <2>3. QED
    BY <1>9, <2>1, <2>2
<1>17. CASE EndControl
  BY <1>9, <1>17, EndMoves DEF EndControl, memory
<1>18. QED
  BY <1>6, <1>7, <1>8, <1>10, <1>11, <1>12, <1>13, <1>14, <1>15, <1>16, <1>17 DEF Control

LEMMA NumberedInvariant == Spec => [](discipline = "funneled" => Numbered)
<1> DEFINE I == discipline = "funneled" => Numbered
<1>1. Init => I
  <2>1. SUFFICES ASSUME Init
                 PROVE  Numbered
    OBVIOUS
  <2>2. Ids = {} /\ (\A t \in Threads : op[t].pc = "idle") /\ ctl.pc = "idle"
    BY <2>1 DEF Init, Ids, Idle, CtlIdle
  <2>3. QED
    BY <2>2, TablesAssumption DEF Numbered
<1>2. Basics /\ I /\ [Next]_vars => I'
  <2>1. SUFFICES ASSUME Basics, I, [Next]_vars, discipline' = "funneled"
                 PROVE  Numbered'
    OBVIOUS
  <2>2. discipline = "funneled"
    <3>1. ASSUME NEW t \in Threads, Update(t)
          PROVE  UNCHANGED discipline
      BY <3>1 DEF Update, SearchCallsite, CreateCallsite, NumberCallsite, LinkCallsite,
                  BumpCount, UpdateCount, UpdateTime, UpdateHist, bounds
    <3>2. QED
      BY <2>1, <3>1, ControlUntouched DEF Next, Untouched, vars, bounds
  <2>3. CASE Next
    BY <2>1, <2>2, <2>3, NumberedUpdate, NumberedControl DEF Next
  <2>4. CASE UNCHANGED vars
    <3>1. UNCHANGED <<rec, tmpCtr, op, ctl>>
      BY <2>4 DEF vars, memory, opVars
    <3>2. QED
      BY <2>1, <2>2, <3>1 DEF Numbered, Ids
  <2>5. QED
    BY <2>1, <2>3, <2>4
<1>3. QED
  BY <1>1, <1>2, BasicsInvariant, PTL DEF Spec

(* The numbers that the trace shows for callsites tell  *)
(* them apart in a program where only the main thread calls MPI: tmpCtr++  *)
(* of mpiPi_cs_init is never interrupted by another, the merges' included. *)
THEOREM TraceIds == Spec => []TraceIdsDistinct
<1>1. (discipline = "funneled" => Numbered) => TraceIdsDistinct
  BY DEF Numbered, TraceIdsDistinct
<1>2. QED
  BY <1>1, NumberedInvariant, PTL

-----------------------------------------------------------------------------
(***************************************************************************)
(* Records in use.  Where the application does not reset the statistics    *)
(* while others are in MPI, no record is freed that is in a table or that  *)
(* a call is about to update.                                              *)
(***************************************************************************)
Safe == Owned /\ Held /\ Counted /\ Collected /\ NoLeak

(* What a step of a call does to the tables, by where it stands. *)
SameTables == UNCHANGED table /\ Ids' = Ids
SameCall(t) == op'[t].csp = op[t].csp /\ op'[t].key = op[t].key

Found(t) ==
    /\ op[t].pc = "idle" /\ SameTables
    /\ \/ /\ op'[t].pc = "create"
          /\ \A p \in Entries(table[t]) : Key(p) # op'[t].key
       \/ /\ op'[t].pc = "count"
          /\ op'[t].csp \in Entries(table[t]) /\ Key(op'[t].csp) = op'[t].key

Created(t) ==
    /\ op[t].pc = "create" /\ op'[t].pc = "number"
    /\ UNCHANGED table /\ Ids' = Ids \cup {op'[t].csp} /\ op'[t].csp \notin Ids
    /\ op'[t].key = op[t].key

Moved(t) ==
    /\ SameTables /\ SameCall(t)
    /\ \/ op[t].pc = "number" /\ op'[t].pc = "link"
       \/ op[t].pc = "count" /\ op'[t].pc = "time"
       \/ op[t].pc = "time" /\ op'[t].pc = "hist"

Linked(t) ==
    /\ op[t].pc = "link" /\ op'[t].pc = "bump" /\ SameCall(t) /\ Ids' = Ids
    /\ op'[t].seen = table[t].count /\ table'[t].count = table[t].count
    /\ Entries(table'[t]) = Entries(table[t]) \cup {op[t].csp}
    /\ Size(table'[t]) = Size(table[t]) + 1
    /\ \A u \in Tables \ {t} : table'[u] = table[u]

Bumped(t) ==
    /\ op[t].pc = "bump" /\ op'[t].pc = "count" /\ SameCall(t) /\ Ids' = Ids
    /\ table'[t].count = op[t].seen + 1
    /\ \A u \in Tables : /\ Entries(table'[u]) = Entries(table[u])
                         /\ Size(table'[u]) = Size(table[u])
    /\ \A u \in Tables \ {t} : table'[u] = table[u]

Ended(t) == op[t].pc = "hist" /\ op'[t].pc = "idle" /\ SameTables

LEMMA UpdateKinds ==
    ASSUME Basics, Placed, discipline # "free", Safe, NEW t \in Threads, Update(t)
    PROVE  /\ Others(t) /\ ~Resetting /\ UNCHANGED <<ctl, freed>> /\ KeysKept
           /\ Found(t) \/ Created(t) \/ Moved(t) \/ Linked(t) \/ Bumped(t) \/ Ended(t)
<1>1. /\ op \in [Threads -> Ops] /\ Len(rec) \in Nat /\ tmpCtr \in Nat
      /\ table[t] \in HashTables /\ table[t].count \in Nat /\ t \in Tables
      /\ table \in [Tables -> HashTables]
  BY DEF Basics, Types, Tables, HashTables
<1>2. UNCHANGED <<ctl, freed>> /\ KeysKept
  <2>1. UNCHANGED <<ctl, freed>>
    BY DEF Update, SearchCallsite, CreateCallsite, NumberCallsite, LinkCallsite, BumpCount,
           UpdateCount, UpdateTime, UpdateHist, memory
  <2>2. QED
    BY <2>1, UpdateKeys
<1>3. ~Resetting
  <2>1. ASSUME Resetting PROVE op[t].pc = "idle"
    BY <2>1 DEF Safe, Collected, Quiet
  <2>2. QED
    BY <2>1 DEF Update, SearchCallsite, MayCall, CreateCallsite, NumberCallsite, LinkCallsite,
           BumpCount, UpdateCount, UpdateTime, UpdateHist
<1>4. UNCHANGED rec => Ids' = Ids
  BY DEF Ids
<1>5. ASSUME NEW k \in Keys, SearchCallsite(t, k)
      PROVE  Others(t) /\ Found(t)
  <2>1. Lookup(t, k) \in Nat
    BY <1>1, LookupFinds DEF Basics
  <2>2. /\ Others(t) /\ op'[t].csp = Lookup(t, k) /\ op'[t].key = k
        /\ op'[t].pc = IF Lookup(t, k) = 0 THEN "create" ELSE "count"
    BY <1>1, <1>5, <2>1, SearchMoves
  <2>3. op[t].pc = "idle" /\ UNCHANGED <<table, rec>>
    BY <1>5 DEF SearchCallsite, memory
  <2>4. Lookup(t, k) = 0 => \A p \in Entries(table[t]) : Key(p) # k
    BY <1>1, LookupMisses DEF Basics
  <2>5. Lookup(t, k) # 0 => Lookup(t, k) \in Entries(table[t]) /\ Key(Lookup(t, k)) = k
    BY <1>1, LookupFinds DEF Basics
  <2>6. QED
    BY <1>4, <2>2, <2>3, <2>4, <2>5 DEF Found, SameTables
<1>6. ASSUME CreateCallsite(t)
      PROVE  Others(t) /\ Created(t)
  <2>1. /\ Others(t) /\ op'[t].pc = "number" /\ op'[t].csp = Len(rec) + 1
        /\ op'[t].key = op[t].key /\ op[t].pc = "create" /\ UNCHANGED table
    BY <1>1, <1>6, CreateMoves DEF CreateCallsite
  <2>2. Ids' = Ids \cup {Len(rec) + 1} /\ Len(rec) + 1 \notin Ids
    BY <1>6, CreateRecord DEF RecAdded
  <2>3. QED
    BY <2>1, <2>2 DEF Created
<1>7. ASSUME NumberCallsite(t)
      PROVE  Others(t) /\ Moved(t)
  <2>1. /\ Others(t) /\ op'[t].pc = "link" /\ SameCall(t) /\ op[t].pc = "number"
        /\ UNCHANGED <<table, rec>>
    BY <1>1, <1>7, NumberMoves DEF NumberCallsite, SameCall
  <2>2. QED
    BY <1>4, <2>1 DEF Moved, SameTables
<1>8. ASSUME LinkCallsite(t)
      PROVE  Others(t) /\ Linked(t)
  <2>1. op[t].pc = "link" /\ UNCHANGED rec /\ op[t].key \in Keys /\ op[t].csp \in Ids
    BY <1>8 DEF LinkCallsite, memory, Basics, Stands, Pointers, Linking
  <2>2. \A p \in Entries(table[t]) : Key(p) # op[t].key
    BY <2>1 DEF Safe, Held, Linking
  <2>3. Lookup(t, op[t].key) = 0
    BY <1>1, <2>1, <2>2, LookupFinds DEF Basics
  <2>4. Others(t) /\ SameCall(t) /\ op'[t].pc = "bump" /\ op'[t].seen = table[t].count
    BY <1>1, <1>8, <2>3, LinkMoves DEF SameCall
  <2>5. /\ table' \in [Tables -> HashTables] /\ table'[t].count = table[t].count
        /\ table'[t].chain[Index(op[t].key)] = <<op[t].csp>> \o table[t].chain[Index(op[t].key)]
        /\ \A j \in Buckets \ {Index(op[t].key)} : table'[t].chain[j] = table[t].chain[j]
        /\ Entries(table'[t]) = Entries(table[t]) \cup {op[t].csp}
        /\ \A u \in Tables \ {t} : table'[u] = table[u]
    BY <1>8, <2>3, LinkEffect DEF Basics
  <2>6. Size(table'[t]) = Size(table[t]) + 1
    <3>1. PICK i \in Buckets : i = Index(op[t].key)
      BY <2>1, IndexInBuckets
    <3>2. PICK p \in Nat : p = op[t].csp
      BY <1>1, OpFields
    <3>3. Len(table'[t].chain[i]) = Len(table[t].chain[i]) + 1
      <4>1. table[t].chain[i] \in Seq(Nat)
        BY <1>1, EntriesFacts
      <4>2. Len(<<p>> \o table[t].chain[i]) = Len(table[t].chain[i]) + 1
        BY <4>1, PrependFacts
      <4>3. QED
        BY <2>5, <3>1, <3>2, <4>2
    <3>4. table'[t] \in HashTables
      BY <1>1, <2>5
    <3>5. QED
      BY <1>1, <2>5, <3>1, <3>3, <3>4, SizeGrows
  <2>7. QED
    BY <1>4, <2>1, <2>4, <2>5, <2>6 DEF Linked
<1>9. ASSUME BumpCount(t)
      PROVE  Others(t) /\ Bumped(t)
  <2>1. /\ Others(t) /\ SameCall(t) /\ op'[t].pc = "count" /\ op[t].pc = "bump" /\ UNCHANGED rec
    BY <1>1, <1>9, BumpMoves DEF BumpCount, SameCall, memory
  <2>2. QED
    BY <1>4, <1>9, <2>1, BumpEffect DEF Bumped, Basics
<1>10. ASSUME UpdateCount(t)
      PROVE  Others(t) /\ Moved(t)
  <2>1. /\ Others(t) /\ SameCall(t) /\ op'[t].pc = "time" /\ op[t].pc = "count"
        /\ UNCHANGED table
    BY <1>1, <1>10, CountMoves DEF UpdateCount, SameCall
  <2>2. Ids' = Ids
    BY <1>10, CountEffect DEF RecKept
  <2>3. QED
    BY <2>1, <2>2 DEF Moved, SameTables
<1>11. ASSUME UpdateTime(t)
      PROVE  Others(t) /\ Moved(t)
  <2>1. /\ Others(t) /\ SameCall(t) /\ op'[t].pc = "hist" /\ op[t].pc = "time"
        /\ UNCHANGED table
    BY <1>1, <1>11, TimeMoves DEF UpdateTime, SameCall
  <2>2. Ids' = Ids
    BY <1>11, TimeEffect DEF RecKept
  <2>3. QED
    BY <2>1, <2>2 DEF Moved, SameTables
<1>12. ASSUME UpdateHist(t)
      PROVE  Others(t) /\ Ended(t)
  <2>1. /\ Others(t) /\ op'[t] = Idle /\ op[t].pc = "hist" /\ UNCHANGED <<table, rec>>
    BY <1>1, <1>12, HistMoves DEF UpdateHist, memory
  <2>2. QED
    BY <1>4, <2>1 DEF Ended, SameTables, Idle
<1>13. QED
  BY <1>2, <1>3, <1>5, <1>6, <1>7, <1>8, <1>9, <1>10, <1>11, <1>12 DEF Update

LEMMA SafeUpdate ==
    ASSUME Basics, Placed, discipline # "free", Safe, NEW t \in Threads, Update(t)
    PROVE  Safe'
<1>1. /\ Others(t) /\ ~Resetting /\ UNCHANGED <<ctl, freed>> /\ KeysKept
      /\ Found(t) \/ Created(t) \/ Moved(t) \/ Linked(t) \/ Bumped(t) \/ Ended(t)
  BY UpdateKinds
<1>2. /\ t \in Tables /\ Rank \in Tables /\ t # Rank /\ \A u \in Threads : u \in Tables
      /\ \A u \in Tables : Entries(table[u]) \subseteq Ids
      /\ freed \subseteq Ids
      /\ \A u \in Threads : op[u].pc \in Linking \cup {"bump", "count", "time"} => op[u].csp \in Ids
      /\ \A u \in Threads \ {t} : op'[u] = op[u]
  BY <1>1, TablesAssumption DEF Basics, Pointers, Tables, Others
<1>3. ctl.pc \notin Draining
  BY <1>1 DEF Resetting, Basics, Stands
<1>4. /\ \A u, v \in Tables : u # v => Entries(table[u]) \cap Entries(table[v]) = {}
      /\ \A u \in Tables : Entries(table[u]) \cap freed = {}
  BY DEF Safe, Owned
<1>5. ASSUME op[t].pc = "link"
      PROVE  /\ op[t].csp \notin freed
             /\ \A u \in Tables : op[t].csp \notin Entries(table[u])
             /\ \A u \in Threads : op[u].pc \in Linking /\ op[u].csp = op[t].csp => u = t
  BY <1>5 DEF Safe, Held, Loose, Linking
\* the entries of the tables
<1>6. /\ \A u \in Tables \ {t} : Entries(table'[u]) = Entries(table[u])
      /\ \/ Entries(table'[t]) = Entries(table[t])
         \/ Linked(t) /\ Entries(table'[t]) = Entries(table[t]) \cup {op[t].csp}
  <2>1. CASE Linked(t)
    BY <2>1 DEF Linked
  <2>2. CASE Bumped(t)
    BY <1>2, <2>2 DEF Bumped
  <2>3. CASE UNCHANGED table
    BY <2>3
  <2>4. QED
    BY <1>1, <2>1, <2>2, <2>3 DEF Found, Created, Moved, Ended, SameTables
<1>7. Owned'
  <2>1. Linked(t) => op[t].pc = "link"
    BY DEF Linked
  <2>2. /\ \A u, v \in Tables : u # v => Entries(table'[u]) \cap Entries(table'[v]) = {}
        /\ \A u \in Tables : Entries(table'[u]) \cap freed = {}
    BY <1>2, <1>4, <1>5, <1>6, <2>1
  <2>3. QED
    BY <1>1, <2>2 DEF Owned
\* the records of the calls
<1>8. ASSUME NEW u \in Threads, op[u].pc \in Linking, u # t
      PROVE  /\ op[u].csp \notin freed
             /\ \A v \in Tables : op[u].csp \notin Entries(table'[v])
             /\ \A v \in Threads \ {t} : op[v].pc \in Linking /\ op[v].csp = op[u].csp => v = u
             /\ op'[t].pc \in Linking => op'[t].csp # op[u].csp
  <2>1. /\ op[u].csp \notin freed /\ op[u].csp \in Ids
        /\ \A v \in Tables : op[u].csp \notin Entries(table[v])
        /\ \A v \in Threads : op[v].pc \in Linking /\ op[v].csp = op[u].csp => v = u
    BY <1>2, <1>8 DEF Safe, Held, Loose
  <2>2. Linked(t) => op[t].csp # op[u].csp
    BY <1>8, <2>1 DEF Linked, Linking
  <2>3. op'[t].pc \in Linking => op'[t].csp # op[u].csp
    <3>1. ASSUME op'[t].pc \in Linking
          PROVE  op'[t].csp \notin Ids \/ (op[t].pc \in Linking /\ op'[t].csp = op[t].csp)
      BY <1>1, <3>1 DEF Found, Created, Moved, Linked, Bumped, Ended, SameCall, Linking
    <3>2. QED
      BY <1>8, <2>1, <3>1
  <2>4. QED
    BY <1>6, <2>1, <2>2, <2>3
<1>9. ASSUME op'[t].pc \in Linking
      PROVE  /\ op'[t].csp \notin freed
             /\ \A v \in Tables : op'[t].csp \notin Entries(table'[v])
  <2>1. \/ Created(t)
        \/ Moved(t) /\ op[t].pc = "number"
    BY <1>1, <1>9 DEF Found, Created, Moved, Linked, Bumped, Ended, Linking
  <2>2. ~Linked(t)
    BY <1>9 DEF Linked, Linking
  <2>3. CASE Created(t)
    BY <1>2, <1>6, <2>2, <2>3 DEF Created
  <2>4. CASE Moved(t) /\ op[t].pc = "number"
    <3>1. /\ op[t].csp \notin freed
          /\ \A v \in Tables : op[t].csp \notin Entries(table[v])
      BY <2>4 DEF Safe, Held, Loose, Linking
    <3>2. op'[t].csp = op[t].csp
      BY <2>4 DEF Moved, SameCall
    <3>3. QED
      BY <1>6, <2>2, <3>1, <3>2
  <2>5. QED
    BY <2>1, <2>3, <2>4
<1>10. ASSUME NEW u \in Threads, op'[u].pc \in Linking \cup {"create"}
       PROVE  \A p \in Entries(table'[u]) : NewKey(p) # op'[u].key
  <2>1. CASE u # t
    <3>1. \A p \in Entries(table[u]) : Key(p) # op[u].key /\ p \in Ids
      BY <1>2, <1>10, <2>1 DEF Safe, Held
    <3>2. QED
      BY <1>1, <1>2, <1>6, <2>1, <3>1 DEF KeysKept
  <2>2. CASE u = t
    <3>1. /\ ~Linked(t)
          /\ op'[t].pc = "create" => Found(t)
          /\ op'[t].pc \in Linking => /\ op'[t].key = op[t].key
                                      /\ op[t].pc \in Linking \cup {"create"}
      BY <1>1, <1>10, <2>2 DEF Found, Created, Moved, Linked, Bumped, Ended, SameCall, Linking
    <3>2. \A p \in Entries(table[t]) : Key(p) # op'[t].key /\ p \in Ids
      <4>1. CASE op'[t].pc = "create"
        BY <1>2, <3>1, <4>1 DEF Found
      <4>2. CASE op'[t].pc \in Linking
        BY <1>2, <3>1, <4>2 DEF Safe, Held
      <4>3. QED
        BY <1>10, <2>2, <4>1, <4>2
    <3>3. QED
      BY <1>1, <1>6, <2>2, <3>1, <3>2 DEF KeysKept
  <2>3. QED
    BY <2>1, <2>2
<1>11. ASSUME NEW u \in Threads, op'[u].pc \in {"bump", "count", "time"}
       PROVE  op'[u].csp \in Entries(table'[u]) /\ NewKey(op'[u].csp) = op'[u].key
  <2>1. CASE u # t
    <3>1. op[u].csp \in Entries(table[u]) /\ Key(op[u].csp) = op[u].key /\ op[u].csp \in Ids
      BY <1>2, <1>11, <2>1 DEF Safe, Held
    <3>2. QED
      BY <1>1, <1>2, <1>6, <2>1, <3>1 DEF KeysKept
  <2>2. CASE u = t /\ Found(t)
    <3>1. op'[t].csp \in Entries(table[t]) /\ Key(op'[t].csp) = op'[t].key
      BY <1>11, <2>2 DEF Found
    <3>2. QED
      BY <1>1, <1>2, <1>6, <2>2, <3>1 DEF KeysKept
  <2>3. CASE u = t /\ Linked(t)
    <3>1. op[t].csp \in Ids /\ Key(op[t].csp) = op[t].key /\ SameCall(t)
      BY <1>2, <2>3 DEF Linked, Linking, Placed
    <3>2. op[t].csp \in Entries(table'[t])
      BY <2>3 DEF Linked
    <3>3. QED
      BY <1>1, <2>3, <3>1, <3>2 DEF SameCall, KeysKept
  <2>4. CASE u = t /\ ~Found(t) /\ ~Linked(t)
    <3>1. op[t].pc \in {"bump", "count", "time"} /\ SameCall(t)
      BY <1>1, <1>11, <2>4 DEF Created, Moved, Bumped, Ended
    <3>2. op[t].csp \in Entries(table[t]) /\ Key(op[t].csp) = op[t].key /\ op[t].csp \in Ids
      BY <1>2, <3>1 DEF Safe, Held
    <3>3. QED
      BY <1>1, <1>2, <1>6, <2>4, <3>1, <3>2 DEF SameCall, KeysKept
  <2>5. QED
    BY <2>1, <2>2, <2>3, <2>4
<1>12. Held'
  <2>1. ASSUME NEW u \in Threads, op'[u].pc \in Linking
        PROVE  /\ op'[u].csp \notin freed
               /\ \A v \in Tables : op'[u].csp \notin Entries(table'[v])
               /\ \A v \in Threads : op'[v].pc \in Linking /\ op'[v].csp = op'[u].csp => v = u
    <3>1. CASE u = t
      <4>1. ASSUME NEW v \in Threads, op'[v].pc \in Linking, op'[v].csp = op'[u].csp, v # t
            PROVE  FALSE
        <5>1. op'[v] = op[v]
          BY <1>2, <4>1
        <5>2. op'[t].csp # op[v].csp
          BY <1>8, <2>1, <3>1, <4>1, <5>1
        <5>3. QED
          BY <3>1, <4>1, <5>1, <5>2
      <4>2. QED
        BY <1>9, <2>1, <3>1, <4>1
    <3>2. CASE u # t
      <4>1. op'[u] = op[u]
        BY <1>2, <3>2
      <4>2. QED
        BY <1>2, <1>8, <2>1, <3>2, <4>1
    <3>3. QED
      BY <3>1, <3>2
  <2>2. QED
    BY <1>1, <1>10, <1>11, <2>1 DEF Held, Loose, Key, NewKey
<1>13. Counted'
  <2>1. ASSUME NEW u \in Tables
        PROVE  /\ Size(table'[u]) = table'[u].count
                                    + IF u \in Threads /\ op'[u].pc = "bump" THEN 1 ELSE 0
               /\ u \in Threads /\ op'[u].pc = "bump" => op'[u].seen = table'[u].count
    <3>1. /\ Size(table[u]) = table[u].count
                              + IF u \in Threads /\ op[u].pc = "bump" THEN 1 ELSE 0
          /\ u \in Threads /\ op[u].pc = "bump" => op[u].seen = table[u].count
      BY <1>3 DEF Safe, Counted, BeingDrained, BeingLinked, Draining
    <3>2. CASE u # t
      <4>1. table'[u] = table[u]
        BY <1>1, <2>1, <3>2 DEF Found, Created, Moved, Linked, Bumped, Ended, SameTables
      <4>2. u \in Threads => op'[u] = op[u]
        BY <1>2, <3>2
      <4>3. QED
        BY <3>1, <4>1, <4>2
    <3>3. CASE u = t /\ Linked(t)
      BY <3>1, <3>3 DEF Linked, Basics, Types, HashTables
    <3>4. CASE u = t /\ Bumped(t)
      BY <3>1, <3>4 DEF Bumped, Basics, Types, HashTables
    <3>5. CASE u = t /\ ~Linked(t) /\ ~Bumped(t)
      <4>1. UNCHANGED table /\ op'[t].pc # "bump" /\ op[t].pc # "bump"
        BY <1>1, <3>5 DEF Found, Created, Moved, Ended, SameTables
      <4>2. QED
        BY <3>1, <3>5, <4>1
    <3>6. QED
      BY <3>2, <3>3, <3>4, <3>5
  <2>2. QED
    BY <2>1 DEF Counted, BeingLinked
\* MPI_Pcontrol stays where it is
<1>14. Collected'
  <2>1. /\ ~Resetting' /\ ctl'.pc \notin Draining
    BY <1>1, <1>3 DEF Resetting
  <2>2. ctl.pc = "gather" \/ ctl.pc \in Merging =>
            Range(ctl.av) \subseteq Entries(table'[Current])
    <3>1. ctl.pc = "gather" \/ ctl.pc \in Merging =>
            Range(ctl.av) \subseteq Entries(table[Current]) /\ Current \in Tables
      BY CurrentThread DEF Safe, Collected, Basics, Merging
    <3>2. \A u \in Tables : Entries(table[u]) \subseteq Entries(table'[u])
      BY <1>6
    <3>3. QED
      BY <3>1, <3>2
  <2>3. ctl.pc = "insert" => \A p \in Entries(table'[Rank]) : NewKey(p) # NewKey(Head(ctl.av))
    <3>1. ASSUME ctl.pc = "insert"
          PROVE  /\ Head(ctl.av) \in Ids
                 /\ \A p \in Entries(table[Rank]) : Key(p) # Key(Head(ctl.av)) /\ p \in Ids
      <4>1. Head(ctl.av) \in Ids
        BY <3>1, HeadRecord DEF Basics, Stands
      <4>2. QED
        BY <1>2, <3>1, <4>1 DEF Safe, Collected
    <3>2. QED
      BY <1>1, <1>2, <1>6, <3>1 DEF KeysKept
  <2>4. ctl.pc \in {"addcount", "addtime"} =>
            ctl.csp \in Entries(table'[Rank]) /\ NewKey(ctl.csp) = NewKey(Head(ctl.av))
    <3>1. ASSUME ctl.pc \in {"addcount", "addtime"}
          PROVE  /\ Head(ctl.av) \in Ids /\ ctl.csp \in Ids
                 /\ ctl.csp \in Entries(table[Rank]) /\ Key(ctl.csp) = Key(Head(ctl.av))
      <4>1. Head(ctl.av) \in Ids
        BY <3>1, HeadRecord DEF Basics, Stands
      <4>2. QED
        BY <1>2, <3>1, <4>1 DEF Safe, Collected
    <3>2. QED
      BY <1>1, <1>2, <1>6, <3>1 DEF KeysKept
  <2>5. Current' = Current
    BY <1>1 DEF Current
  <2>6. QED
    BY <1>1, <2>1, <2>2, <2>3, <2>4, <2>5 DEF Collected, Draining, Key, NewKey
<1>15. NoLeak'
  <2>1. ASSUME NEW p \in Ids', p \notin freed
        PROVE  \/ \E u \in Tables : p \in Entries(table'[u])
               \/ \E u \in Threads : op'[u].pc \in Linking /\ op'[u].csp = p
    <3>1. CASE p \notin Ids
      <4>1. Created(t) /\ p = op'[t].csp
        BY <1>1, <2>1, <3>1 DEF Found, Created, Moved, Linked, Bumped, Ended, SameTables
      <4>2. QED
        BY <4>1 DEF Created, Linking
    <3>2. CASE \E u \in Tables : p \in Entries(table[u])
      BY <1>6, <3>2
    <3>3. ASSUME NEW u \in Threads, op[u].pc \in Linking, op[u].csp = p
          PROVE  \/ \E v \in Tables : p \in Entries(table'[v])
                 \/ op'[u].pc \in Linking /\ op'[u].csp = p
      <4>1. CASE u # t
        BY <1>2, <3>3, <4>1
      <4>2. CASE u = t /\ Linked(t)
        BY <1>2, <3>3, <4>2 DEF Linked
      <4>3. CASE u = t /\ ~Linked(t)
        BY <1>1, <3>3, <4>3 DEF Found, Created, Moved, Bumped, Ended, SameCall, Linking
      <4>4. QED
        BY <4>1, <4>2, <4>3
    <3>4. QED
      BY <1>3, <2>1, <3>1, <3>2, <3>3 DEF Safe, NoLeak, Loose
  <2>2. QED
    BY <1>1, <2>1 DEF NoLeak, Loose
<1>16. QED
  BY <1>7, <1>12, <1>13, <1>14, <1>15 DEF Safe

(* A step of MPI_Pcontrol that changes no table, and drains none. *)
LEMMA SafeFrame ==
    ASSUME Basics, Safe, KeysKept, Ids' = Ids, UNCHANGED <<table, freed, op>>,
           ctl.pc \notin Draining
    PROVE  Owned' /\ Held' /\ Counted' /\ NoLeak'
<1>1. /\ \A u \in Tables : Entries(table[u]) \subseteq Ids
      /\ \A u \in Threads : op[u].pc \in {"bump", "count", "time"} => op[u].csp \in Ids
      /\ \A u \in Threads : u \in Tables
  BY DEF Basics, Pointers, Tables
<1>2. Owned'
  BY DEF Safe, Owned
<1>3. Held'
  <2>1. ASSUME NEW t \in Threads, op[t].pc \in Linking \cup {"create"}
        PROVE  \A p \in Entries(table[t]) : NewKey(p) # op[t].key
    <3>1. \A p \in Entries(table[t]) : Key(p) # op[t].key /\ p \in Ids
      BY <1>1, <2>1 DEF Safe, Held
    <3>2. QED
      BY <3>1 DEF KeysKept
  <2>2. ASSUME NEW t \in Threads, op[t].pc \in {"bump", "count", "time"}
        PROVE  op[t].csp \in Entries(table[t]) /\ NewKey(op[t].csp) = op[t].key
    <3>1. op[t].csp \in Entries(table[t]) /\ Key(op[t].csp) = op[t].key /\ op[t].csp \in Ids
      BY <1>1, <2>2 DEF Safe, Held
    <3>2. QED
      BY <3>1 DEF KeysKept
  <2>3. \A t \in Threads : Loose(t) =>
            /\ op[t].csp \notin freed
            /\ \A u \in Tables : op[t].csp \notin Entries(table[u])
            /\ \A u \in Threads : Loose(u) /\ op[u].csp = op[t].csp => u = t
    BY DEF Safe, Held
  <2>4. QED
    BY <2>1, <2>2, <2>3 DEF Held, Loose, Key, NewKey
<1>4. Counted'
  BY DEF Safe, Counted, BeingDrained, BeingLinked, Draining
<1>5. NoLeak'
  BY DEF Safe, NoLeak, Loose
<1>6. QED
  BY <1>2, <1>3, <1>4, <1>5

(* While a table is drained no call is under way: what is left to show. *)
LEMMA SafeQuiet ==
    ASSUME Quiet, UNCHANGED op
    PROVE  /\ Held' /\ Quiet' /\ \A t \in Tables : ~BeingLinked(t)'
           /\ \A t \in Tables : ~BeingLinked(t)
  BY DEF Quiet, Held, Loose, Linking, BeingLinked

LEMMA SafeStart ==
    ASSUME Basics, discipline # "free", Safe, StartReport \/ StartReset
    PROVE  Safe'
<1>1. UNCHANGED op /\ KeysKept
  BY ControlUntouched, ControlKeys DEF Untouched, Control
<1>2. UNCHANGED <<table, freed, rec>> /\ ctl.pc \notin Draining
  BY DEF StartReport, StartReset, memory, Draining
<1>3. Owned' /\ Held' /\ Counted' /\ NoLeak'
  BY <1>1, <1>2, SafeFrame DEF Ids
<1>4. ctl'.pc = "rank" /\ (Resetting' => Quiet)
  BY StartMoves DEF Resetting, StartReset
<1>5. Collected'
  BY <1>1, <1>4 DEF Collected, Quiet, Merging, Draining
<1>6. QED
  BY <1>3, <1>5 DEF Safe

LEMMA SafeDrainRank ==
    ASSUME Basics, Safe, DrainRank
    PROVE  Safe'
<1>1. UNCHANGED <<op, rec>> /\ KeysKept /\ ctl.pc = "rank" /\ Ids' = Ids
  BY ControlUntouched, ControlKeys DEF Untouched, Control, DrainRank, Ids
<1>2. /\ Rank \in Tables /\ Entries(table'[Rank]) = {} /\ Size(table'[Rank]) = 0
      /\ table'[Rank].count = 0 /\ \A u \in Tables \ {Rank} : table'[u] = table[u]
      /\ freed' = freed \cup Entries(table[Rank])
      /\ \A u \in Threads : u \in Tables \ {Rank}
  BY RankEffect, TablesAssumption DEF Basics, DrainRank, Tables
<1>3. SameTask /\ ctl'.pc = "alloc"
  BY RankMoves DEF Basics, Types
<1>4. /\ \A u, v \in Tables : u # v => Entries(table[u]) \cap Entries(table[v]) = {}
      /\ \A u \in Tables : Entries(table[u]) \cap freed = {}
  BY DEF Safe, Owned
<1>5. Owned'
  BY <1>2, <1>4 DEF Owned
<1>6. Held'
  <2>1. \A t \in Threads : op[t].pc \in Linking => op[t].csp \notin freed'
    BY <1>2 DEF Safe, Held, Loose
  <2>2. \A u \in Tables : Entries(table'[u]) \subseteq Entries(table[u])
    BY <1>2
  <2>3. \A t \in Threads : op[t].pc \in Linking =>
            /\ \A u \in Tables : op[t].csp \notin Entries(table'[u])
            /\ \A u \in Threads : op[u].pc \in Linking /\ op[u].csp = op[t].csp => u = t
    BY <2>2 DEF Safe, Held, Loose
  <2>4. \A t \in Threads :
            /\ op[t].pc \in Linking \cup {"create"} =>
                   \A p \in Entries(table'[t]) : Key(p) # op[t].key
            /\ op[t].pc \in {"bump", "count", "time"} =>
                   op[t].csp \in Entries(table'[t]) /\ Key(op[t].csp) = op[t].key
    BY <1>2 DEF Safe, Held
  <2>5. QED
    BY <1>1, <2>1, <2>3, <2>4 DEF Held, Loose, Key
<1>7. Counted'
  <2>1. \A t \in Tables : ~BeingDrained(t) /\ ~BeingDrained(t)' /\ BeingLinked(t)' = BeingLinked(t)
    BY <1>1, <1>3 DEF BeingDrained, BeingLinked
  <2>2. ~BeingLinked(Rank)
    BY TablesAssumption DEF BeingLinked
  <2>3. \A t \in Tables \ {Rank} :
            /\ Size(table'[t]) = table'[t].count + IF BeingLinked(t) THEN 1 ELSE 0
            /\ BeingLinked(t) => op[t].seen = table'[t].count
    BY <1>2, <2>1 DEF Safe, Counted
  <2>4. QED
    BY <1>1, <1>2, <2>1, <2>2, <2>3 DEF Counted
<1>8. Collected'
  <2>1. Resetting' => Quiet
    BY <1>3 DEF Safe, Collected, Resetting, SameTask
  <2>2. QED
    BY <1>1, <1>3, <2>1 DEF Collected, Quiet, Merging, Draining
<1>9. NoLeak'
  <2>1. \A p \in Ids \ freed : \/ \E t \in Tables : p \in Entries(table[t])
                               \/ \E t \in Threads : Loose(t) /\ op[t].csp = p
    BY <1>1 DEF Safe, NoLeak, Draining
  <2>2. \A p \in Ids \ freed' : \/ \E t \in Tables \ {Rank} : p \in Entries(table[t])
                                \/ \E t \in Threads : Loose(t) /\ op[t].csp = p
    BY <1>2, <2>1
  <2>3. QED
    BY <1>1, <1>2, <2>2 DEF NoLeak, Loose
<1>10. QED
  BY <1>5, <1>6, <1>7, <1>8, <1>9 DEF Safe

LEMMA SafeGatherAlloc ==
    ASSUME Basics, Safe, GatherAlloc
    PROVE  Safe'
<1>1. UNCHANGED op /\ KeysKept
  BY ControlUntouched, ControlKeys DEF Untouched, Control
<1>2. UNCHANGED <<table, freed, rec>> /\ ctl.pc \notin Draining
  BY DEF GatherAlloc, memory, Draining
<1>3. Owned' /\ Held' /\ Counted' /\ NoLeak'
  BY <1>1, <1>2, SafeFrame DEF Ids
<1>4. SameTask /\ ctl'.pc = "gather" /\ ctl'.i = 0 /\ ctl'.av = <<>>
  <2>1. table[Current].count \in Nat
    BY CurrentThread DEF GatherAlloc, HashTables, Basics, Types
  <2>2. QED
    BY <2>1, AllocMoves DEF Basics, Types
<1>5. Collected'
  <2>1. Resetting' => Quiet'
    BY <1>1, <1>4 DEF Safe, Collected, Resetting, SameTask, Quiet
  <2>2. Range(ctl'.av) = {} /\ 0 .. ctl'.i - 1 = {}
    BY <1>4 DEF Range
  <2>3. QED
    BY <1>4, <2>1, <2>2 DEF Collected, Merging, Draining
<1>6. QED
  BY <1>3, <1>5 DEF Safe

LEMMA SafeGatherChain ==
    ASSUME Basics, Safe, GatherChain
    PROVE  Safe'
<1>1. UNCHANGED op /\ KeysKept
  BY ControlUntouched, ControlKeys DEF Untouched, Control
<1>2. UNCHANGED <<table, freed, rec>> /\ ctl.pc \notin Draining /\ ctl.pc = "gather"
  BY DEF GatherChain, memory, Draining
<1>3. Owned' /\ Held' /\ Counted' /\ NoLeak'
  BY <1>1, <1>2, SafeFrame DEF Ids
<1>4. /\ Current \in Tables /\ ctl.i \in Buckets /\ ctl.av \in Seq(Nat)
      /\ ctl \in Controls /\ table[Current] \in HashTables
  BY <1>2, CurrentThread, ControlFields DEF Basics, Types
<1>5. /\ table[Current].chain[ctl.i] \in Seq(Nat)
      /\ \A j \in Buckets : Range(table[Current].chain[j]) \subseteq Entries(table[Current])
  BY <1>4, EntriesFacts
<1>6. /\ SameTask /\ ctl'.av = ctl.av \o table[Current].chain[ctl.i]
      /\ Goes("gather", IF Resetting THEN "free" ELSE "record")
  BY <1>4, <1>5, GatherMoves
<1>7. Range(ctl'.av) = Range(ctl.av) \cup Range(table[Current].chain[ctl.i])
  BY <1>4, <1>5, <1>6, AppendedRange
<1>8. Range(ctl'.av) \subseteq Entries(table[Current])
  <2>1. Range(ctl.av) \subseteq Entries(table[Current])
    BY <1>2 DEF Safe, Collected
  <2>2. QED
    BY <1>4, <1>5, <1>7, <2>1
<1>9. Resetting => \A j \in 0 .. ctl.i : Range(table[Current].chain[j]) \subseteq Range(ctl'.av)
  <2>1. Resetting => \A j \in 0 .. ctl.i - 1 : Range(table[Current].chain[j]) \subseteq Range(ctl.av)
    BY <1>2 DEF Safe, Collected
  <2>2. \A j \in 0 .. ctl.i : j = ctl.i \/ j \in 0 .. ctl.i - 1
    BY <1>4 DEF Buckets
  <2>3. QED
    BY <1>7, <2>1, <2>2
<1>10. Current' = Current /\ Resetting' = Resetting
  BY <1>6 DEF SameTask, Current, Resetting
<1>11. CASE ctl'.pc = "gather"
  <2>1. ctl'.i = ctl.i + 1 /\ (ctl.i + 1) - 1 = ctl.i
    BY <1>4, <1>6, <1>11 DEF Goes, Buckets
  <2>2. Resetting => \A j \in 0 .. ctl'.i - 1 :
                         Range(table[Current].chain[j]) \subseteq Range(ctl'.av)
    BY <1>9, <2>1
  <2>3. Resetting => Quiet'
    BY <1>1 DEF Safe, Collected, Quiet
  <2>4. Collected'
    BY <1>2, <1>8, <1>10, <1>11, <2>2, <2>3 DEF Collected, Merging, Draining
  <2>5. QED
    BY <1>3, <2>4 DEF Safe
<1>12. CASE ctl'.pc = "free" /\ Resetting
  <2>1. ctl.i + 1 = TableSize /\ ctl'.i = 0
    BY <1>6, <1>12 DEF Goes
  <2>2. 0 .. ctl'.i - 1 = {} /\ 0 .. ctl.i = Buckets
    BY <1>4, <2>1 DEF Buckets
  <2>3. Entries(table[Current]) \subseteq Range(ctl'.av)
    BY <1>4, <1>9, <1>12, <2>2, EntriesFacts
  <2>4. \A t \in Tables \ {Current} : Entries(table[t]) \cap Range(ctl'.av) = {}
    BY <1>4, <1>8 DEF Safe, Owned
  <2>5. Quiet'
    BY <1>1, <1>12 DEF Safe, Collected, Quiet
  <2>6. Collected'
    BY <1>2, <1>10, <1>12, <2>2, <2>3, <2>4, <2>5 DEF Collected, Merging, Draining
  <2>7. QED
    BY <1>3, <2>6 DEF Safe
<1>13. CASE ctl'.pc = "record" /\ ~Resetting
  <2>1. Collected'
    BY <1>2, <1>8, <1>10, <1>13 DEF Collected, Merging, Draining
  <2>2. QED
    BY <1>3, <2>1 DEF Safe
<1>14. QED
  BY <1>6, <1>11, <1>12, <1>13 DEF Goes

LEMMA SafeFreeChain ==
    ASSUME Basics, Safe, FreeChain
    PROVE  Safe'
<1>1. UNCHANGED <<op, freed, rec>> /\ ctl.pc = "free" /\ Resetting /\ Quiet
  BY ControlUntouched DEF Untouched, Control, FreeChain, memory, Safe, Collected,
     Basics, Stands, Draining, Resetting
<1>2. /\ Current \in Threads /\ table' \in [Tables -> HashTables]
      /\ table'[Current].chain[ctl.i] = <<>>
      /\ \A j \in Buckets \ {ctl.i} : table'[Current].chain[j] = table[Current].chain[j]
      /\ Entries(table'[Current]) \subseteq Entries(table[Current])
      /\ \A u \in Tables \ {Current} : table'[u] = table[u]
  BY FreeEffect DEF Basics
<1>3. SameTask /\ ctl'.av = ctl.av /\ Goes("free", "zero") /\ ctl.i \in Buckets
  BY FreeMoves, ControlFields DEF Basics, Types
<1>4. /\ Current' = Current /\ Resetting' /\ ctl'.pc \in {"free", "zero"}
      /\ Held' /\ Quiet' /\ Ids' = Ids
      /\ \A t \in Tables : ~BeingLinked(t) /\ ~BeingLinked(t)'
  BY <1>1, <1>3, SafeQuiet DEF SameTask, Current, Resetting, Goes, Ids
<1>5. /\ \A u \in Tables : Entries(table'[u]) \subseteq Entries(table[u])
      /\ Entries(table[Current]) \subseteq Range(ctl.av)
      /\ \A j \in 0 .. ctl.i - 1 : table[Current].chain[j] = <<>>
      /\ \A t \in Tables \ {Current} : Entries(table[t]) \cap Range(ctl.av) = {}
  BY <1>1, <1>2 DEF Safe, Collected, Draining
<1>6. Owned'
  BY <1>1, <1>5 DEF Safe, Owned
<1>7. Counted'
  <2>1. \A t \in Tables : ~BeingDrained(t)' => ~BeingDrained(t) /\ table'[t] = table[t]
    BY <1>1, <1>2, <1>4 DEF BeingDrained
  <2>2. QED
    BY <1>4, <2>1 DEF Safe, Counted
<1>8. \A j \in 0 .. ctl.i : table'[Current].chain[j] = <<>>
  <2>1. \A j \in 0 .. ctl.i : j = ctl.i \/ (j \in 0 .. ctl.i - 1 /\ j \in Buckets \ {ctl.i})
    BY <1>3, TablesAssumption DEF Buckets
  <2>2. QED
    BY <1>2, <1>5, <2>1
<1>9. /\ ctl'.pc = "free" => \A j \in 0 .. ctl'.i - 1 : table'[Current].chain[j] = <<>>
      /\ ctl'.pc = "zero" => \A j \in Buckets : table'[Current].chain[j] = <<>>
  <2>1. CASE ctl'.pc = "free"
    <3>1. ctl'.i - 1 = ctl.i
      BY <1>3, <2>1 DEF Goes, Buckets
    <3>2. QED
      BY <1>8, <2>1, <3>1
  <2>2. CASE ctl'.pc = "zero"
    <3>1. 0 .. ctl.i = Buckets
      BY <1>3, <2>2 DEF Goes, Buckets
    <3>2. QED
      BY <1>8, <2>2, <3>1
  <2>3. QED
    BY <1>4, <2>1, <2>2
<1>10. Collected'
  <2>1. \A t \in Tables \ {Current} : Entries(table'[t]) \cap Range(ctl'.av) = {}
    BY <1>3, <1>5
  <2>2. Entries(table'[Current]) \subseteq Range(ctl'.av)
    BY <1>2, <1>3, <1>5
  <2>3. QED
    BY <1>4, <1>9, <2>1, <2>2 DEF Collected, Merging
<1>11. NoLeak'
  <2>1. ASSUME NEW p \in Ids, p \notin freed
        PROVE  (\E t \in Tables : p \in Entries(table'[t])) \/ p \in Range(ctl.av)
    <3>1. \A t \in Threads : ~Loose(t)
      BY <1>1 DEF Quiet, Loose, Linking
    <3>2. (\E t \in Tables : p \in Entries(table[t])) \/ p \in Range(ctl.av)
      BY <2>1, <3>1 DEF Safe, NoLeak
    <3>3. QED
      BY <1>2, <1>5, <3>2
  <2>2. QED
    BY <1>1, <1>3, <1>4, <2>1 DEF NoLeak, Draining
<1>12. QED
  BY <1>4, <1>6, <1>7, <1>10, <1>11 DEF Safe

LEMMA SafeZeroCount ==
    ASSUME Basics, Safe, ZeroCount
    PROVE  Safe'
<1>1. UNCHANGED <<op, freed, rec>> /\ ctl.pc = "zero" /\ Resetting /\ Quiet
  BY ControlUntouched DEF Untouched, Control, ZeroCount, memory, Safe, Collected,
     Basics, Stands, Draining, Resetting
<1>2. /\ Current \in Threads /\ table'[Current].count = 0
      /\ \A u \in Tables : table'[u].chain = table[u].chain
      /\ \A u \in Tables \ {Current} : table'[u] = table[u]
      /\ \A u \in Tables : Entries(table'[u]) = Entries(table[u])
  BY ZeroEffect DEF Basics
<1>3. SameTask /\ ctl'.av = ctl.av /\ ctl'.pc = "release" /\ Current \in Tables
  BY <1>2, ZeroMoves DEF Basics, Types, Tables
<1>4. /\ Current' = Current /\ Resetting' /\ Held' /\ Quiet' /\ Ids' = Ids
      /\ \A t \in Tables : ~BeingLinked(t) /\ ~BeingLinked(t)'
  BY <1>1, <1>3, SafeQuiet DEF SameTask, Current, Resetting, Ids
<1>5. Owned'
  BY <1>1, <1>2 DEF Safe, Owned
<1>6. Counted'
  <2>1. \A t \in Tables : ~BeingDrained(t)' => ~BeingDrained(t) /\ table'[t] = table[t]
    BY <1>1, <1>2, <1>3, <1>4 DEF BeingDrained
  <2>2. QED
    BY <1>4, <2>1 DEF Safe, Counted
<1>7. Collected'
  <2>1. /\ \A j \in Buckets : table'[Current].chain[j] = <<>>
        /\ \A t \in Tables \ {Current} : Entries(table'[t]) \cap Range(ctl'.av) = {}
    BY <1>1, <1>2, <1>3 DEF Safe, Collected, Draining
  <2>2. QED
    BY <1>2, <1>3, <1>4, <2>1 DEF Collected, Merging
<1>8. NoLeak'
  <2>1. \A t \in Threads : ~Loose(t)
    BY <1>1 DEF Quiet, Loose, Linking
  <2>2. QED
    BY <1>1, <1>2, <1>3, <1>4, <2>1 DEF Safe, NoLeak, Draining
<1>9. QED
  BY <1>4, <1>5, <1>6, <1>7, <1>8 DEF Safe

LEMMA SafeRelease ==
    ASSUME Basics, Safe, ReleaseRecords
    PROVE  Safe'
<1>1. /\ UNCHANGED <<op, rec, table>> /\ ctl.pc = "release" /\ Resetting /\ Quiet
      /\ freed' = freed \cup Range(ctl.av) /\ ctl' = NextTable(ctl)
  BY ControlUntouched DEF Untouched, Control, ReleaseRecords, Safe, Collected,
     Basics, Stands, Draining, Resetting
<1>2. /\ Current \in Tables /\ ctl.todo # <<>> /\ table[Current] \in HashTables
  BY <1>1, CurrentThread DEF Basics, Types
<1>3. ctl'.pc \in {"end", "alloc"}
  BY <1>1, <1>2, TableMoves DEF Basics, Types
<1>4. Held' /\ Quiet' /\ \A t \in Tables : ~BeingLinked(t) /\ ~BeingLinked(t)'
  BY <1>1, SafeQuiet
<1>5. /\ \A j \in Buckets : table[Current].chain[j] = <<>>
      /\ table[Current].count = 0
      /\ \A t \in Tables \ {Current} : Entries(table[t]) \cap Range(ctl.av) = {}
  BY <1>1 DEF Safe, Collected, Draining
<1>6. Entries(table[Current]) = {} /\ Size(table[Current]) = 0
  BY <1>2, <1>5, EmptyFacts
<1>7. Owned'
  BY <1>1, <1>5, <1>6 DEF Safe, Owned
<1>8. Counted'
  <2>1. \A t \in Tables \ {Current} : Size(table[t]) = table[t].count + 0
    BY <1>4 DEF Safe, Counted, BeingDrained
  <2>2. \A t \in Tables : Size(table[t]) = table[t].count + 0
    BY <1>2, <1>5, <1>6, <2>1 DEF Basics, Types, HashTables
  <2>3. QED
    BY <1>1, <1>4, <2>2 DEF Counted
<1>9. Collected'
  BY <1>3, <1>4 DEF Collected, Merging, Draining
<1>10. NoLeak'
  <2>1. \A t \in Threads : ~Loose(t)
    BY <1>1 DEF Quiet, Loose, Linking
  <2>2. Ids' = Ids
    BY <1>1 DEF Ids
  <2>3. QED
    BY <1>1, <2>1, <2>2 DEF Safe, NoLeak
<1>11. QED
  BY <1>4, <1>7, <1>8, <1>9, <1>10 DEF Safe

LEMMA SafeFind ==
    ASSUME Basics, Placed, Safe, FindInRank
    PROVE  Safe'
<1>1. UNCHANGED op /\ KeysKept
  BY ControlUntouched, ControlKeys DEF Untouched, Control
<1>2. UNCHANGED <<table, freed, rec>> /\ ctl.pc = "record" /\ ctl.av # <<>>
      /\ ctl.pc \notin Draining
  BY DEF FindInRank, memory, Draining
<1>3. Owned' /\ Held' /\ Counted' /\ NoLeak'
  BY <1>1, <1>2, SafeFrame DEF Ids
<1>4. Key(Head(ctl.av)) \in Keys /\ Rank \in Tables
  BY <1>2, HeadRecord DEF Basics, Tables
<1>5. Lookup(Rank, Key(Head(ctl.av))) \in Nat
  BY <1>4, LookupFinds DEF Basics
<1>6. /\ SameTask /\ ctl'.av = ctl.av /\ ctl'.csp = Lookup(Rank, Key(Head(ctl.av)))
      /\ ctl'.pc = IF Lookup(Rank, Key(Head(ctl.av))) = 0 THEN "insert" ELSE "addcount"
  BY <1>5, FindMoves DEF Basics, Types
<1>7. Current' = Current /\ ~Resetting'
  BY <1>2, <1>6 DEF SameTask, Current, Resetting, Basics, Stands, Merging
<1>8. Range(ctl.av) \subseteq Entries(table[Current])
  BY <1>2 DEF Safe, Collected, Merging
<1>9. /\ Lookup(Rank, Key(Head(ctl.av))) = 0 =>
             \A p \in Entries(table[Rank]) : Key(p) # Key(Head(ctl.av))
      /\ Lookup(Rank, Key(Head(ctl.av))) # 0 =>
             /\ Lookup(Rank, Key(Head(ctl.av))) \in Entries(table[Rank])
             /\ Key(Lookup(Rank, Key(Head(ctl.av)))) = Key(Head(ctl.av))
  BY <1>4, LookupMisses, LookupFinds DEF Basics
<1>10. \A p : Key(p)' = Key(p)
  BY <1>2 DEF Key
<1>11. Key(Head(ctl.av))' = Key(Head(ctl.av)) /\ Key(ctl.csp)' = Key(ctl'.csp)
  BY <1>2, <1>6 DEF Key
<1>12. Collected'
  BY <1>2, <1>6, <1>7, <1>8, <1>9, <1>10, <1>11 DEF Collected, Draining
<1>13. QED
  BY <1>3, <1>12 DEF Safe

LEMMA SafeInsert ==
    ASSUME Basics, Placed, Safe, InsertInRank
    PROVE  Safe'
<1> DEFINE k == Key(Head(ctl.av))
<1>1. UNCHANGED <<op, freed>> /\ KeysKept /\ ctl.pc = "insert" /\ ctl.pc \notin Draining
  BY ControlUntouched, ControlKeys DEF Untouched, Control, InsertInRank, Draining
<1>2. /\ Head(ctl.av) \in Ids /\ k \in Keys /\ Rank \in Tables
      /\ \A u \in Tables : Entries(table[u]) \subseteq Ids
      /\ freed \subseteq Ids
      /\ \A u \in Threads : u \in Tables \ {Rank}
      /\ \A u \in Threads : op[u].pc \in Linking \cup {"bump", "count", "time"} => op[u].csp \in Ids
  BY <1>1, HeadRecord, TablesAssumption DEF Basics, Stands, Pointers, Tables
<1>3. Lookup(Rank, k) = 0
  <2>1. \A p \in Entries(table[Rank]) : Key(p) # k
    BY <1>1 DEF Safe, Collected
  <2>2. QED
    BY <1>2, <2>1, LookupFinds DEF Basics
<1>4. PICK n : n = Len(rec) + 1
  OBVIOUS
<1>5. n \notin Ids /\ Ids' = Ids \cup {n} /\ NewKey(n) = k
  BY <1>4, InsertRecord DEF RecAdded, NewKey, Basics
<1>6. /\ table' \in [Tables -> HashTables]
      /\ table'[Rank].count = table[Rank].count + 1
      /\ table'[Rank].chain[Index(k)] = <<n>> \o table[Rank].chain[Index(k)]
      /\ \A j \in Buckets \ {Index(k)} : table'[Rank].chain[j] = table[Rank].chain[j]
      /\ Entries(table'[Rank]) = Entries(table[Rank]) \cup {n}
      /\ \A u \in Tables \ {Rank} : table'[u] = table[u]
  BY <1>3, <1>4, InsertEffect DEF Basics
<1>7. Size(table'[Rank]) = Size(table[Rank]) + 1
  <2>1. PICK i \in Buckets : i = Index(k)
    BY <1>2, IndexInBuckets
  <2>2. PICK m \in Nat : m = n
    BY <1>4 DEF Basics, Types
  <2>3. table[Rank] \in HashTables /\ table'[Rank] \in HashTables
    BY <1>2, <1>6 DEF Basics, Types
  <2>4. table[Rank].chain[i] \in Seq(Nat)
    BY <2>3, EntriesFacts
  <2>5. Len(<<m>> \o table[Rank].chain[i]) = Len(table[Rank].chain[i]) + 1
    BY <2>4, PrependFacts
  <2>6. Len(table'[Rank].chain[i]) = Len(table[Rank].chain[i]) + 1
    BY <1>6, <2>1, <2>2, <2>5
  <2>7. QED
    BY <1>6, <2>1, <2>3, <2>6, SizeGrows
<1>8. /\ SameTask /\ ctl'.av = ctl.av /\ ctl'.csp = n /\ ctl'.pc = "addcount"
  BY <1>4, InsertMoves DEF Basics, Types
<1>9. /\ \A u, v \in Tables : u # v => Entries(table[u]) \cap Entries(table[v]) = {}
      /\ \A u \in Tables : Entries(table[u]) \cap freed = {}
  BY DEF Safe, Owned
<1>10. Owned'
  <2>1. \A u \in Tables : Entries(table'[u]) =
             IF u = Rank THEN Entries(table[u]) \cup {n} ELSE Entries(table[u])
    BY <1>6
  <2>2. n \notin freed /\ \A u \in Tables : n \notin Entries(table[u])
    BY <1>2, <1>5
  <2>3. /\ \A u, v \in Tables : u # v => Entries(table'[u]) \cap Entries(table'[v]) = {}
        /\ \A u \in Tables : Entries(table'[u]) \cap freed = {}
    BY <1>9, <2>1, <2>2
  <2>4. QED
    BY <1>1, <2>3 DEF Owned
<1>11. Held'
  <2>1. ASSUME NEW t \in Threads, op[t].pc \in Linking \cup {"create"}
        PROVE  \A p \in Entries(table'[t]) : NewKey(p) # op[t].key
    <3>1. \A p \in Entries(table[t]) : Key(p) # op[t].key /\ p \in Ids
      BY <1>2, <2>1 DEF Safe, Held
    <3>2. QED
      BY <1>1, <1>2, <1>6, <3>1 DEF KeysKept
  <2>2. ASSUME NEW t \in Threads, op[t].pc \in {"bump", "count", "time"}
        PROVE  op[t].csp \in Entries(table'[t]) /\ NewKey(op[t].csp) = op[t].key
    <3>1. op[t].csp \in Entries(table[t]) /\ Key(op[t].csp) = op[t].key /\ op[t].csp \in Ids
      BY <1>2, <2>2 DEF Safe, Held
    <3>2. QED
      BY <1>1, <1>2, <1>6, <3>1 DEF KeysKept
  <2>3. ASSUME NEW t \in Threads, op[t].pc \in Linking
        PROVE  /\ op[t].csp \notin freed
               /\ \A u \in Tables : op[t].csp \notin Entries(table'[u])
               /\ \A u \in Threads : op[u].pc \in Linking /\ op[u].csp = op[t].csp => u = t
    <3>1. /\ op[t].csp \notin freed /\ op[t].csp \in Ids
          /\ \A u \in Tables : op[t].csp \notin Entries(table[u])
          /\ \A u \in Threads : op[u].pc \in Linking /\ op[u].csp = op[t].csp => u = t
      BY <1>2, <2>3 DEF Safe, Held, Loose
    <3>2. QED
      BY <1>5, <1>6, <3>1
  <2>4. QED
    BY <1>1, <2>1, <2>2, <2>3 DEF Held, Loose, Key, NewKey
<1>12. Counted'
  <2>1. \A t \in Tables : ~BeingDrained(t) /\ ~BeingDrained(t)' /\ BeingLinked(t)' = BeingLinked(t)
    BY <1>1, <1>8 DEF BeingDrained, BeingLinked
  <2>2. ~BeingLinked(Rank)
    BY TablesAssumption DEF BeingLinked
  <2>3. \A t \in Tables \ {Rank} :
            /\ Size(table'[t]) = table'[t].count + IF BeingLinked(t) THEN 1 ELSE 0
            /\ BeingLinked(t) => op[t].seen = table'[t].count
    BY <1>6, <2>1 DEF Safe, Counted
  <2>4. Size(table'[Rank]) = table'[Rank].count
    <3>1. Size(table[Rank]) = table[Rank].count + 0 /\ table[Rank].count \in Nat
      BY <1>2, <2>1, <2>2 DEF Safe, Counted, Basics, Types, HashTables
    <3>2. PICK a, b, c, d : /\ a = Size(table[Rank]) /\ b = table[Rank].count
                            /\ c = Size(table'[Rank]) /\ d = table'[Rank].count
      OBVIOUS
    <3>3. c = a + 1 /\ d = b + 1 /\ a = b + 0 /\ b \in Nat
      BY <1>6, <1>7, <3>1, <3>2
    <3>4. c = d
      BY <3>3
    <3>5. QED
      BY <3>2, <3>4
  <2>5. table'[Rank].count \in Nat
    BY <1>2, <1>6 DEF HashTables
  <2>6. QED
    BY <1>1, <1>2, <2>1, <2>2, <2>3, <2>4, <2>5 DEF Counted
<1>13. Collected'
  <2>1. ~Resetting' /\ Current' = Current /\ Current \in Tables
    BY <1>1, <1>8, CurrentThread DEF SameTask, Current, Resetting, Basics, Stands, Merging
  <2>2. Range(ctl.av) \subseteq Entries(table'[Current])
    <3>1. Range(ctl.av) \subseteq Entries(table[Current])
      BY <1>1 DEF Safe, Collected, Merging
    <3>2. QED
      BY <1>6, <2>1, <3>1
  <2>3. n \in Entries(table'[Rank]) /\ NewKey(n) = NewKey(Head(ctl.av))
    BY <1>1, <1>2, <1>5, <1>6 DEF KeysKept
  <2>4. QED
    BY <1>8, <2>1, <2>2, <2>3 DEF Collected, Draining, Key, NewKey
<1>14. NoLeak'
  <2>1. \A p \in Ids \ freed : \/ \E t \in Tables : p \in Entries(table[t])
                               \/ \E t \in Threads : Loose(t) /\ op[t].csp = p
    BY <1>1 DEF Safe, NoLeak
  <2>2. \A p \in Ids' \ freed : \/ \E t \in Tables : p \in Entries(table'[t])
                                \/ \E t \in Threads : Loose(t) /\ op[t].csp = p
    BY <1>2, <1>5, <1>6, <2>1
  <2>3. QED
    BY <1>1, <2>2 DEF NoLeak, Loose
<1>15. QED
  BY <1>10, <1>11, <1>12, <1>13, <1>14 DEF Safe

LEMMA SafeMerge ==
    ASSUME Basics, Safe, MergeCount \/ MergeTime
    PROVE  Safe'
<1>1. UNCHANGED op /\ KeysKept
  BY ControlUntouched, ControlKeys DEF Untouched, Control
<1>2. /\ UNCHANGED <<table, freed>> /\ ctl.pc \in {"addcount", "addtime"} /\ ctl.av # <<>>
      /\ ctl.pc \notin Draining
  BY DEF MergeCount, MergeTime, Draining, Basics, Stands
<1>3. Ids' = Ids
  BY MergeCountEffect, MergeTimeEffect DEF RecKept, Basics
<1>4. Owned' /\ Held' /\ Counted' /\ NoLeak'
  BY <1>1, <1>2, <1>3, SafeFrame
<1>5. /\ SameTask
      /\ \/ ctl'.pc = "addtime" /\ ctl'.av = ctl.av /\ ctl'.csp = ctl.csp
         \/ ctl'.pc = "record" /\ ctl'.av = Tail(ctl.av)
  BY <1>2, MergeCountMoves, MergeTimeMoves DEF Basics, Types
<1>6. Current' = Current /\ ~Resetting'
  BY <1>2, <1>5 DEF SameTask, Current, Resetting, Basics, Stands, Merging
<1>7. /\ Range(ctl.av) \subseteq Entries(table[Current])
      /\ ctl.csp \in Entries(table[Rank]) /\ Key(ctl.csp) = Key(Head(ctl.av))
      /\ Range(Tail(ctl.av)) \subseteq Range(ctl.av) /\ Head(ctl.av) \in Ids /\ ctl.csp \in Ids
  BY <1>2, HeadRecord DEF Safe, Collected, Merging, Basics, Pointers
<1>8. NewKey(ctl.csp) = NewKey(Head(ctl.av))
  BY <1>1, <1>7 DEF KeysKept
<1>9. CASE ctl'.pc = "addtime" /\ ctl'.av = ctl.av /\ ctl'.csp = ctl.csp
  <2>1. Collected'
    BY <1>2, <1>6, <1>7, <1>8, <1>9 DEF Collected, Draining, Key, NewKey
  <2>2. QED
    BY <1>4, <2>1 DEF Safe
<1>10. CASE ctl'.pc = "record" /\ ctl'.av = Tail(ctl.av)
  <2>1. Range(ctl'.av) \subseteq Entries(table'[Current])
    BY <1>2, <1>7, <1>10
  <2>2. Collected'
    BY <1>6, <1>10, <2>1 DEF Collected, Draining
  <2>3. QED
    BY <1>4, <2>2 DEF Safe
<1>11. QED
  BY <1>5, <1>9, <1>10

LEMMA SafeFinish ==
    ASSUME Basics, Safe, MergeHist \/ EndControl
    PROVE  Safe'
<1>1. UNCHANGED op /\ KeysKept
  BY ControlUntouched, ControlKeys DEF Untouched, Control
<1>2. UNCHANGED <<table, freed, rec>> /\ ctl.pc \notin Draining
  BY DEF MergeHist, EndControl, memory, Draining
<1>3. Owned' /\ Held' /\ Counted' /\ NoLeak'
  BY <1>1, <1>2, SafeFrame DEF Ids
<1>4. ctl'.pc \in {"end", "alloc", "idle"} /\ ~Resetting'
  <2>1. CASE MergeHist
    <3>1. ctl.pc = "record" /\ ctl.todo # <<>> /\ ctl' = NextTable(ctl)
      BY <2>1, CurrentThread DEF MergeHist, Basics
    <3>2. QED
      BY <3>1, TableMoves DEF Basics, Types, Stands, Merging, Resetting
  <2>2. CASE EndControl
    BY <2>2, EndMoves DEF Resetting
  <2>3. QED
    BY <2>1, <2>2
<1>5. Collected'
  BY <1>4 DEF Collected, Merging, Draining
<1>6. QED
  BY <1>3, <1>5 DEF Safe

LEMMA SafeControl ==
    ASSUME Basics, Placed, discipline # "free", Safe, Control
    PROVE  Safe'
  BY SafeStart, SafeDrainRank, SafeGatherAlloc, SafeGatherChain, SafeFreeChain, SafeZeroCount,
     SafeRelease, SafeFind, SafeInsert, SafeMerge, SafeFinish DEF Control

LEMMA DisciplineKept == [Next]_vars => UNCHANGED discipline
<1>1. ASSUME NEW t \in Threads, Update(t)
      PROVE  UNCHANGED discipline
  BY <1>1 DEF Update, SearchCallsite, CreateCallsite, NumberCallsite, LinkCallsite,
              BumpCount, UpdateCount, UpdateTime, UpdateHist, bounds
<1>2. QED
  BY <1>1, ControlUntouched DEF Next, Untouched, vars, bounds

LEMMA SafeInvariant == Spec => [](Basics /\ (discipline # "free" => Safe))
<1> DEFINE I == discipline # "free" => Safe
<1>1. Init => I
  <2>1. SUFFICES ASSUME Init
                 PROVE  Safe
    OBVIOUS
  <2>2. /\ \A t \in Tables : table[t] = Open(TableSize)
        /\ Ids = {} /\ freed = {} /\ ctl.pc = "idle" /\ ctl.kind = "none"
        /\ \A t \in Threads : op[t].pc = "idle"
    BY <2>1 DEF Init, Ids, CtlIdle, Idle
  <2>3. \A t \in Tables : /\ Entries(table[t]) = {} /\ Size(table[t]) = 0
                          /\ table[t].count = 0
    BY <2>2, OpenFacts
  <2>4. Owned /\ Held /\ Counted /\ Collected /\ NoLeak
    BY <2>2, <2>3 DEF Owned, Held, Counted, Collected, NoLeak, Loose, Linking, BeingLinked,
                      Resetting, Merging, Draining
  <2>5. QED
    BY <2>4 DEF Safe
<1>2. Basics /\ Placed /\ I /\ [Next]_vars => I'
  <2>1. SUFFICES ASSUME Basics, Placed, I, [Next]_vars, discipline' # "free"
                 PROVE  Safe'
    OBVIOUS
  <2>2. discipline # "free" /\ Safe
    BY <2>1, DisciplineKept
  <2>3. CASE Next
    BY <2>1, <2>2, <2>3, SafeUpdate, SafeControl DEF Next
  <2>4. CASE UNCHANGED vars
    <3>1. UNCHANGED <<table, rec, freed, op, ctl>>
      BY <2>4 DEF vars, memory, opVars
    <3>2. Ids' = Ids /\ \A t \in Tables : BeingDrained(t)' = BeingDrained(t)
                                          /\ BeingLinked(t)' = BeingLinked(t)
      BY <3>1 DEF Ids, BeingDrained, BeingLinked, Current
    <3>3. Owned' /\ Counted' /\ NoLeak'
      BY <2>2, <3>1, <3>2 DEF Safe, Owned, Counted, NoLeak, Loose
    <3>4. Held'
      BY <2>2, <3>1 DEF Safe, Held, Loose, Key
    <3>5. Collected'
      BY <2>2, <3>1 DEF Safe, Collected, Resetting, Quiet, Current, Key
    <3>6. QED
      BY <3>3, <3>4, <3>5 DEF Safe
  <2>5. QED
    BY <2>1, <2>3, <2>4
<1>3. QED
  BY <1>1, <1>2, PlacedInvariant, PTL DEF Spec

(* "ASSUME: csp cannot be deleted from list" (mpiP-stats.c:289) is right   *)
(* where the application keeps MPI_Pcontrol(2) apart from the calls of its *)
(* other threads: the record that a call found or made stays until the     *)
(* call has updated it, whatever is merged meanwhile.                      *)
THEOREM CspStays == Spec => [](discipline # "free" => CspNotDeleted)
<1>1. Basics /\ (discipline # "free" => Safe) => (discipline # "free" => CspNotDeleted)
  <2>1. SUFFICES ASSUME Basics, Safe, NEW t \in Threads, op[t].pc \in {"count", "time"}
                 PROVE  op[t].csp \notin freed
    BY DEF CspNotDeleted
  <2>2. op[t].csp \in Entries(table[t]) /\ t \in Tables
    BY <2>1 DEF Safe, Held, Tables
  <2>3. QED
    BY <2>1, <2>2 DEF Safe, Owned
<1>2. QED
  BY <1>1, SafeInvariant, PTL

(* There, the tables that h_insert, h_gather_data and h_drain work on      *)
(* without a lock are sound whenever they are not being drained: the count *)
(* is the number of entries but for the one whose insertion is not         *)
(* finished, no entry was freed, and each key has one entry, in its chain. *)
THEOREM SoundTables == Spec => [](discipline # "free" => TablesSound)
<1>1. Basics /\ Placed /\ (discipline # "free" => Safe) => (discipline # "free" => TablesSound)
  <2>1. SUFFICES ASSUME Basics, Placed, Safe, NEW t \in Tables, ~BeingDrained(t)
                 PROVE  /\ Size(table[t]) = table[t].count + IF BeingLinked(t) THEN 1 ELSE 0
                        /\ Entries(table[t]) \cap freed = {}
                        /\ \A i \in Buckets :
                             \A j, l \in DOMAIN table[t].chain[i] :
                               /\ Index(Key(table[t].chain[i][j])) = i
                               /\ Key(table[t].chain[i][j]) = Key(table[t].chain[i][l]) => j = l
    BY DEF TablesSound, Buckets
  <2>2. Size(table[t]) = table[t].count + IF BeingLinked(t) THEN 1 ELSE 0
    BY <2>1 DEF Safe, Counted
  <2>3. Entries(table[t]) \cap freed = {}
    BY <2>1 DEF Safe, Owned
  <2>4. QED
    BY <2>1, <2>2, <2>3 DEF Placed, Chained
<1>2. QED
  BY <1>1, SafeInvariant, PlacedInvariant, PTL

(* There, every record that mpiPi_cs_init allocates is freed or can still  *)
(* be: it is in a table, or in the hands of a call or of a drain.          *)
THEOREM RecordsKept == Spec => [](discipline # "free" => NothingLeaked)
<1>1. Basics /\ (discipline # "free" => Safe) => (discipline # "free" => NothingLeaked)
  BY DEF Safe, NoLeak, NothingLeaked, Loose, Linking
<1>2. QED
  BY <1>1, SafeInvariant, PTL

(***************************************************************************)
(* The room for the pointers.                                              *)
(***************************************************************************)
(* The chains walked so far hold no more than the table. *)
LEMMA PartOfSize ==
    ASSUME NEW ht \in HashTables, NEW i \in Buckets
    PROVE  /\ SumFunctionOnSet(Lengths(ht), 0 .. i) \in Nat
           /\ SumFunctionOnSet(Lengths(ht), 0 .. i) =
                  SumFunctionOnSet(Lengths(ht), 0 .. i - 1) + Len(ht.chain[i])
           /\ i + 1 = TableSize => SumFunctionOnSet(Lengths(ht), 0 .. i) = Size(ht)
<1>1. i + 1 \in 0 .. TableSize /\ (i + 1) - 1 = i
  BY TablesAssumption DEF Buckets
<1>2. SumFunctionOnSet(Lengths(ht), 0 .. i) \in Nat
  BY <1>1, SizeFacts
<1>3. i + 1 = TableSize => 0 .. i = Buckets
  BY <1>1 DEF Buckets
<1>4. QED
  BY <1>2, <1>3, SizeFacts

LEMMA PartFits ==
    ASSUME NEW ht \in HashTables, NEW n \in 0 .. TableSize
    PROVE  SumFunctionOnSet(Lengths(ht), 0 .. n - 1) <= Size(ht)
<1>1. IsFiniteSet(Buckets) /\ 0 .. n - 1 \in SUBSET Buckets
  BY TablesAssumption, FS_Interval DEF Buckets
<1>2. \A j \in Buckets : Lengths(ht)[j] \in Nat
  BY EntriesFacts DEF Lengths
<1>3. SumFunctionOnSet(Lengths(ht), 0 .. n - 1) <= SumFunctionOnSet(Lengths(ht), Buckets)
  BY <1>1, <1>2, SumOfPart
<1>4. QED
  BY <1>3, SizeFacts

(* While MPI_Pcontrol runs, and calls are funneled, none is under way. *)
LEMMA FunneledQuiet ==
    ASSUME Basics, Numbered, ctl.pc # "idle"
    PROVE  Quiet
  BY TablesAssumption DEF Quiet, Numbered, Basics, Stands

LEMMA FunneledCount ==
    ASSUME Basics, Safe, Numbered, ctl.pc \in {"alloc", "gather"}
    PROVE  /\ Current \in Tables /\ table[Current] \in HashTables
           /\ Size(table[Current]) = table[Current].count
<1>1. Quiet /\ Current \in Tables /\ table[Current] \in HashTables
  BY FunneledQuiet, CurrentThread DEF Basics, Types
<1>2. ~BeingLinked(Current) /\ ~BeingDrained(Current)
  BY <1>1 DEF Quiet, BeingLinked, BeingDrained
<1>3. Size(table[Current]) = table[Current].count + 0 /\ table[Current].count \in Nat
  BY <1>1, <1>2 DEF Safe, Counted, HashTables
<1>4. QED
  BY <1>1, <1>3

LEMMA FitsUpdate ==
    ASSUME Basics, discipline = "funneled", Numbered, Fits, NEW t \in Threads, Update(t)
    PROVE  Fits'
<1>1. t = Main
  BY FunneledMain
<1>2. ctl.pc = "idle"
  <2>1. op[t].pc # "idle" => ctl.pc = "idle"
    BY <1>1 DEF Basics, Stands
  <2>2. QED
    BY <1>1, <2>1 DEF Update, SearchCallsite, MayCall, CreateCallsite, NumberCallsite,
           LinkCallsite, BumpCount, UpdateCount, UpdateTime, UpdateHist
<1>3. UNCHANGED ctl
  BY DEF Update, SearchCallsite, CreateCallsite, NumberCallsite, LinkCallsite, BumpCount,
         UpdateCount, UpdateTime, UpdateHist
<1>4. QED
  BY <1>2, <1>3 DEF Fits

LEMMA FitsControl ==
    ASSUME Basics, Safe, Numbered, Fits, Control
    PROVE  Fits'
<1>1. /\ ctl \in Controls /\ ctl.av \in Seq(Nat) /\ Len(ctl.av) \in Nat /\ ctl.room \in Nat
      /\ ctl.i \in Buckets /\ tmpCtr \in Nat /\ Len(rec) \in Nat
  BY ControlFields DEF Basics, Types
<1>2. ASSUME ctl'.av = <<>>, ctl' \in Controls, ctl'.pc # "gather"
      PROVE  Fits'
  <2>1. Len(ctl'.av) = 0 /\ ctl'.room \in Nat
    BY <1>2 DEF Controls
  <2>2. QED
    BY <1>2, <2>1 DEF Fits
<1>3. ASSUME ctl'.av = ctl.av, ctl'.room = ctl.room, ctl.pc \notin {"alloc", "gather"},
             ctl'.pc # "gather"
      PROVE  Fits'
  BY <1>3 DEF Fits
<1>4. CASE StartReport \/ StartReset
  <2>1. ctl' \in Controls /\ ctl'.av = <<>> /\ ctl'.pc = "rank"
    BY <1>4, StartMoves
  <2>2. QED
    BY <1>2, <2>1
<1>5. CASE DrainRank
  <2>1. ctl'.pc = "alloc" /\ ctl' \in Controls /\ ctl'.av = ctl.av /\ ctl.av = <<>>
    BY <1>1, <1>5, RankMoves DEF DrainRank, Basics, Stands
  <2>2. QED
    BY <1>2, <2>1
<1>6. CASE GatherAlloc
  <2>1. /\ table[Current] \in HashTables /\ table[Current].count \in Nat /\ UNCHANGED table
    BY <1>6, CurrentThread DEF GatherAlloc, Basics, Types, HashTables
  <2>2. /\ SameTask /\ ctl'.pc = "gather" /\ ctl'.i = 0 /\ ctl'.av = <<>>
        /\ ctl'.room = table[Current].count
    BY <1>1, <1>6, <2>1, AllocMoves
  <2>3. SumFunctionOnSet(Lengths(table[Current]), 0 .. -1) = 0
    BY <2>1, SizeFacts
  <2>4. ctl'.i - 1 = -1 /\ Current' = Current /\ Len(ctl'.av) = 0
    BY <2>2 DEF SameTask, Current
  <2>5. QED
    BY <2>1, <2>2, <2>3, <2>4 DEF Fits, Lengths
<1>7. CASE GatherChain
  <2>1. /\ Current \in Tables /\ table[Current] \in HashTables
        /\ Size(table[Current]) = table[Current].count /\ UNCHANGED table
        /\ ctl.room = table[Current].count
        /\ Len(ctl.av) = SumFunctionOnSet(Lengths(table[Current]), 0 .. ctl.i - 1)
    BY <1>7, FunneledCount DEF GatherChain, Fits
  <2>2. table[Current].chain[ctl.i] \in Seq(Nat)
    BY <1>1, <2>1, EntriesFacts
  <2>3. /\ SameTask /\ ctl'.room = ctl.room /\ ctl'.av = ctl.av \o table[Current].chain[ctl.i]
        /\ Goes("gather", IF Resetting THEN "free" ELSE "record")
    BY <1>1, <1>7, <2>2, GatherMoves
  <2>4. Len(ctl'.av) = Len(ctl.av) + Len(table[Current].chain[ctl.i])
    BY <1>1, <2>2, <2>3, AppendedRange
  <2>5. Len(ctl'.av) = SumFunctionOnSet(Lengths(table[Current]), 0 .. ctl.i)
    BY <1>1, <2>1, <2>4, PartOfSize
  <2>6. Current' = Current
    BY <2>3 DEF SameTask, Current
  <2>7. CASE ctl'.pc = "gather"
    <3>1. ctl'.i - 1 = ctl.i
      BY <1>1, <2>3, <2>7 DEF Goes, Buckets
    <3>2. QED
      BY <2>1, <2>3, <2>5, <2>6, <2>7, <3>1 DEF Fits, Lengths
  <2>8. CASE ctl'.pc # "gather"
    <3>1. ctl.i + 1 = TableSize
      BY <2>3, <2>8 DEF Goes
    <3>2. Len(ctl'.av) = ctl'.room /\ Len(ctl'.av) \in Nat
      BY <1>1, <2>1, <2>3, <2>5, <3>1, PartOfSize
    <3>3. QED
      BY <2>8, <3>2 DEF Fits
  <2>9. QED
    BY <2>7, <2>8
<1>8. CASE FreeChain
  <2>1. ctl'.av = ctl.av /\ ctl'.room = ctl.room /\ ctl'.pc # "gather" /\ ctl.pc = "free"
    BY <1>1, <1>8, FreeMoves DEF Goes, FreeChain
  <2>2. QED
    BY <1>3, <2>1
<1>9. CASE ZeroCount
  <2>1. ctl'.av = ctl.av /\ ctl'.room = ctl.room /\ ctl'.pc # "gather" /\ ctl.pc = "zero"
    BY <1>1, <1>9, ZeroMoves DEF ZeroCount
  <2>2. QED
    BY <1>3, <2>1
<1>10. CASE ReleaseRecords \/ MergeHist
  <2>1. ctl.todo # <<>> /\ ctl' = NextTable(ctl)
    BY <1>10, CurrentThread DEF ReleaseRecords, MergeHist, Basics
  <2>2. ctl' \in Controls /\ ctl'.av = <<>> /\ ctl'.pc # "gather"
    BY <1>1, <2>1, TableMoves
  <2>3. QED
    BY <1>2, <2>2
<1>11. CASE FindInRank
  <2>1. Key(Head(ctl.av)) \in Keys
    BY <1>11, HeadRecord DEF FindInRank, Basics
  <2>2. Lookup(Rank, Key(Head(ctl.av))) \in Nat
    BY <2>1, LookupFinds DEF Basics, Tables
  <2>3. ctl'.av = ctl.av /\ ctl'.room = ctl.room /\ ctl'.pc # "gather" /\ ctl.pc = "record"
    BY <1>1, <1>11, <2>2, FindMoves DEF FindInRank
  <2>4. QED
    BY <1>3, <2>3
<1>12. CASE InsertInRank \/ MergeCount
  <2>1. /\ ctl'.av = ctl.av /\ ctl'.room = ctl.room /\ ctl'.pc # "gather"
        /\ ctl.pc \in {"insert", "addcount"}
    BY <1>1, <1>12, InsertMoves, MergeCountMoves DEF InsertInRank, MergeCount
  <2>2. QED
    BY <1>3, <2>1
<1>13. CASE MergeTime
  <2>1. ctl.av # <<>> /\ ctl.pc = "addtime"
    BY <1>13 DEF MergeTime, Basics, Stands
  <2>2. ctl'.av = Tail(ctl.av) /\ ctl'.room = ctl.room /\ ctl'.pc = "record"
    BY <1>1, <1>13, <2>1, MergeTimeMoves
  <2>3. Len(Tail(ctl.av)) = Len(ctl.av) - 1
    BY <1>1, <2>1, TailFacts
  <2>4. QED
    BY <1>1, <2>1, <2>2, <2>3 DEF Fits
<1>14. CASE EndControl
  <2>1. ctl' \in Controls /\ ctl'.av = <<>> /\ ctl'.pc # "gather"
    BY <1>14, EndMoves
  <2>2. QED
    BY <1>2, <2>1
<1>15. QED
  BY <1>4, <1>5, <1>6, <1>7, <1>8, <1>9, <1>10, <1>11, <1>12, <1>13, <1>14 DEF Control

(* h_gather_data has room for every pointer it stores, if only the thread  *)
(* that gathers calls MPI: the count it read when it allocated is that of  *)
(* the chains it walks.                                                    *)
THEOREM RoomForAll == Spec => []GatherFits
<1> DEFINE I == discipline = "funneled" => Numbered
           J == discipline # "free" => Safe
           F == discipline = "funneled" => Fits
<1>1. Init => F
  <2>1. Init => ctl.pc = "idle" /\ ctl.av = <<>> /\ ctl.room = 0
    BY DEF Init, CtlIdle
  <2>2. QED
    BY <2>1 DEF Fits
<1>2. Basics /\ I /\ J /\ F /\ [Next]_vars => F'
  <2>1. SUFFICES ASSUME Basics, I, J, F, [Next]_vars, discipline' = "funneled"
                 PROVE  Fits'
    OBVIOUS
  <2>2. discipline = "funneled"
    BY <2>1, DisciplineKept
  <2>3. Numbered /\ Safe /\ Fits
    BY <2>1, <2>2
  <2>4. CASE Next
    BY <2>1, <2>2, <2>3, <2>4, FitsUpdate, FitsControl DEF Next
  <2>5. CASE UNCHANGED vars
    <3>1. UNCHANGED <<table, ctl>>
      BY <2>5 DEF vars
    <3>2. Current' = Current /\ Lengths(table[Current])' = Lengths(table[Current])
      BY <3>1 DEF Current, Lengths
    <3>3. QED
      BY <2>3, <3>1, <3>2 DEF Fits
  <2>6. QED
    BY <2>1, <2>4, <2>5
<1>3. Basics /\ I /\ J /\ F => GatherFits
  <2>1. SUFFICES ASSUME Basics, I, J, F, discipline = "funneled", ctl.pc # "alloc"
                 PROVE  Len(ctl.av) <= ctl.room
    BY DEF GatherFits
  <2>2. CASE ctl.pc = "gather"
    <3>1. /\ table[Current] \in HashTables /\ Size(table[Current]) = table[Current].count
      BY <2>1, <2>2, FunneledCount
    <3>2. ctl.i \in 0 .. TableSize
      BY <2>1, ControlFields, TablesAssumption DEF Basics, Types, Buckets
    <3>3. SumFunctionOnSet(Lengths(table[Current]), 0 .. ctl.i - 1) <= Size(table[Current])
      BY <3>1, <3>2, PartFits
    <3>4. QED
      BY <2>1, <2>2, <3>1, <3>3 DEF Fits
  <2>3. CASE ctl.pc # "gather"
    BY <2>1, <2>3 DEF Fits
  <2>4. QED
    BY <2>2, <2>3
<1>4. Spec => []I
  BY NumberedInvariant
<1>5. Spec => [](Basics /\ J)
  BY SafeInvariant
<1>6. QED
  BY <1>1, <1>2, <1>3, <1>4, <1>5, PTL DEF Spec

-----------------------------------------------------------------------------
(***************************************************************************)
(* Reports that add up the threads.  A report starts from 0, adds what it  *)
(* reads, thread by thread, and the threads go on counting: what has been  *)
(* added and what is still to be read stay together between what there was *)
(* at the start and what there is now.                                     *)
(***************************************************************************)
Counters(f) == \A t \in Threads : f[t] \in Nat

LEMMA CountersSum ==
    ASSUME NEW f, Counters(f), NEW S \in SUBSET Threads
    PROVE  /\ IsFiniteSet(S) /\ IsFiniteSet(Threads) /\ Threads \in SUBSET Threads
           /\ SumFunctionOnSet(f, S) \in Nat /\ SumFunctionOnSet(f, Threads) \in Nat
           /\ SumFunctionOnSet(f, S) <= SumFunctionOnSet(f, Threads)
<1>1. IsFiniteSet(S) /\ IsFiniteSet(Threads) /\ \A x \in S : x \in Threads
  BY TablesAssumption, FS_Subset
<1>2. SumFunctionOnSet(f, S) \in Nat /\ SumFunctionOnSet(f, Threads) \in Nat
  BY <1>1, SumNat DEF Counters
<1>3. SumFunctionOnSet(f, S) <= SumFunctionOnSet(f, Threads)
  BY <1>1, SumOfPart DEF Counters
<1>4. QED
  BY <1>1, <1>2, <1>3

LEMMA BracketStarts ==
    ASSUME NEW f, Counters(f), NEW low, low = SumFunctionOnSet(f, Threads)
    PROVE  Bracketed(f, 0, Threads, low)
  BY CountersSum DEF Bracketed

LEMMA BracketKept ==
    ASSUME NEW f, Counters(f), NEW g, \A t \in Threads : g[t] = f[t],
           NEW S \in SUBSET Threads, NEW m, NEW low, Bracketed(f, m, S, low)
    PROVE  Bracketed(g, m, S, low)
<1>1. \A t \in S : g[t] = f[t]
  OBVIOUS
<1>2. /\ SumFunctionOnSet(g, S) = SumFunctionOnSet(f, S)
      /\ SumFunctionOnSet(g, Threads) = SumFunctionOnSet(f, Threads)
  BY <1>1, CountersSum, SumEqual
<1>3. QED
  BY <1>2 DEF Bracketed

(* A thread counts one more. *)
LEMMA SumGrows ==
    ASSUME NEW f, Counters(f), NEW g, NEW e \in Threads, g[e] = f[e] + 1,
           \A t \in Threads \ {e} : g[t] = f[t], NEW S \in SUBSET Threads
    PROVE  /\ Counters(g)
           /\ SumFunctionOnSet(g, S) = SumFunctionOnSet(f, S) + IF e \in S THEN 1 ELSE 0
<1>1. Counters(g)
  BY DEF Counters
<1>2. IsFiniteSet(S) /\ SumFunctionOnSet(f, S) \in Nat /\ SumFunctionOnSet(g, S) \in Nat
  BY <1>1, CountersSum
<1>3. CASE e \in S
  <2>1. \A t \in S : f[t] \in Nat /\ g[t] \in Nat
    BY <1>1 DEF Counters
  <2>2. SumFunctionOnSet(g, S) + f[e] = SumFunctionOnSet(f, S) + g[e]
    BY <1>2, <1>3, <2>1, SumUpdate
  <2>3. SumFunctionOnSet(g, S) = SumFunctionOnSet(f, S) + 1
    BY <1>2, <1>3, <2>1, <2>2
  <2>4. QED
    BY <1>1, <1>3, <2>3
<1>4. CASE e \notin S
  <2>1. SumFunctionOnSet(g, S) = SumFunctionOnSet(f, S)
    BY <1>2, <1>4, SumEqual
  <2>2. QED
    BY <1>1, <1>2, <1>4, <2>1
<1>5. QED
  BY <1>3, <1>4

LEMMA BracketGrows ==
    ASSUME NEW f, Counters(f), NEW g, NEW e \in Threads, g[e] = f[e] + 1,
           \A t \in Threads \ {e} : g[t] = f[t],
           NEW S \in SUBSET Threads, NEW m \in Nat, NEW low \in Nat, Bracketed(f, m, S, low)
    PROVE  Bracketed(g, m, S, low)
<1>1. /\ SumFunctionOnSet(f, S) \in Nat /\ SumFunctionOnSet(f, Threads) \in Nat
      /\ Threads \in SUBSET Threads
  BY CountersSum
<1>2. /\ SumFunctionOnSet(g, S) \in {SumFunctionOnSet(f, S), SumFunctionOnSet(f, S) + 1}
      /\ SumFunctionOnSet(g, Threads) = SumFunctionOnSet(f, Threads) + 1
  BY <1>1, SumGrows
<1>3. QED
  BY <1>1, <1>2 DEF Bracketed

(* What is read goes from the rest to the sum. *)
LEMMA BracketMoves ==
    ASSUME NEW f, Counters(f), NEW g, \A t \in Threads : g[t] = f[t],
           NEW S \in SUBSET Threads, NEW e \in S, NEW m \in Nat, NEW low,
           Bracketed(f, m, S, low)
    PROVE  Bracketed(g, m + f[e], S \ {e}, low)
<1>1. IsFiniteSet(S) /\ f[e] \in Nat /\ S \ {e} \in SUBSET Threads /\ \A t \in S : f[t] \in Nat
  BY CountersSum DEF Counters
<1>2. SumFunctionOnSet(f, S) = f[e] + SumFunctionOnSet(f, S \ {e})
  BY <1>1, SumTakeOut
<1>3. SumFunctionOnSet(f, S \ {e}) \in Nat /\ SumFunctionOnSet(f, Threads) \in Nat
  BY <1>1, CountersSum
<1>4. Bracketed(f, m + f[e], S \ {e}, low)
  BY <1>1, <1>2, <1>3 DEF Bracketed
<1>5. QED
  BY <1>1, <1>4, BracketKept

(* The table listed next goes out of the list, for each is there once. *)
LEMMA DistinctTail ==
    ASSUME NEW S, NEW s \in Seq(S), s # <<>>, Distinct(s)
    PROVE  /\ Distinct(Tail(s)) /\ Head(s) \in Range(s) /\ Head(s) \notin Range(Tail(s))
           /\ Range(Tail(s)) = Range(s) \ {Head(s)}
<1>1. /\ Len(s) \in Nat \ {0} /\ Len(Tail(s)) = Len(s) - 1 /\ Head(s) = s[1]
      /\ \A i \in 1 .. Len(s) - 1 : Tail(s)[i] = s[i + 1]
      /\ DOMAIN s = 1 .. Len(s) /\ DOMAIN Tail(s) = 1 .. Len(s) - 1
  BY TailFacts
<1>2. Distinct(Tail(s))
  BY <1>1 DEF Distinct
<1>3. Head(s) \in Range(s)
  BY <1>1 DEF Range
<1>4. ASSUME NEW x \in Range(Tail(s))
      PROVE  x \in Range(s) /\ x # Head(s)
  <2>1. PICK i \in 1 .. Len(s) - 1 : x = s[i + 1]
    BY <1>1 DEF Range
  <2>2. i + 1 \in 1 .. Len(s) /\ i + 1 # 1 /\ 1 \in 1 .. Len(s)
    BY <1>1
  <2>3. QED
    BY <1>1, <2>1, <2>2 DEF Distinct, Range
<1>5. ASSUME NEW x \in Range(s), x # Head(s)
      PROVE  x \in Range(Tail(s))
  <2>1. PICK i \in 1 .. Len(s) : x = s[i]
    BY <1>1 DEF Range
  <2>2. i - 1 \in 1 .. Len(s) - 1 /\ (i - 1) + 1 = i
    BY <1>1, <1>5, <2>1
  <2>3. QED
    BY <1>1, <2>1, <2>2 DEF Range
<1>6. QED
  BY <1>2, <1>3, <1>4, <1>5

(***************************************************************************)
(* The collective statistics of the first report.                          *)
(***************************************************************************)
HistFacts == Counters(hist) /\ hist[Rank] \in Nat /\ Rank \notin Threads

LEMMA HistTypes == Basics => HistFacts /\ madeHist \in Nat /\ since.hist \in Nat
  BY TablesAssumption DEF Basics, Types, HistFacts, Counters, Tables

LEMMA ListedThreads ==
    ASSUME Basics
    PROVE  Range(ctl.todo) \in SUBSET Threads /\ ctl.todo \in Seq(Threads)
  BY ControlFields DEF Basics, Types, Range

(* Steps that read and write nothing of it. *)
LEMMA HistSame ==
    ASSUME Basics, Listing, HistListing, UNCHANGED <<hist, madeHist, reports>>,
           ctl'.kind = "report" => ctl.kind = "report" /\ UNCHANGED since,
           ctl'.todo = ctl.todo, ctl'.pc = "end" => ctl.pc = "end"
    PROVE  Listing' /\ HistListing'
<1>1. Listing'
  BY DEF Listing
<1>2. /\ UNCHANGED hist /\ madeHist' = SumFunctionOnSet(hist, Threads)
      /\ ctl'.kind = "report" => reports' # 0
      /\ reports' = 0 => hist'[Rank] = 0
  BY DEF HistListing
<1>3. ASSUME ctl'.kind = "report", reports' = 1
      PROVE  Bracketed(hist, hist[Rank], Range(ctl'.todo), since'.hist)
  BY <1>3 DEF HistListing
<1>4. QED
  BY <1>1, <1>2, <1>3 DEF HistListing

LEMMA HistUpdate ==
    ASSUME Basics, Listing, HistListing, NEW t \in Threads, Update(t)
    PROVE  Listing' /\ HistListing'
<1>1. UNCHANGED <<ctl, since, reports>>
  BY DEF Update, SearchCallsite, CreateCallsite, NumberCallsite, LinkCallsite, BumpCount,
         UpdateCount, UpdateTime, UpdateHist, bounds, history
<1>2. CASE UpdateHist(t)
  <2>1. hist \in [Tables -> Nat] /\ t \in Tables /\ Rank \in Tables /\ t # Rank
    BY TablesAssumption DEF Basics, Types, Tables
  <2>2. hist' = [hist EXCEPT ![t] = @ + 1] /\ madeHist' = madeHist + 1
    BY <1>2 DEF UpdateHist
  <2>3. hist'[t] = hist[t] + 1 /\ \A u \in Tables \ {t} : hist'[u] = hist[u]
    BY <2>1, <2>2
  <2>4. \A u \in Threads \ {t} : hist'[u] = hist[u]
    BY <2>3 DEF Tables
  <2>5. HistFacts /\ since.hist \in Nat /\ Range(ctl.todo) \in SUBSET Threads
    BY HistTypes, ListedThreads
  <2>6. SumFunctionOnSet(hist', Threads) = SumFunctionOnSet(hist, Threads) + 1
    BY <2>3, <2>4, <2>5, SumGrows DEF HistFacts
  <2>7. madeHist' = SumFunctionOnSet(hist', Threads)
    BY <2>2, <2>6 DEF HistListing
  <2>8. ASSUME ctl.kind = "report", reports = 1
        PROVE  Bracketed(hist', hist[Rank], Range(ctl.todo), since.hist)
    <3>1. Bracketed(hist, hist[Rank], Range(ctl.todo), since.hist)
      BY <2>8 DEF HistListing
    <3>2. QED
      BY <2>3, <2>4, <2>5, <3>1, BracketGrows DEF HistFacts
  <2>9. hist'[Rank] = hist[Rank]
    BY <2>1, <2>3
  <2>10. QED
    BY <1>1, <2>7, <2>8, <2>9 DEF Listing, HistListing
<1>3. CASE UNCHANGED <<hist, madeHist>>
  BY <1>1, <1>3, HistSame
<1>4. QED
  BY <1>2, <1>3 DEF Update, SearchCallsite, CreateCallsite, NumberCallsite, LinkCallsite,
         BumpCount, UpdateCount, UpdateTime, UpdateHist, history

LEMMA HistStart ==
    ASSUME Basics, Listing, HistListing, StartReport
    PROVE  Listing' /\ HistListing'
<1>1. /\ ctl'.pc = "rank" /\ ctl'.kind = "report" /\ ctl'.todo = Listed
  BY StartMoves
<1>2. UNCHANGED <<hist, madeHist>> /\ reports' = reports + 1 /\ since'.hist = madeHist
  BY DEF StartReport
<1>3. Listing'
  BY <1>1, ListedFacts DEF Listing, Distinct
<1>4. reports \in Nat
  BY DEF Basics, Types
<1>5. ASSUME reports' = 1
      PROVE  Bracketed(hist, hist[Rank], Range(Listed), madeHist)
  <2>1. hist[Rank] = 0 /\ madeHist = SumFunctionOnSet(hist, Threads)
    BY <1>2, <1>4, <1>5 DEF HistListing
  <2>2. QED
    BY <2>1, HistTypes, ListedFacts, BracketStarts DEF HistFacts
<1>6. QED
  BY <1>1, <1>2, <1>3, <1>4, <1>5 DEF HistListing

LEMMA ListingNext ==
    ASSUME Basics, Listing, ctl.todo # <<>>, ctl' = NextTable(ctl)
    PROVE  Listing' /\ Range(ctl'.todo) = Range(ctl.todo) \ {Current} /\ Current \in Range(ctl.todo)
<1>1. /\ ctl'.todo = Tail(ctl.todo)
      /\ ctl'.pc = IF Tail(ctl.todo) = <<>> THEN "end" ELSE "alloc"
  BY TableMoves DEF Basics, Types
<1>2. /\ Distinct(Tail(ctl.todo)) /\ Head(ctl.todo) \in Range(ctl.todo)
      /\ Range(Tail(ctl.todo)) = Range(ctl.todo) \ {Head(ctl.todo)}
  BY ListedThreads, DistinctTail DEF Listing
<1>3. QED
  BY <1>1, <1>2 DEF Listing, Current

LEMMA HistMerge ==
    ASSUME Basics, Listing, HistListing, MergeHist
    PROVE  Listing' /\ HistListing'
<1>1. /\ ctl.todo # <<>> /\ ctl' = NextTable(ctl) /\ ctl.kind = "report"
      /\ Current \in Threads /\ Current # Rank
  BY CurrentThread, TablesAssumption DEF MergeHist, Basics, Stands, Merging
<1>2. /\ Listing' /\ Range(ctl'.todo) = Range(ctl.todo) \ {Current} /\ Current \in Range(ctl.todo)
      /\ ctl'.kind = "report"
  BY <1>1, ListingNext, TableMoves DEF Basics, Types
<1>3. /\ hist' = [hist EXCEPT ![Rank] = hist[Rank] + hist[Current]]
      /\ UNCHANGED <<madeHist, since, reports>>
  BY DEF MergeHist, bounds, history
<1>4. hist \in [Tables -> Nat] /\ Rank \in Tables /\ Threads \subseteq Tables
  BY DEF Basics, Types, Tables
<1>5. HistFacts /\ Range(ctl.todo) \in SUBSET Threads
  BY HistTypes, ListedThreads
<1>6. hist'[Rank] = hist[Rank] + hist[Current] /\ \A u \in Threads : hist'[u] = hist[u]
  BY <1>3, <1>4, <1>5 DEF HistFacts
<1>7. SumFunctionOnSet(hist', Threads) = SumFunctionOnSet(hist, Threads)
  BY <1>6, TablesAssumption, SumEqual
<1>8. ASSUME reports = 1
      PROVE  Bracketed(hist', hist[Rank] + hist[Current], Range(ctl.todo) \ {Current}, since.hist)
  <2>1. Bracketed(hist, hist[Rank], Range(ctl.todo), since.hist)
    BY <1>1, <1>8 DEF HistListing
  <2>2. PICK S \in SUBSET Threads : S = Range(ctl.todo)
    BY <1>5
  <2>3. PICK e \in S : e = Current
    BY <1>2, <2>2
  <2>4. QED
    BY <1>5, <1>6, <2>1, <2>2, <2>3, BracketMoves DEF HistFacts
<1>9. reports # 0 /\ madeHist = SumFunctionOnSet(hist, Threads)
  BY <1>1 DEF HistListing
<1>10. QED
  BY <1>2, <1>3, <1>6, <1>7, <1>8, <1>9 DEF HistListing

LEMMA HistControl ==
    ASSUME Basics, Listing, HistListing, Control
    PROVE  Listing' /\ HistListing'
<1>1. /\ ctl \in Controls /\ tmpCtr \in Nat /\ Len(rec) \in Nat
  BY DEF Basics, Types
<1>2. CASE StartReset
  <2>1. /\ ctl'.pc = "rank" /\ ctl'.kind = "reset" /\ ctl'.todo = Listed
    BY <1>2, StartMoves
  <2>2. UNCHANGED <<hist, madeHist, reports>>
    BY <1>2 DEF StartReset, history
  <2>3. Listing'
    BY <2>1, ListedFacts DEF Listing, Distinct
  <2>4. QED
    BY <2>1, <2>2, <2>3 DEF HistListing
<1>3. CASE ReleaseRecords
  <2>1. ctl.todo # <<>> /\ ctl' = NextTable(ctl) /\ ctl.kind = "reset"
    BY <1>3, CurrentThread DEF ReleaseRecords, Basics, Stands, Draining
  <2>2. Listing' /\ ctl'.kind = "reset"
    BY <1>1, <2>1, ListingNext, TableMoves
  <2>3. UNCHANGED <<hist, madeHist, reports>>
    BY <1>3 DEF ReleaseRecords, history, bounds
  <2>4. QED
    BY <2>2, <2>3 DEF HistListing
<1>4. CASE EndControl
  <2>1. ctl'.pc = "idle" /\ ctl'.kind = "none" /\ ctl'.todo = <<>>
    BY <1>4, EndMoves
  <2>2. UNCHANGED <<hist, madeHist, reports>>
    BY <1>4 DEF EndControl, bounds
  <2>3. Listing'
    BY <2>1 DEF Listing, Distinct
  <2>4. QED
    BY <2>1, <2>2, <2>3 DEF HistListing
<1>5. ASSUME SameTask, ctl'.pc # "end", UNCHANGED <<hist, madeHist, reports, since>>
      PROVE  Listing' /\ HistListing'
  BY <1>5, HistSame DEF SameTask
<1>6. CASE DrainRank
  <2>1. SameTask /\ ctl'.pc = "alloc"
    BY <1>1, <1>6, RankMoves
  <2>2. QED
    BY <1>5, <1>6, <2>1 DEF DrainRank, bounds, history
<1>7. CASE GatherAlloc
  <2>1. table[Current].count \in Nat
    BY <1>7, CurrentThread DEF GatherAlloc, HashTables, Basics, Types
  <2>2. SameTask /\ ctl'.pc = "gather"
    BY <1>1, <1>7, <2>1, AllocMoves
  <2>3. QED
    BY <1>5, <1>7, <2>2 DEF GatherAlloc, bounds, history
<1>8. CASE GatherChain
  <2>1. table[Current].chain[ctl.i] \in Seq(Nat)
    BY <1>1, <1>8, CurrentThread, ControlFields, EntriesFacts DEF GatherChain, Basics, Types
  <2>2. SameTask /\ ctl'.pc # "end"
    BY <1>1, <1>8, <2>1, GatherMoves DEF Goes
  <2>3. QED
    BY <1>5, <1>8, <2>2 DEF GatherChain, bounds, history
<1>9. CASE FreeChain
  <2>1. SameTask /\ ctl'.pc # "end"
    BY <1>1, <1>9, FreeMoves DEF Goes
  <2>2. QED
    BY <1>5, <1>9, <2>1 DEF FreeChain, bounds, history
<1>10. CASE ZeroCount
  <2>1. SameTask /\ ctl'.pc # "end"
    BY <1>1, <1>10, ZeroMoves
  <2>2. QED
    BY <1>5, <1>10, <2>1 DEF ZeroCount, bounds, history
<1>11. CASE FindInRank
  <2>1. Lookup(Rank, Key(Head(ctl.av))) \in Nat
    BY <1>11, HeadRecord, LookupFinds DEF FindInRank, Basics, Tables
  <2>2. SameTask /\ ctl'.pc # "end"
    BY <1>1, <1>11, <2>1, FindMoves
  <2>3. QED
    BY <1>5, <1>11, <2>2 DEF FindInRank, bounds, history
<1>12. CASE InsertInRank
  <2>1. SameTask /\ ctl'.pc # "end"
    BY <1>1, <1>12, InsertMoves
  <2>2. QED
    BY <1>5, <1>12, <2>1 DEF InsertInRank, bounds, history
<1>13. CASE MergeCount
  <2>1. SameTask /\ ctl'.pc # "end"
    BY <1>1, <1>13, MergeCountMoves
  <2>2. QED
    BY <1>5, <1>13, <2>1 DEF MergeCount, bounds, history
<1>14. CASE MergeTime
  <2>1. ctl.av # <<>>
    BY <1>14 DEF MergeTime, Basics, Stands
  <2>2. SameTask /\ ctl'.pc # "end"
    BY <1>1, <1>14, <2>1, MergeTimeMoves
  <2>3. QED
    BY <1>5, <1>14, <2>2 DEF MergeTime, bounds, history
<1>15. QED
  BY <1>2, <1>3, <1>4, <1>6, <1>7, <1>8, <1>9, <1>10, <1>11, <1>12, <1>13, <1>14,
     HistStart, HistMerge DEF Control

LEMMA HistInvariant == Spec => [](Basics /\ Listing /\ HistListing)
<1>1. Init => Listing /\ HistListing
  <2>1. SUFFICES ASSUME Init
                 PROVE  Listing /\ HistListing
    OBVIOUS
  <2>2. /\ ctl.todo = <<>> /\ ctl.kind = "none" /\ madeHist = 0
        /\ \A t \in Tables : hist[t] = 0
    BY <2>1 DEF Init, CtlIdle
  <2>3. SumFunctionOnSet(hist, Threads) = 0
    BY <2>2, TablesAssumption, SumZero DEF Tables
  <2>4. QED
    BY <2>2, <2>3 DEF Listing, HistListing, Distinct, Tables
<1>2. Init => Basics
  BY InitTypes DEF Basics
<1>3. Basics /\ Listing /\ HistListing /\ [Next]_vars => Listing' /\ HistListing'
  <2>1. Basics /\ Listing /\ HistListing /\ UNCHANGED vars => Listing' /\ HistListing'
    <3>1. UNCHANGED vars => UNCHANGED <<ctl, hist, madeHist, since, reports>>
      BY DEF vars, history, bounds
    <3>2. QED
      BY <3>1, HistSame
  <2>2. QED
    BY <2>1, HistUpdate, HistControl DEF Next
<1>4. QED
  BY <1>1, <1>2, <1>3, BasicsStep, PTL DEF Spec

(* The collective statistics that mpiPi_stats_thr_coll_merge adds up for   *)
(* the first report are at least those of the calls completed when the     *)
(* report began and at most those of the calls completed by its end,       *)
(* whatever the application does beside it.                                *)
THEOREM FirstHistograms == Spec => []HistOfFirstReport
<1>1. Basics /\ Listing /\ HistListing => HistOfFirstReport
  <2>1. SUFFICES ASSUME Basics, Listing, HistListing, ctl.pc = "end", ctl.kind = "report",
                        reports = 1
                 PROVE  hist[Rank] \in since.hist .. madeHist
    BY DEF HistOfFirstReport, ReportEnds
  <2>2. Bracketed(hist, hist[Rank], Range(ctl.todo), since.hist)
    BY <2>1 DEF HistListing
  <2>3. Range(ctl.todo) = {}
    BY <2>1 DEF Listing, Range
  <2>4. /\ since.hist <= hist[Rank] + SumFunctionOnSet(hist, {})
        /\ hist[Rank] + SumFunctionOnSet(hist, {}) <= SumFunctionOnSet(hist, Threads)
    BY <2>2, <2>3 DEF Bracketed
  <2>5. hist[Rank] \in Nat /\ since.hist \in Nat /\ madeHist \in Nat
    BY <2>1, HistTypes DEF HistFacts
  <2>6. QED
    BY <2>1, <2>4, <2>5, SumEmpty DEF HistListing
<1>2. QED
  BY <1>1, HistInvariant, PTL

(***************************************************************************)
(* The statistics of callsites: what a table shows for a key.              *)
(***************************************************************************)
LEMMA ReadOne ==
    ASSUME NEW ht, NEW r, NEW k, NEW p \in Entries(ht), r[p].key = k,
           \A q \in Entries(ht) : r[q].key = k => q = p
    PROVE  CountAt(ht, r, k) = r[p].count /\ TimeAt(ht, r, k) = r[p].time
<1>1. With(ht, r, k) = {p}
  BY DEF With
<1>2. (CHOOSE q \in {p} : TRUE) = p
  OBVIOUS
<1>3. QED
  BY <1>1, <1>2 DEF CountAt, TimeAt

LEMMA ReadNone ==
    ASSUME NEW ht, NEW r, NEW k, \A q \in Entries(ht) : r[q].key # k
    PROVE  CountAt(ht, r, k) = 0 /\ TimeAt(ht, r, k) = 0
  BY DEF With, CountAt, TimeAt

LEMMA ReadSame ==
    ASSUME NEW ht, NEW new, NEW r, NEW s, NEW k,
           \A q : q \in Entries(new) /\ s[q].key = k <=> q \in Entries(ht) /\ r[q].key = k
    PROVE  /\ (\A q \in Entries(ht) : s[q].count = r[q].count)
                  => CountAt(new, s, k) = CountAt(ht, r, k)
           /\ (\A q \in Entries(ht) : s[q].time = r[q].time)
                  => TimeAt(new, s, k) = TimeAt(ht, r, k)
<1>1. With(new, s, k) = With(ht, r, k)
  BY DEF With
<1>2. PICK W : W = With(ht, r, k)
  OBVIOUS
<1>3. PICK p : p = CHOOSE q \in W : TRUE
  OBVIOUS
<1>4. W # {} => p \in Entries(ht)
  BY <1>2, <1>3 DEF With
<1>5. /\ CountAt(new, s, k) = IF W = {} THEN 0 ELSE s[p].count
      /\ CountAt(ht, r, k) = IF W = {} THEN 0 ELSE r[p].count
      /\ TimeAt(new, s, k) = IF W = {} THEN 0 ELSE s[p].time
      /\ TimeAt(ht, r, k) = IF W = {} THEN 0 ELSE r[p].time
  BY <1>1, <1>2, <1>3 DEF CountAt, TimeAt
<1>6. QED
  BY <1>4, <1>5

(* An entry that shows nothing yet. *)
LEMMA ReadGrows ==
    ASSUME NEW ht, NEW new, NEW r, NEW s, NEW k, NEW p,
           Entries(new) = Entries(ht) \cup {p}, p \notin Entries(ht),
           \A q \in Entries(ht) : /\ s[q].key = r[q].key /\ s[q].key # s[p].key
                                  /\ s[q].count = r[q].count /\ s[q].time = r[q].time,
           s[p].count = 0, s[p].time = 0
    PROVE  CountAt(new, s, k) = CountAt(ht, r, k) /\ TimeAt(new, s, k) = TimeAt(ht, r, k)
<1>1. CASE s[p].key = k
  <2>1. CountAt(ht, r, k) = 0 /\ TimeAt(ht, r, k) = 0
    BY <1>1, ReadNone
  <2>2. With(new, s, k) = {p}
    BY <1>1 DEF With
  <2>3. CountAt(new, s, k) = s[p].count /\ TimeAt(new, s, k) = s[p].time
    <3>1. (CHOOSE q \in {p} : TRUE) = p
      OBVIOUS
    <3>2. QED
      BY <2>2, <3>1 DEF CountAt, TimeAt
  <2>4. QED
    BY <2>1, <2>3
<1>2. CASE s[p].key # k
  <2>1. \A q : q \in Entries(new) /\ s[q].key = k <=> q \in Entries(ht) /\ r[q].key = k
    BY <1>2
  <2>2. QED
    BY <2>1, ReadSame
<1>3. QED
  BY <1>1, <1>2

(* What the tables show after a step. *)
NewCounts(k) == [t \in Tables |-> CountAt(table'[t], rec', k)]
NewTimes(k) == [t \in Tables |-> TimeAt(table'[t], rec', k)]

LEMMA NewReadings ==
    ASSUME NEW k \in Keys
    PROVE  Counts(k)' = NewCounts(k) /\ Times(k)' = NewTimes(k)
  BY DEF Counts, Times, NewCounts, NewTimes, Tables

LEMMA EntryFacts ==
    ASSUME Basics, Placed, NEW t \in Tables
    PROVE  /\ Entries(table[t]) \subseteq Ids
           /\ \A p \in Entries(table[t]) :
                /\ p \in Ids /\ rec[p].key = Key(p) /\ Key(p) \in Keys
                /\ rec[p].count \in Nat /\ rec[p].time \in Nat
           /\ \A p, q \in Entries(table[t]) : rec[p].key = rec[q].key => p = q
<1>1. Entries(table[t]) \subseteq Ids /\ rec \in Seq(Records)
  BY DEF Basics, Pointers, Types
<1>2. \A p \in Entries(table[t]) : /\ p \in Ids /\ rec[p].key = Key(p) /\ Key(p) \in Keys
                                   /\ rec[p].count \in Nat /\ rec[p].time \in Nat
  BY <1>1, RecFields
<1>3. QED
  BY <1>1, <1>2, PlacedFacts DEF Basics

LEMMA Reading ==
    ASSUME Basics, Placed, NEW t \in Tables, NEW k \in Keys
    PROVE  /\ Counts(k)[t] \in Nat /\ Times(k)[t] \in Nat
           /\ \A p \in Entries(table[t]) : Key(p) = k =>
                  Counts(k)[t] = rec[p].count /\ Times(k)[t] = rec[p].time
           /\ (\A p \in Entries(table[t]) : Key(p) # k) => Counts(k)[t] = 0 /\ Times(k)[t] = 0
<1>1. /\ Counts(k)[t] = CountAt(table[t], rec, k)
      /\ Times(k)[t] = TimeAt(table[t], rec, k)
  BY DEF Counts, Times
<1>2. ASSUME NEW p \in Entries(table[t]), Key(p) = k
      PROVE  Counts(k)[t] = rec[p].count /\ Times(k)[t] = rec[p].time
  BY <1>1, <1>2, EntryFacts, ReadOne
<1>3. ASSUME \A p \in Entries(table[t]) : Key(p) # k
      PROVE  Counts(k)[t] = 0 /\ Times(k)[t] = 0
  BY <1>1, <1>3, EntryFacts, ReadNone
<1>4. Counts(k)[t] \in Nat /\ Times(k)[t] \in Nat
  <2>1. CASE \E p \in Entries(table[t]) : Key(p) = k
    BY <1>2, <2>1, EntryFacts
  <2>2. CASE \A p \in Entries(table[t]) : Key(p) # k
    BY <1>3, <2>2
  <2>3. QED
    BY <2>1, <2>2
<1>5. QED
  BY <1>2, <1>3, <1>4

(* A step that leaves the entries of a table alone, and their readings. *)
LEMMA ReadingKept ==
    ASSUME Basics, Placed, KeysKept, NEW t \in Tables, NEW k \in Keys,
           Entries(table'[t]) = Entries(table[t])
    PROVE  /\ (\A q \in Entries(table[t]) : rec'[q].count = rec[q].count)
                  => NewCounts(k)[t] = Counts(k)[t]
           /\ (\A q \in Entries(table[t]) : rec'[q].time = rec[q].time)
                  => NewTimes(k)[t] = Times(k)[t]
<1>1. \A q \in Entries(table[t]) : rec'[q].key = rec[q].key
  BY EntryFacts DEF KeysKept, NewKey
<1>2. \A q : q \in Entries(table'[t]) /\ rec'[q].key = k
                 <=> q \in Entries(table[t]) /\ rec[q].key = k
  BY <1>1
<1>3. /\ Counts(k)[t] = CountAt(table[t], rec, k) /\ NewCounts(k)[t] = CountAt(table'[t], rec', k)
      /\ Times(k)[t] = TimeAt(table[t], rec, k) /\ NewTimes(k)[t] = TimeAt(table'[t], rec', k)
  BY DEF Counts, Times, NewCounts, NewTimes
<1>4. QED
  BY <1>2, <1>3, ReadSame

(* A step that changes what one entry shows. *)
LEMMA ReadingChanges ==
    ASSUME Basics, Placed, KeysKept, NEW t \in Tables, NEW k \in Keys, UNCHANGED table,
           NEW p \in Entries(table[t]), \A q \in Ids \ {p} : rec'[q] = rec[q]
    PROVE  /\ NewCounts(k)[t] = IF k = Key(p) THEN rec'[p].count ELSE Counts(k)[t]
           /\ NewTimes(k)[t] = IF k = Key(p) THEN rec'[p].time ELSE Times(k)[t]
<1>1. /\ \A q \in Entries(table[t]) : rec'[q].key = rec[q].key /\ q \in Ids
      /\ rec[p].key = Key(p)
  BY EntryFacts DEF KeysKept, NewKey
<1>2. /\ Counts(k)[t] = CountAt(table[t], rec, k) /\ NewCounts(k)[t] = CountAt(table[t], rec', k)
      /\ Times(k)[t] = TimeAt(table[t], rec, k) /\ NewTimes(k)[t] = TimeAt(table[t], rec', k)
  BY DEF Counts, Times, NewCounts, NewTimes
<1>3. CASE k = Key(p)
  <2>1. rec'[p].key = k /\ \A q \in Entries(table[t]) : rec'[q].key = k => q = p
    BY <1>1, <1>3, EntryFacts
  <2>2. CountAt(table[t], rec', k) = rec'[p].count /\ TimeAt(table[t], rec', k) = rec'[p].time
    BY <2>1, ReadOne
  <2>3. QED
    BY <1>2, <1>3, <2>2
<1>4. CASE k # Key(p)
  <2>1. With(table[t], rec', k) = With(table[t], rec, k) /\ p \notin With(table[t], rec, k)
    BY <1>1, <1>4 DEF With
  <2>2. \A q \in With(table[t], rec, k) : rec'[q] = rec[q]
    BY <1>1, <2>1 DEF With
  <2>3. QED
    BY <1>2, <1>4, <2>1, <2>2 DEF CountAt, TimeAt
<1>5. QED
  BY <1>3, <1>4

(* A call adds one to what the table of its thread shows for its key. *)
Tallied(t) ==
    \A k \in Keys : \A u \in Tables :
        /\ NewCounts(k)[u] = IF op[t].pc = "count" /\ u = t /\ k = op[t].key
                             THEN Counts(k)[u] + 1 ELSE Counts(k)[u]
        /\ NewTimes(k)[u] = IF op[t].pc = "time" /\ u = t /\ k = op[t].key
                            THEN Times(k)[u] + 1 ELSE Times(k)[u]

LEMMA TalliedKept ==
    ASSUME Basics, Placed, KeysKept, NEW t \in Threads, op[t].pc \notin {"count", "time"},
           \A u \in Tables : Entries(table'[u]) = Entries(table[u]),
           \A q \in Ids : rec'[q].count = rec[q].count /\ rec'[q].time = rec[q].time
    PROVE  Tallied(t)
  BY ReadingKept, EntryFacts DEF Tallied

LEMMA TalliedLink ==
    ASSUME Basics, Placed, Safe, Fresh, discipline # "free", NEW t \in Threads, LinkCallsite(t)
    PROVE  Tallied(t)
<1>1. /\ op[t].pc = "link" /\ op[t].pc \in Linking /\ t \in Tables /\ UNCHANGED rec
      /\ KeysKept /\ op[t].key \in Keys
  <2>1. KeysKept
    BY UpdateKeys DEF Update
  <2>2. QED
    BY <2>1 DEF LinkCallsite, Linking, Tables, memory, Basics, Stands
<1>2. PICK p : p = op[t].csp
  OBVIOUS
<1>3. /\ p \in Ids /\ Key(p) = op[t].key /\ \A u \in Tables : p \notin Entries(table[u])
      /\ rec[p].count = 0 /\ rec[p].time = 0
      /\ \A q \in Entries(table[t]) : Key(q) # Key(p)
  BY <1>1, <1>2 DEF Safe, Held, Loose, Fresh, Placed, Basics, Pointers, Linking
<1>4. Lookup(t, op[t].key) = 0
  BY <1>1, <1>3, LookupFinds DEF Basics
<1>5. /\ Entries(table'[t]) = Entries(table[t]) \cup {p}
      /\ \A u \in Tables \ {t} : table'[u] = table[u]
  BY <1>2, <1>4, LinkEffect DEF Basics
<1>6. ASSUME NEW k \in Keys
      PROVE  NewCounts(k)[t] = Counts(k)[t] /\ NewTimes(k)[t] = Times(k)[t]
  <2>1. \A q \in Entries(table[t]) : rec[q].key # rec[p].key
    BY <1>3, EntryFacts, <1>1 DEF Key
  <2>2. /\ CountAt(table'[t], rec, k) = CountAt(table[t], rec, k)
        /\ TimeAt(table'[t], rec, k) = TimeAt(table[t], rec, k)
    BY <1>1, <1>3, <1>5, <2>1, ReadGrows
  <2>3. QED
    BY <1>1, <2>2 DEF NewCounts, NewTimes, Counts, Times
<1>7. ASSUME NEW k \in Keys, NEW u \in Tables \ {t}
      PROVE  NewCounts(k)[u] = Counts(k)[u] /\ NewTimes(k)[u] = Times(k)[u]
  BY <1>1, <1>5 DEF NewCounts, NewTimes, Counts, Times
<1>8. QED
  BY <1>1, <1>6, <1>7 DEF Tallied

LEMMA TalliedRecord ==
    ASSUME Basics, Placed, Safe, NEW t \in Threads, UpdateCount(t) \/ UpdateTime(t)
    PROVE  Tallied(t)
<1>1. /\ op[t].pc \in {"count", "time"} /\ t \in Tables /\ UNCHANGED table /\ KeysKept
  <2>1. KeysKept
    BY UpdateKeys DEF Update
  <2>2. QED
    BY <2>1 DEF UpdateCount, UpdateTime, Tables
<1>2. PICK p : p = op[t].csp
  OBVIOUS
<1>3. p \in Entries(table[t]) /\ Key(p) = op[t].key /\ p \in Ids
  BY <1>1, <1>2, EntryFacts DEF Safe, Held
<1>4. \A u \in Tables \ {t} : p \notin Entries(table[u])
  BY <1>1, <1>3 DEF Safe, Owned
<1>5. /\ \A q \in Ids \ {p} : rec'[q] = rec[q]
      /\ rec'[p].count = IF op[t].pc = "count" THEN rec[p].count + 1 ELSE rec[p].count
      /\ rec'[p].time = IF op[t].pc = "time" THEN rec[p].time + 1 ELSE rec[p].time
  <2>1. CASE UpdateCount(t)
    BY <1>2, <1>3, <2>1, CountEffect DEF UpdateCount
  <2>2. CASE UpdateTime(t)
    BY <1>2, <1>3, <2>2, TimeEffect DEF UpdateTime
  <2>3. QED
    BY <2>1, <2>2
<1>6. ASSUME NEW k \in Keys, NEW u \in Tables \ {t}
      PROVE  NewCounts(k)[u] = Counts(k)[u] /\ NewTimes(k)[u] = Times(k)[u]
  <2>1. \A q \in Entries(table[u]) : rec'[q] = rec[q]
    BY <1>4, <1>5, EntryFacts
  <2>2. QED
    BY <1>1, <2>1, ReadingKept
<1>7. ASSUME NEW k \in Keys
      PROVE  /\ NewCounts(k)[t] = IF k = Key(p) THEN rec'[p].count ELSE Counts(k)[t]
             /\ NewTimes(k)[t] = IF k = Key(p) THEN rec'[p].time ELSE Times(k)[t]
             /\ k = Key(p) => Counts(k)[t] = rec[p].count /\ Times(k)[t] = rec[p].time
  BY <1>1, <1>3, <1>5, ReadingChanges, Reading
<1>8. ASSUME NEW k \in Keys, NEW u \in Tables
      PROVE  /\ NewCounts(k)[u] = IF op[t].pc = "count" /\ u = t /\ k = op[t].key
                                  THEN Counts(k)[u] + 1 ELSE Counts(k)[u]
             /\ NewTimes(k)[u] = IF op[t].pc = "time" /\ u = t /\ k = op[t].key
                                 THEN Times(k)[u] + 1 ELSE Times(k)[u]
  <2>1. CASE u = t
    BY <1>3, <1>5, <1>7, <2>1
  <2>2. CASE u # t
    BY <1>6, <2>2
  <2>3. QED
    BY <2>1, <2>2
<1>9. QED
  BY <1>8 DEF Tallied

LEMMA UpdateTallies ==
    ASSUME Basics, Placed, Safe, Fresh, discipline # "free", NEW t \in Threads, Update(t)
    PROVE  Tallied(t)
<1>1. KeysKept
  BY UpdateKeys
<1>2. CASE CreateCallsite(t)
  <2>1. \A q \in Ids : rec'[q].count = rec[q].count /\ rec'[q].time = rec[q].time
    BY <1>2, CreateRecord DEF RecAdded
  <2>2. UNCHANGED table /\ op[t].pc = "create"
    BY <1>2 DEF CreateCallsite
  <2>3. QED
    BY <1>1, <2>1, <2>2, TalliedKept
<1>3. CASE BumpCount(t)
  <2>1. \A u \in Tables : Entries(table'[u]) = Entries(table[u])
    BY <1>3, BumpEffect DEF Basics
  <2>2. UNCHANGED rec /\ op[t].pc = "bump"
    BY <1>3 DEF BumpCount, memory
  <2>3. QED
    BY <1>1, <2>1, <2>2, TalliedKept
<1>4. ASSUME UNCHANGED <<table, rec>>, op[t].pc \notin {"count", "time"}
      PROVE  Tallied(t)
  BY <1>1, <1>4, TalliedKept
<1>5. QED
  BY <1>2, <1>3, <1>4, TalliedLink, TalliedRecord
     DEF Update, SearchCallsite, NumberCallsite, UpdateHist, memory

(* Only entries of tables are added to, so a record that is in none yet    *)
(* shows nothing.                                                          *)
OthersKept == \A q \in Ids : (\A v \in Tables : q \notin Entries(table[v]))
                  => rec'[q].count = rec[q].count /\ rec'[q].time = rec[q].time

LEMMA FreshKept ==
    ASSUME Basics, Safe, Fresh, OthersKept, NEW u \in Threads, Loose(u)
    PROVE  rec'[op[u].csp].count = 0 /\ rec'[op[u].csp].time = 0
<1>1. /\ op[u].csp \in Ids /\ \A v \in Tables : op[u].csp \notin Entries(table[v])
  BY DEF Basics, Pointers, Loose, Safe, Held
<1>2. rec[op[u].csp].count = 0 /\ rec[op[u].csp].time = 0
  BY DEF Fresh
<1>3. QED
  BY <1>1, <1>2 DEF OthersKept

LEMMA UpdateOthersKept ==
    ASSUME Basics, Safe, NEW t \in Threads, Update(t)
    PROVE  OthersKept
<1>1. t \in Tables
  BY DEF Tables
<1>2. CASE CreateCallsite(t)
  BY <1>2, CreateRecord DEF RecAdded, OthersKept
<1>3. ASSUME op[t].pc \in {"count", "time"}, \A q \in Ids \ {op[t].csp} : rec'[q] = rec[q]
      PROVE  OthersKept
  <2>1. op[t].csp \in Entries(table[t])
    BY <1>3 DEF Safe, Held
  <2>2. QED
    BY <1>1, <1>3, <2>1 DEF OthersKept
<1>4. CASE UpdateCount(t)
  BY <1>3, <1>4, CountEffect DEF UpdateCount
<1>5. CASE UpdateTime(t)
  BY <1>3, <1>5, TimeEffect DEF UpdateTime
<1>6. CASE UNCHANGED rec
  BY <1>6 DEF OthersKept
<1>7. QED
  BY <1>2, <1>4, <1>5, <1>6
     DEF Update, SearchCallsite, NumberCallsite, LinkCallsite, BumpCount, UpdateHist, memory

LEMMA FreshUpdate ==
    ASSUME Basics, Placed, Safe, Fresh, discipline # "free", NEW t \in Threads, Update(t)
    PROVE  Fresh'
<1>1. Others(t) /\ OthersKept
  BY UpdateKinds, UpdateOthersKept
<1>2. ASSUME NEW u \in Threads, u # t, op'[u].pc \in Linking
      PROVE  rec'[op'[u].csp].count = 0 /\ rec'[op'[u].csp].time = 0
  <2>1. op'[u] = op[u] /\ Loose(u)
    BY <1>1, <1>2 DEF Others, Loose
  <2>2. QED
    BY <1>1, <2>1, FreshKept
<1>3. ASSUME op'[t].pc \in Linking
      PROVE  rec'[op'[t].csp].count = 0 /\ rec'[op'[t].csp].time = 0
  <2>1. /\ op \in [Threads -> Ops] /\ Len(rec) \in Nat /\ tmpCtr \in Nat
        /\ table[t].count \in Nat /\ t \in Tables
    BY DEF Basics, Types, Tables, HashTables
  <2>2. CASE CreateCallsite(t)
    <3>1. op'[t].csp = Len(rec) + 1
      BY <2>1, <2>2, CreateMoves
    <3>2. QED
      BY <2>2, <3>1, CreateRecord DEF RecAdded
  <2>3. CASE NumberCallsite(t)
    <3>1. op'[t].csp = op[t].csp /\ Loose(t)
      BY <2>1, <2>3, NumberMoves DEF NumberCallsite, Loose, Linking
    <3>2. QED
      BY <1>1, <3>1, FreshKept
  <2>4. ~CreateCallsite(t) /\ ~NumberCallsite(t) => op'[t].pc \notin Linking
    <3>1. ASSUME NEW k \in Keys, SearchCallsite(t, k)
          PROVE  op'[t].pc \notin Linking
      <4>1. Lookup(t, k) \in Nat
        BY <2>1, LookupFinds DEF Basics
      <4>2. op'[t].pc = IF Lookup(t, k) = 0 THEN "create" ELSE "count"
        BY <2>1, <3>1, <4>1, SearchMoves
      <4>3. QED
        BY <4>2 DEF Linking
    <3>2. LinkCallsite(t) => op'[t].pc \notin Linking
      BY <2>1, LinkMoves DEF Linking
    <3>3. BumpCount(t) => op'[t].pc \notin Linking
      BY <2>1, BumpMoves DEF Linking
    <3>4. UpdateCount(t) => op'[t].pc \notin Linking
      BY <2>1, CountMoves DEF Linking
    <3>5. UpdateTime(t) => op'[t].pc \notin Linking
      BY <2>1, TimeMoves DEF Linking
    <3>6. UpdateHist(t) => op'[t].pc \notin Linking
      BY <2>1, HistMoves DEF Linking, Idle
    <3>7. QED
      BY <3>1, <3>2, <3>3, <3>4, <3>5, <3>6 DEF Update
  <2>5. QED
    BY <1>3, <2>2, <2>3, <2>4
<1>4. QED
  BY <1>2, <1>3 DEF Fresh, Loose

(* How a call goes on, and what the histories note of it. *)
Before == {"create", "number", "link", "bump"}
Phases(t) ==
    \/ /\ op[t].pc = "idle" /\ op'[t].pc \in {"create", "count"} /\ op'[t].key \in Keys
       /\ made' = made /\ begun' = [begun EXCEPT ![op'[t].key] = @ + 1]
    \/ /\ op[t].pc \in Before /\ op'[t].pc \in Before \cup {"count"}
       /\ op'[t].key = op[t].key /\ made' = made /\ begun' = begun
    \/ /\ op[t].pc = "count" /\ op'[t].pc = "time"
       /\ op'[t].key = op[t].key /\ made' = made /\ begun' = begun
    \/ /\ op[t].pc = "time" /\ op'[t].pc = "hist" /\ op[t].key \in Keys
       /\ op'[t].key = op[t].key /\ begun' = begun
       /\ made' = [made EXCEPT ![op[t].key] = @ + 1]
    \/ /\ op[t].pc = "hist" /\ op'[t].pc = "idle" /\ made' = made /\ begun' = begun

LEMMA UpdatePhases ==
    ASSUME Basics, NEW t \in Threads, Update(t)
    PROVE  Phases(t) /\ Others(t)
<1>1. /\ op \in [Threads -> Ops] /\ Len(rec) \in Nat /\ tmpCtr \in Nat
      /\ table[t].count \in Nat /\ t \in Tables
  BY DEF Basics, Types, Tables, HashTables
<1>2. ASSUME NEW k \in Keys, SearchCallsite(t, k)
      PROVE  Phases(t) /\ Others(t)
  <2>1. Lookup(t, k) \in Nat
    BY <1>1, LookupFinds DEF Basics
  <2>2. /\ op'[t].pc = (IF Lookup(t, k) = 0 THEN "create" ELSE "count")
        /\ op'[t].key = k /\ Others(t)
    BY <1>1, <1>2, <2>1, SearchMoves
  <2>3. op[t].pc = "idle" /\ made' = made /\ begun' = [begun EXCEPT ![k] = @ + 1]
    BY <1>2 DEF SearchCallsite
  <2>4. QED
    BY <2>2, <2>3 DEF Phases
<1>3. CASE CreateCallsite(t)
  BY <1>1, <1>3, CreateMoves DEF CreateCallsite, Phases, Before, history
<1>4. CASE NumberCallsite(t)
  BY <1>1, <1>4, NumberMoves DEF NumberCallsite, Phases, Before, history
<1>5. CASE LinkCallsite(t)
  BY <1>1, <1>5, LinkMoves DEF LinkCallsite, Phases, Before, history
<1>6. CASE BumpCount(t)
  BY <1>1, <1>6, BumpMoves DEF BumpCount, Phases, Before, history
<1>7. CASE UpdateCount(t)
  BY <1>1, <1>7, CountMoves DEF UpdateCount, Phases, history
<1>8. CASE UpdateTime(t)
  <2>1. op[t].key \in Keys
    BY <1>8 DEF UpdateTime, Basics, Stands
  <2>2. QED
    BY <1>1, <1>8, <2>1, TimeMoves DEF UpdateTime, Phases
<1>9. CASE UpdateHist(t)
  <2>1. op'[t].pc = "idle" /\ Others(t)
    BY <1>1, <1>9, HistMoves DEF Idle
  <2>2. QED
    BY <1>9, <2>1 DEF UpdateHist, Phases
<1>10. QED
  BY <1>2, <1>3, <1>4, <1>5, <1>6, <1>7, <1>8, <1>9 DEF Update

NewFlights(k) == [t \in Threads |->
    IF op'[t].key = k /\ op'[t].pc \in Before \cup {"count"} THEN 1 ELSE 0]
Timing(k, t) == op[t].pc = "time" /\ op[t].key = k
NewTiming(k, t) == op'[t].pc = "time" /\ op'[t].key = k

LEMMA FlightsFacts ==
    ASSUME NEW k \in Keys, NEW t \in Threads
    PROVE  /\ Flights(k)[t] = IF op[t].key = k /\ op[t].pc \in Before \cup {"count"} THEN 1 ELSE 0
           /\ NewFlights(k)[t] = IF op'[t].key = k /\ op'[t].pc \in Before \cup {"count"}
                                 THEN 1 ELSE 0
           /\ Flights(k)[t] \in Nat /\ NewFlights(k)[t] \in Nat
           /\ Flights(k)' = NewFlights(k)
  BY DEF Flights, NewFlights, Flying, Before

(* What a call in thread t adds to the totals. *)
LEMMA LocalTotals ==
    ASSUME Basics, Placed, NEW t \in Threads, Phases(t), Tallied(t), NEW k \in Keys,
           Counts(k)[t] = Times(k)[t] + IF Timing(k, t) THEN 1 ELSE 0
    PROVE  /\ NewCounts(k)[t] \in Nat /\ NewTimes(k)[t] \in Nat
           /\ begun'[k] \in Nat /\ made'[k] \in Nat
           /\ NewCounts(k)[t] = NewTimes(k)[t] + IF NewTiming(k, t) THEN 1 ELSE 0
           /\ made'[k] + Times(k)[t] = made[k] + NewTimes(k)[t]
           /\ begun'[k] + Counts(k)[t] + Flights(k)[t]
                = begun[k] + NewCounts(k)[t] + NewFlights(k)[t]
<1>1. t \in Tables /\ begun \in [Keys -> Nat] /\ made \in [Keys -> Nat]
  BY DEF Tables, Basics, Types
<1>2. PICK c \in Nat, d \in Nat, b \in Nat, m \in Nat :
          c = Counts(k)[t] /\ d = Times(k)[t] /\ b = begun[k] /\ m = made[k]
  BY <1>1, Reading
<1>3. /\ NewCounts(k)[t] = IF op[t].pc = "count" /\ k = op[t].key THEN c + 1 ELSE c
      /\ NewTimes(k)[t] = IF op[t].pc = "time" /\ k = op[t].key THEN d + 1 ELSE d
  BY <1>1, <1>2 DEF Tallied
<1>4. c = d + IF Timing(k, t) THEN 1 ELSE 0
  BY <1>2
<1>5. /\ begun'[k] = IF op[t].pc = "idle" /\ op'[t].key = k THEN b + 1 ELSE b
      /\ made'[k] = IF op[t].pc = "time" /\ op[t].key = k THEN m + 1 ELSE m
  BY <1>1, <1>2 DEF Phases, Before
<1>6. /\ Flights(k)[t] = IF op[t].key = k /\ op[t].pc \in Before \cup {"count"} THEN 1 ELSE 0
      /\ NewFlights(k)[t] = IF op'[t].key = k /\ op'[t].pc \in Before \cup {"count"}
                            THEN 1 ELSE 0
  BY FlightsFacts
<1>7. CASE op[t].pc = "idle"
  <2>1. op'[t].pc \in {"create", "count"}
    BY <1>7 DEF Phases, Before
  <2>2. QED
    BY <1>2, <1>3, <1>4, <1>5, <1>6, <1>7, <2>1 DEF Timing, NewTiming, Before
<1>8. CASE op[t].pc \in Before
  <2>1. op'[t].pc \in Before \cup {"count"} /\ op'[t].key = op[t].key
    BY <1>8 DEF Phases, Before
  <2>2. QED
    BY <1>2, <1>3, <1>4, <1>5, <1>6, <1>8, <2>1 DEF Timing, NewTiming, Before
<1>9. CASE op[t].pc = "count"
  <2>1. op'[t].pc = "time" /\ op'[t].key = op[t].key
    BY <1>9 DEF Phases, Before
  <2>2. QED
    BY <1>2, <1>3, <1>4, <1>5, <1>6, <1>9, <2>1 DEF Timing, NewTiming, Before
<1>10. CASE op[t].pc = "time"
  <2>1. op'[t].pc = "hist" /\ op'[t].key = op[t].key
    BY <1>10 DEF Phases, Before
  <2>2. QED
    BY <1>2, <1>3, <1>4, <1>5, <1>6, <1>10, <2>1 DEF Timing, NewTiming, Before
<1>11. CASE op[t].pc = "hist"
  <2>1. op'[t].pc = "idle"
    BY <1>11 DEF Phases, Before
  <2>2. QED
    BY <1>2, <1>3, <1>4, <1>5, <1>6, <1>11, <2>1 DEF Timing, NewTiming, Before
<1>12. QED
  BY <1>7, <1>8, <1>9, <1>10, <1>11 DEF Phases

(* The totals of a key, after a step. *)
NewTotals(k) ==
    /\ \A t \in Threads :
         NewCounts(k)[t] = NewTimes(k)[t] + IF NewTiming(k, t) THEN 1 ELSE 0
    /\ made'[k] = SumFunctionOnSet(NewTimes(k), Threads)
    /\ begun'[k] = SumFunctionOnSet(NewCounts(k), Threads)
                       + SumFunctionOnSet(NewFlights(k), Threads)

LEMMA TotalsOf ==
    ASSUME Totals, ~Resetting, NEW k \in Keys
    PROVE  /\ \A t \in Threads :
                Counts(k)[t] = Times(k)[t] + IF Timing(k, t) THEN 1 ELSE 0
           /\ made[k] = SumFunctionOnSet(Times(k), Threads)
           /\ begun[k] = SumFunctionOnSet(Counts(k), Threads) + SumFunctionOnSet(Flights(k), Threads)
  BY DEF Totals, Timing

LEMMA TotalsFrom ==
    ASSUME \A k \in Keys : NewTotals(k)
    PROVE  Totals'
<1>1. ASSUME NEW k \in Keys
      PROVE  /\ Counts(k)' = NewCounts(k) /\ Times(k)' = NewTimes(k)
             /\ Flights(k)' = NewFlights(k)
  <2>1. Flights(k)' = NewFlights(k)
    BY DEF Flights, NewFlights, Flying, Before
  <2>2. QED
    BY <2>1, NewReadings
<1>2. QED
  BY <1>1 DEF NewTotals, Totals, NewTiming

LEMMA CountersOf ==
    ASSUME Basics, Placed, NEW k \in Keys
    PROVE  Counters(Counts(k)) /\ Counters(Times(k)) /\ Counters(Flights(k))
  BY Reading, FlightsFacts DEF Counters, Tables

LEMMA SumChanges ==
    ASSUME NEW f, Counters(f), NEW g, NEW e \in Threads, g[e] \in Nat,
           \A t \in Threads \ {e} : g[t] = f[t]
    PROVE  /\ SumFunctionOnSet(f, Threads) \in Nat /\ SumFunctionOnSet(g, Threads) \in Nat
           /\ SumFunctionOnSet(g, Threads) + f[e] = SumFunctionOnSet(f, Threads) + g[e]
<1>1. Counters(g)
  BY DEF Counters
<1>2. \A t \in Threads : f[t] \in Nat /\ g[t] \in Nat
  BY <1>1 DEF Counters
<1>3. Threads \in SUBSET Threads /\ IsFiniteSet(Threads)
  BY TablesAssumption
<1>4. QED
  BY <1>1, <1>2, <1>3, CountersSum, SumUpdate

LEMMA TotalsUpdate ==
    ASSUME Basics, Placed, Totals, ~Resetting, NEW t \in Threads, Phases(t), Others(t), Tallied(t)
    PROVE  Totals'
<1>1. SUFFICES ASSUME NEW k \in Keys
               PROVE  NewTotals(k)
  BY TotalsFrom
<1>2. /\ \A u \in Threads :
           Counts(k)[u] = Times(k)[u] + IF Timing(k, u) THEN 1 ELSE 0
      /\ made[k] = SumFunctionOnSet(Times(k), Threads)
      /\ begun[k] = SumFunctionOnSet(Counts(k), Threads) + SumFunctionOnSet(Flights(k), Threads)
  BY TotalsOf
<1>3. /\ NewCounts(k)[t] \in Nat /\ NewTimes(k)[t] \in Nat /\ NewFlights(k)[t] \in Nat
      /\ begun'[k] \in Nat /\ made'[k] \in Nat
      /\ NewCounts(k)[t] = NewTimes(k)[t] + IF NewTiming(k, t) THEN 1 ELSE 0
      /\ made'[k] + Times(k)[t] = made[k] + NewTimes(k)[t]
      /\ begun'[k] + Counts(k)[t] + Flights(k)[t]
           = begun[k] + NewCounts(k)[t] + NewFlights(k)[t]
  BY <1>2, LocalTotals, FlightsFacts
<1>4. \A u \in Threads \ {t} : /\ NewCounts(k)[u] = Counts(k)[u]
                               /\ NewTimes(k)[u] = Times(k)[u]
                               /\ NewFlights(k)[u] = Flights(k)[u]
                               /\ NewTiming(k, u) <=> Timing(k, u)
  BY FlightsFacts DEF Tallied, Tables, Others, NewTiming, Timing
<1>5. /\ Counters(Counts(k)) /\ Counters(Times(k)) /\ Counters(Flights(k))
      /\ Counts(k)[t] \in Nat /\ Times(k)[t] \in Nat /\ Flights(k)[t] \in Nat
  BY CountersOf DEF Counters
<1>6. /\ SumFunctionOnSet(Times(k), Threads) \in Nat /\ SumFunctionOnSet(NewTimes(k), Threads) \in Nat
      /\ SumFunctionOnSet(NewTimes(k), Threads) + Times(k)[t]
           = SumFunctionOnSet(Times(k), Threads) + NewTimes(k)[t]
  BY <1>3, <1>4, <1>5, SumChanges
<1>7. /\ SumFunctionOnSet(Counts(k), Threads) \in Nat /\ SumFunctionOnSet(NewCounts(k), Threads) \in Nat
      /\ SumFunctionOnSet(NewCounts(k), Threads) + Counts(k)[t]
           = SumFunctionOnSet(Counts(k), Threads) + NewCounts(k)[t]
  BY <1>3, <1>4, <1>5, SumChanges
<1>8. /\ SumFunctionOnSet(Flights(k), Threads) \in Nat /\ SumFunctionOnSet(NewFlights(k), Threads) \in Nat
      /\ SumFunctionOnSet(NewFlights(k), Threads) + Flights(k)[t]
           = SumFunctionOnSet(Flights(k), Threads) + NewFlights(k)[t]
  BY <1>3, <1>4, <1>5, SumChanges
<1>9. made'[k] = SumFunctionOnSet(NewTimes(k), Threads)
  BY <1>2, <1>3, <1>5, <1>6
<1>10. begun'[k] = SumFunctionOnSet(NewCounts(k), Threads)
                       + SumFunctionOnSet(NewFlights(k), Threads)
  BY <1>2, <1>3, <1>5, <1>7, <1>8
<1>11. \A u \in Threads : NewCounts(k)[u] = NewTimes(k)[u] + IF NewTiming(k, u) THEN 1 ELSE 0
  BY <1>2, <1>3, <1>4
<1>12. QED
  BY <1>9, <1>10, <1>11 DEF NewTotals

(* A step that touches no reading of a thread. *)
SameReadings == \A k \in Keys : \A t \in Threads : /\ NewCounts(k)[t] = Counts(k)[t]
                                                   /\ NewTimes(k)[t] = Times(k)[t]

LEMMA TotalsKept ==
    ASSUME Basics, Placed, Totals, ~Resetting, SameReadings, UNCHANGED <<op, made, begun>>
    PROVE  Totals'
<1>1. SUFFICES ASSUME NEW k \in Keys
               PROVE  NewTotals(k)
  BY TotalsFrom
<1>2. /\ \A u \in Threads :
           Counts(k)[u] = Times(k)[u] + IF Timing(k, u) THEN 1 ELSE 0
      /\ made[k] = SumFunctionOnSet(Times(k), Threads)
      /\ begun[k] = SumFunctionOnSet(Counts(k), Threads) + SumFunctionOnSet(Flights(k), Threads)
  BY TotalsOf
<1>3. \A u \in Threads : /\ NewCounts(k)[u] = Counts(k)[u] /\ NewTimes(k)[u] = Times(k)[u]
                         /\ NewFlights(k)[u] = Flights(k)[u]
                         /\ NewTiming(k, u) <=> Timing(k, u)
  BY FlightsFacts DEF SameReadings, NewTiming, Timing
<1>4. /\ SumFunctionOnSet(NewCounts(k), Threads) = SumFunctionOnSet(Counts(k), Threads)
      /\ SumFunctionOnSet(NewTimes(k), Threads) = SumFunctionOnSet(Times(k), Threads)
      /\ SumFunctionOnSet(NewFlights(k), Threads) = SumFunctionOnSet(Flights(k), Threads)
  BY <1>3, TablesAssumption, SumEqual
<1>5. QED
  BY <1>2, <1>3, <1>4 DEF NewTotals

(* What a report has still to read, after a step. *)
NewUnread(k, S) == \/ ctl'.pc \in {"rank", "alloc"}
                   \/ ctl'.pc = "gather" /\ Index(k) >= ctl'.i
                   \/ \E p \in S : NewKey(p) = k
NewAwaited(k, S) == IF ctl'.todo = <<>> THEN {}
                    ELSE Range(Tail(ctl'.todo)) \cup
                             IF NewUnread(k, S) THEN {Head(ctl'.todo)} ELSE {}
NewUncounted == IF ctl'.pc = "addtime" THEN Range(Tail(ctl'.av)) ELSE Range(ctl'.av)
NewMerged(f) == IF ctl'.pc = "rank" THEN 0 ELSE f[Rank]
NewBracketing(k) ==
    /\ Bracketed(NewCounts(k), NewMerged(NewCounts(k)), NewAwaited(k, NewUncounted), since'.made[k])
    /\ Bracketed(NewTimes(k), NewMerged(NewTimes(k)), NewAwaited(k, Range(ctl'.av)), since'.made[k])

LEMMA BracketingFrom ==
    ASSUME ctl'.kind = "report" => \A k \in Keys : NewBracketing(k)
    PROVE  Bracketing'
<1>1. ASSUME NEW k \in Keys
      PROVE  /\ Counts(k)' = NewCounts(k) /\ Times(k)' = NewTimes(k)
             /\ Merged(Counts(k))' = NewMerged(NewCounts(k))
             /\ Merged(Times(k))' = NewMerged(NewTimes(k))
             /\ AwaitedCounts(k)' = NewAwaited(k, NewUncounted)
             /\ AwaitedTimes(k)' = NewAwaited(k, Range(ctl'.av))
  <2>1. Counts(k)' = NewCounts(k) /\ Times(k)' = NewTimes(k)
    BY NewReadings
  <2>2. /\ Merged(Counts(k))' = NewMerged(NewCounts(k))
        /\ Merged(Times(k))' = NewMerged(NewTimes(k))
    BY <2>1 DEF Merged, NewMerged
  <2>3. /\ AwaitedCounts(k)' = NewAwaited(k, NewUncounted)
        /\ AwaitedTimes(k)' = NewAwaited(k, Range(ctl'.av))
    BY DEF AwaitedCounts, AwaitedTimes, Awaited, Unread, UncountedRecords, Current, Key, Index,
           NewAwaited, NewUnread, NewUncounted, NewKey
  <2>4. QED
    BY <2>1, <2>2, <2>3
<1>2. QED
  BY <1>1 DEF NewBracketing, Bracketing

LEMMA AwaitedThreads ==
    ASSUME Basics, NEW k \in Keys, NEW S
    PROVE  Awaited(k, S) \in SUBSET Threads
<1>1. CASE ctl.todo = <<>>
  BY <1>1 DEF Awaited
<1>2. CASE ctl.todo # <<>>
  <2>1. Current \in Threads /\ Tail(ctl.todo) \in Seq(Threads)
    BY <1>2, ListedThreads, TailFacts DEF Current
  <2>2. Range(Tail(ctl.todo)) \subseteq Threads
    BY <2>1 DEF Range
  <2>3. QED
    BY <1>2, <2>1, <2>2 DEF Awaited
<1>3. QED
  BY <1>1, <1>2

LEMMA BracketingOf ==
    ASSUME Basics, Placed, Bracketing, ctl.kind = "report", NEW k \in Keys
    PROVE  /\ Bracketed(Counts(k), Merged(Counts(k)), AwaitedCounts(k), since.made[k])
           /\ Bracketed(Times(k), Merged(Times(k)), AwaitedTimes(k), since.made[k])
           /\ AwaitedCounts(k) \in SUBSET Threads /\ AwaitedTimes(k) \in SUBSET Threads
           /\ Merged(Counts(k)) \in Nat /\ Merged(Times(k)) \in Nat /\ since.made[k] \in Nat
           /\ Counters(Counts(k)) /\ Counters(Times(k))
<1>1. AwaitedCounts(k) \in SUBSET Threads /\ AwaitedTimes(k) \in SUBSET Threads
  BY AwaitedThreads DEF AwaitedCounts, AwaitedTimes
<1>2. Merged(Counts(k)) \in Nat /\ Merged(Times(k)) \in Nat
  BY Reading DEF Merged, Tables
<1>3. since.made[k] \in Nat
  BY DEF Basics, Types
<1>4. QED
  BY <1>1, <1>2, <1>3, CountersOf DEF Bracketing

(* A call beside a report. *)
LEMMA BracketingUpdate ==
    ASSUME Basics, Placed, Bracketing, NEW t \in Threads, Tallied(t), KeysKept,
           UNCHANGED <<ctl, since>>
    PROVE  Bracketing'
<1>1. SUFFICES ASSUME ctl.kind = "report", NEW k \in Keys
               PROVE  NewBracketing(k)
  BY BracketingFrom
<1>2. PICK f, g, S, T, m, n, low :
        /\ f = Counts(k) /\ g = Times(k) /\ S = AwaitedCounts(k) /\ T = AwaitedTimes(k)
        /\ m = Merged(Counts(k)) /\ n = Merged(Times(k)) /\ low = since.made[k]
  OBVIOUS
<1>3. /\ Bracketed(f, m, S, low) /\ Bracketed(g, n, T, low)
      /\ S \in SUBSET Threads /\ T \in SUBSET Threads
      /\ m \in Nat /\ n \in Nat /\ low \in Nat /\ Counters(f) /\ Counters(g)
  BY <1>1, <1>2, BracketingOf
<1>4. t \in Tables /\ Rank \in Tables /\ t # Rank /\ Threads \subseteq Tables
  BY TablesAssumption DEF Tables
<1>5. NewAwaited(k, NewUncounted) = S /\ NewAwaited(k, Range(ctl'.av)) = T
  <2>1. /\ Range(ctl.av) \subseteq Ids
        /\ ctl.pc = "addtime" => Range(Tail(ctl.av)) \subseteq Ids
    BY HeadRecord DEF Basics, Pointers, Stands
  <2>2. Range(ctl.av) \subseteq Ids /\ UncountedRecords \subseteq Ids
    BY <2>1 DEF UncountedRecords, Basics, Pointers
  <2>3. NewUncounted = UncountedRecords
    BY DEF NewUncounted, UncountedRecords
  <2>4. /\ NewUnread(k, NewUncounted) <=> Unread(k, UncountedRecords)
        /\ NewUnread(k, Range(ctl'.av)) <=> Unread(k, Range(ctl.av))
    BY <2>2, <2>3 DEF NewUnread, Unread, KeysKept
  <2>5. QED
    BY <1>2, <2>4 DEF NewAwaited, Awaited, AwaitedCounts, AwaitedTimes, Current
<1>6. NewMerged(NewCounts(k)) = m /\ NewMerged(NewTimes(k)) = n
  BY <1>2, <1>4 DEF NewMerged, Merged, Tallied
<1>7. Bracketed(NewCounts(k), m, S, low)
  <2>1. CASE op[t].pc = "count" /\ k = op[t].key
    <3>1. NewCounts(k)[t] = f[t] + 1 /\ \A u \in Threads \ {t} : NewCounts(k)[u] = f[u]
      BY <1>2, <1>4, <2>1 DEF Tallied
    <3>2. QED
      BY <1>3, <3>1, BracketGrows
  <2>2. CASE ~(op[t].pc = "count" /\ k = op[t].key)
    <3>1. \A u \in Threads : NewCounts(k)[u] = f[u]
      BY <1>2, <1>4, <2>2 DEF Tallied
    <3>2. QED
      BY <1>3, <3>1, BracketKept
  <2>3. QED
    BY <2>1, <2>2
<1>8. Bracketed(NewTimes(k), n, T, low)
  <2>1. CASE op[t].pc = "time" /\ k = op[t].key
    <3>1. NewTimes(k)[t] = g[t] + 1 /\ \A u \in Threads \ {t} : NewTimes(k)[u] = g[u]
      BY <1>2, <1>4, <2>1 DEF Tallied
    <3>2. QED
      BY <1>3, <3>1, BracketGrows
  <2>2. CASE ~(op[t].pc = "time" /\ k = op[t].key)
    <3>1. \A u \in Threads : NewTimes(k)[u] = g[u]
      BY <1>2, <1>4, <2>2 DEF Tallied
    <3>2. QED
      BY <1>3, <3>1, BracketKept
  <2>3. QED
    BY <2>1, <2>2
<1>9. QED
  BY <1>2, <1>5, <1>6, <1>7, <1>8 DEF NewBracketing

Reporting == Fresh /\ Totals /\ Emptying /\ Gathered /\ Bracketing

LEMMA ReportingUpdate ==
    ASSUME Basics, Placed, Safe, Reporting, discipline # "free", NEW t \in Threads, Update(t)
    PROVE  Reporting'
<1>1. ~Resetting /\ UNCHANGED ctl /\ KeysKept /\ Tallied(t) /\ Phases(t) /\ Others(t)
  BY UpdateKinds, UpdateTallies, UpdatePhases DEF Reporting
<1>2. Fresh'
  BY FreshUpdate DEF Reporting
<1>3. Totals'
  BY <1>1, TotalsUpdate DEF Reporting
<1>4. Emptying'
  BY <1>1 DEF Emptying, Resetting
<1>5. Gathered'
  <2>1. \A p \in Range(ctl.av) : NewKey(p) = Key(p)
    BY <1>1 DEF Basics, Pointers, KeysKept
  <2>2. ctl.kind = "report" =>
           /\ Distinct(ctl.av)
           /\ ctl.pc = "gather" => \A p \in Range(ctl.av) : Index(NewKey(p)) < ctl.i
    BY <2>1 DEF Reporting, Gathered
  <2>3. QED
    BY <1>1, <2>2 DEF Gathered, NewKey, Key, Index
<1>6. Bracketing'
  <2>1. UNCHANGED since
    BY DEF Update, SearchCallsite, CreateCallsite, NumberCallsite, LinkCallsite, BumpCount,
           UpdateCount, UpdateTime, UpdateHist, history
  <2>2. QED
    BY <1>1, <2>1, BracketingUpdate DEF Reporting
<1>7. QED
  BY <1>2, <1>3, <1>4, <1>5, <1>6 DEF Reporting

(***************************************************************************)
(* The steps of MPI_Pcontrol: what they change of the readings.            *)
(***************************************************************************)
LEMMA MergedRecord ==
    ASSUME Basics, Placed, Safe, MergeCount \/ MergeTime
    PROVE  /\ Rank \in Tables /\ Current \in Threads /\ Current \in Tables
           /\ ctl.csp \in Entries(table[Rank]) /\ Key(ctl.csp) = Key(Head(ctl.av))
           /\ Head(ctl.av) \in Entries(table[Current]) /\ ctl.csp \in Ids
           /\ \A t \in Threads : ctl.csp \notin Entries(table[t])
<1>1. ctl.pc \in {"addcount", "addtime"} /\ ctl.pc \in Merging
  BY DEF MergeCount, MergeTime, Merging
<1>2. Current \in Threads /\ Current \in Tables /\ Rank \in Tables
  BY <1>1, CurrentThread DEF Basics
<1>3. ctl.csp \in Entries(table[Rank]) /\ Key(ctl.csp) = Key(Head(ctl.av))
  BY <1>1 DEF Safe, Collected
<1>4. Head(ctl.av) \in Entries(table[Current])
  BY <1>1, HeadRecord DEF Safe, Collected, Basics, Stands
<1>5. \A t \in Threads : ctl.csp \notin Entries(table[t])
  <2>1. \A t \in Threads : t \in Tables /\ t # Rank
    BY TablesAssumption DEF Tables
  <2>2. QED
    BY <1>2, <1>3, <2>1 DEF Safe, Owned
<1>6. QED
  BY <1>1, <1>2, <1>3, <1>4, <1>5 DEF Basics, Pointers

LEMMA FreshControl ==
    ASSUME Basics, Placed, Safe, Fresh, Control
    PROVE  Fresh'
<1>1. UNCHANGED op
  BY ControlUntouched DEF Untouched
<1>2. OthersKept
  <2>1. CASE InsertInRank
    BY <2>1, InsertRecord DEF RecAdded, OthersKept, Basics
  <2>2. CASE MergeCount
    BY <2>2, MergedRecord, MergeCountEffect DEF OthersKept, Basics
  <2>3. CASE MergeTime
    BY <2>3, MergedRecord, MergeTimeEffect DEF OthersKept, Basics
  <2>4. CASE UNCHANGED rec
    BY <2>4 DEF OthersKept
  <2>5. QED
    BY <2>1, <2>2, <2>3, <2>4
       DEF Control, StartReport, StartReset, DrainRank, GatherAlloc, GatherChain, FreeChain,
           ZeroCount, ReleaseRecords, FindInRank, MergeHist, EndControl, memory
<1>3. QED
  BY <1>1, <1>2, FreshKept DEF Fresh, Loose

RankReadings == \A k \in Keys : /\ NewCounts(k)[Rank] = Counts(k)[Rank]
                                /\ NewTimes(k)[Rank] = Times(k)[Rank]

LEMMA PlainReadings ==
    ASSUME UNCHANGED <<table, rec>>
    PROVE  SameReadings /\ RankReadings
  BY DEF SameReadings, RankReadings, NewCounts, NewTimes, Counts, Times, Tables

LEMMA DrainReadings ==
    ASSUME Basics, DrainRank
    PROVE  /\ SameReadings
           /\ \A k \in Keys : NewCounts(k)[Rank] = 0 /\ NewTimes(k)[Rank] = 0
<1>1. /\ Entries(table'[Rank]) = {} /\ Rank \in Tables /\ UNCHANGED rec
      /\ \A u \in Threads : table'[u] = table[u]
  BY RankEffect, TablesAssumption DEF Basics, Tables, DrainRank
<1>2. SameReadings
  BY <1>1 DEF SameReadings, NewCounts, NewTimes, Counts, Times, Tables
<1>3. \A k \in Keys : CountAt(table'[Rank], rec, k) = 0 /\ TimeAt(table'[Rank], rec, k) = 0
  BY <1>1, ReadNone
<1>4. QED
  BY <1>1, <1>2, <1>3 DEF NewCounts, NewTimes

LEMMA InsertReadings ==
    ASSUME Basics, Placed, Safe, InsertInRank
    PROVE  SameReadings /\ RankReadings
<1>1. ctl.pc = "insert" /\ ctl.av # <<>> /\ Rank \in Tables
  BY DEF InsertInRank, Basics, Stands, Tables
<1>2. PICK k0, p : k0 = Key(Head(ctl.av)) /\ p = Len(rec) + 1
  OBVIOUS
<1>3. k0 \in Keys /\ \A q \in Entries(table[Rank]) : Key(q) # k0
  BY <1>1, <1>2, HeadRecord DEF Basics, Safe, Collected
<1>4. Lookup(Rank, Key(Head(ctl.av))) = 0
  BY <1>1, <1>2, <1>3, LookupFinds DEF Basics
<1>5. /\ Entries(table'[Rank]) = Entries(table[Rank]) \cup {p}
      /\ \A u \in Tables \ {Rank} : table'[u] = table[u]
  BY <1>2, <1>4, InsertEffect DEF Basics
<1>6. RecAdded(k0, ctl.id) /\ KeysKept
  BY <1>2, InsertRecord, ControlKeys DEF Basics, Control
<1>7. /\ rec'[p].key = k0 /\ rec'[p].count = 0 /\ rec'[p].time = 0 /\ p \notin Ids
      /\ \A q \in Ids : rec'[q].count = rec[q].count /\ rec'[q].time = rec[q].time
  BY <1>2, <1>6 DEF RecAdded
<1>8. ASSUME NEW k \in Keys
      PROVE  NewCounts(k)[Rank] = Counts(k)[Rank] /\ NewTimes(k)[Rank] = Times(k)[Rank]
  <2>1. \A q \in Entries(table[Rank]) : /\ rec'[q].key = rec[q].key /\ rec'[q].key # rec'[p].key
                                        /\ rec'[q].count = rec[q].count
                                        /\ rec'[q].time = rec[q].time
    BY <1>1, <1>3, <1>6, <1>7, EntryFacts DEF KeysKept, NewKey
  <2>2. p \notin Entries(table[Rank])
    BY <1>1, <1>7, EntryFacts
  <2>3. /\ CountAt(table'[Rank], rec', k) = CountAt(table[Rank], rec, k)
        /\ TimeAt(table'[Rank], rec', k) = TimeAt(table[Rank], rec, k)
    BY <1>5, <1>7, <2>1, <2>2, ReadGrows
  <2>4. QED
    BY <1>1, <2>3 DEF NewCounts, NewTimes, Counts, Times
<1>9. ASSUME NEW k \in Keys, NEW t \in Threads
      PROVE  NewCounts(k)[t] = Counts(k)[t] /\ NewTimes(k)[t] = Times(k)[t]
  <2>1. t \in Tables /\ table'[t] = table[t]
    BY <1>5, TablesAssumption DEF Tables
  <2>2. \A q \in Entries(table[t]) : rec'[q].count = rec[q].count /\ rec'[q].time = rec[q].time
    BY <1>7, <2>1, EntryFacts
  <2>3. QED
    BY <1>6, <2>1, <2>2, ReadingKept
<1>10. QED
  BY <1>8, <1>9 DEF SameReadings, RankReadings

LEMMA MergeReadings ==
    ASSUME Basics, Placed, Safe, MergeCount \/ MergeTime
    PROVE  /\ SameReadings
           /\ \A k \in Keys :
                /\ NewCounts(k)[Rank] = IF MergeCount /\ k = Key(Head(ctl.av))
                                        THEN Counts(k)[Rank] + Counts(k)[Current]
                                        ELSE Counts(k)[Rank]
                /\ NewTimes(k)[Rank] = IF MergeTime /\ k = Key(Head(ctl.av))
                                       THEN Times(k)[Rank] + Times(k)[Current]
                                       ELSE Times(k)[Rank]
<1>1. PICK p, q : p = ctl.csp /\ q = Head(ctl.av)
  OBVIOUS
<1>2. /\ Rank \in Tables /\ Current \in Threads /\ Current \in Tables
      /\ p \in Entries(table[Rank]) /\ Key(p) = Key(q)
      /\ q \in Entries(table[Current]) /\ p \in Ids
      /\ \A t \in Threads : p \notin Entries(table[t])
  BY <1>1, MergedRecord
<1>3. KeysKept /\ UNCHANGED table /\ ~(MergeCount /\ MergeTime)
  BY ControlKeys DEF Control, MergeCount, MergeTime
<1>4. /\ \A r \in Ids \ {p} : rec'[r] = rec[r]
      /\ rec'[p].count = IF MergeCount THEN rec[p].count + rec[q].count ELSE rec[p].count
      /\ rec'[p].time = IF MergeTime THEN rec[p].time + rec[q].time ELSE rec[p].time
  <2>1. CASE MergeCount
    BY <1>1, <1>2, <1>3, <2>1, MergeCountEffect DEF Basics
  <2>2. CASE MergeTime
    BY <1>1, <1>2, <1>3, <2>2, MergeTimeEffect DEF Basics
  <2>3. QED
    BY <2>1, <2>2
<1>5. SameReadings
  <2>1. ASSUME NEW k \in Keys, NEW t \in Threads
        PROVE  NewCounts(k)[t] = Counts(k)[t] /\ NewTimes(k)[t] = Times(k)[t]
    <3>1. t \in Tables
      BY DEF Tables
    <3>2. \A r \in Entries(table[t]) : rec'[r] = rec[r]
      BY <1>2, <1>4, <3>1, EntryFacts
    <3>3. QED
      BY <1>3, <3>1, <3>2, ReadingKept
  <2>2. QED
    BY <2>1 DEF SameReadings
<1>6. ASSUME NEW k \in Keys
      PROVE  /\ NewCounts(k)[Rank] = IF k = Key(q) THEN rec'[p].count ELSE Counts(k)[Rank]
             /\ NewTimes(k)[Rank] = IF k = Key(q) THEN rec'[p].time ELSE Times(k)[Rank]
             /\ k = Key(q) => /\ Counts(k)[Rank] = rec[p].count /\ Times(k)[Rank] = rec[p].time
                              /\ Counts(k)[Current] = rec[q].count
                              /\ Times(k)[Current] = rec[q].time
  BY <1>2, <1>3, <1>4, ReadingChanges, Reading
<1>7. QED
  BY <1>1, <1>4, <1>5, <1>6

(* What a step of a report does to the sum so far, m, and to the tables it *)
(* has still to read, S: nothing, or it reads the current one.             *)
Passes(f, m1, S1, m, S) ==
    \/ m1 = m /\ S1 = S
    \/ Current \in S /\ m1 = m + f[Current] /\ S1 = S \ {Current}

LEMMA BracketPasses ==
    ASSUME NEW f, Counters(f), NEW g, \A t \in Threads : g[t] = f[t],
           NEW S \in SUBSET Threads, NEW m \in Nat, NEW low, Bracketed(f, m, S, low),
           NEW m1, NEW S1, Passes(f, m1, S1, m, S)
    PROVE  Bracketed(g, m1, S1, low)
<1>1. CASE m1 = m /\ S1 = S
  BY <1>1, BracketKept
<1>2. CASE Current \in S /\ m1 = m + f[Current] /\ S1 = S \ {Current}
  <2>1. PICK e \in S : e = Current
    BY <1>2
  <2>2. Bracketed(g, m + f[e], S \ {e}, low)
    BY <2>1, BracketMoves
  <2>3. QED
    BY <1>2, <2>1, <2>2
<1>3. QED
  BY <1>1, <1>2 DEF Passes

LEMMA BracketingPasses ==
    ASSUME Basics, Placed, Bracketing, SameReadings, ctl.kind = "report", UNCHANGED since,
           \A k \in Keys :
             /\ Passes(Counts(k), NewMerged(NewCounts(k)), NewAwaited(k, NewUncounted),
                       Merged(Counts(k)), AwaitedCounts(k))
             /\ Passes(Times(k), NewMerged(NewTimes(k)), NewAwaited(k, Range(ctl'.av)),
                       Merged(Times(k)), AwaitedTimes(k))
    PROVE  Bracketing'
<1>1. SUFFICES ASSUME NEW k \in Keys
               PROVE  NewBracketing(k)
  BY BracketingFrom
<1>2. PICK f, g, S, T, m, n, low :
        /\ f = Counts(k) /\ g = Times(k) /\ S = AwaitedCounts(k) /\ T = AwaitedTimes(k)
        /\ m = Merged(Counts(k)) /\ n = Merged(Times(k)) /\ low = since.made[k]
  OBVIOUS
<1>3. PICK f1, g1, S1, T1, m1, n1 :
        /\ f1 = NewCounts(k) /\ g1 = NewTimes(k)
        /\ S1 = NewAwaited(k, NewUncounted) /\ T1 = NewAwaited(k, Range(ctl'.av))
        /\ m1 = NewMerged(NewCounts(k)) /\ n1 = NewMerged(NewTimes(k))
  OBVIOUS
<1>4. /\ Bracketed(f, m, S, low) /\ Bracketed(g, n, T, low)
      /\ S \in SUBSET Threads /\ T \in SUBSET Threads
      /\ m \in Nat /\ n \in Nat /\ low \in Nat /\ Counters(f) /\ Counters(g)
  BY <1>1, <1>2, BracketingOf
<1>5. \A t \in Threads : f1[t] = f[t] /\ g1[t] = g[t]
  BY <1>2, <1>3 DEF SameReadings
<1>6. Passes(f, m1, S1, m, S) /\ Passes(g, n1, T1, n, T)
  BY <1>2, <1>3
<1>7. Bracketed(f1, m1, S1, low) /\ Bracketed(g1, n1, T1, low)
  BY <1>4, <1>5, <1>6, BracketPasses
<1>8. QED
  BY <1>2, <1>3, <1>7 DEF NewBracketing

(* While the list stays, only the current table may have been read. *)
LEMMA AwaitedStep ==
    ASSUME Basics, Listing, ctl.todo # <<>>, ctl'.todo = ctl.todo, NEW k \in Keys, NEW S, NEW S1
    PROVE  /\ (NewUnread(k, S1) <=> Unread(k, S)) => NewAwaited(k, S1) = Awaited(k, S)
           /\ Unread(k, S) /\ ~NewUnread(k, S1) =>
                Current \in Awaited(k, S) /\ NewAwaited(k, S1) = Awaited(k, S) \ {Current}
<1>1. Current \notin Range(Tail(ctl.todo))
  BY ListedThreads, DistinctTail DEF Listing, Current
<1>2. /\ Awaited(k, S) = Range(Tail(ctl.todo)) \cup IF Unread(k, S) THEN {Current} ELSE {}
      /\ NewAwaited(k, S1) = Range(Tail(ctl.todo)) \cup IF NewUnread(k, S1) THEN {Current} ELSE {}
  BY DEF Awaited, NewAwaited, Current
<1>3. QED
  BY <1>1, <1>2

(* Steps that read nothing: the sums stay, and so does what is unread. *)
LEMMA BracketingSame ==
    ASSUME Basics, Placed, Listing, Bracketing, SameReadings, ctl.kind = "report",
           UNCHANGED since, ctl.todo # <<>>, ctl'.todo = ctl.todo,
           \A k \in Keys : /\ NewMerged(NewCounts(k)) = Merged(Counts(k))
                           /\ NewMerged(NewTimes(k)) = Merged(Times(k))
                           /\ NewUnread(k, NewUncounted) <=> Unread(k, UncountedRecords)
                           /\ NewUnread(k, Range(ctl'.av)) <=> Unread(k, Range(ctl.av))
    PROVE  Bracketing'
<1>1. \A k \in Keys : /\ NewAwaited(k, NewUncounted) = AwaitedCounts(k)
                      /\ NewAwaited(k, Range(ctl'.av)) = AwaitedTimes(k)
  BY AwaitedStep DEF AwaitedCounts, AwaitedTimes
<1>2. QED
  BY <1>1, BracketingPasses DEF Passes

(* A step of a report, and a step of a reset. *)
LEMMA ReportStep ==
    ASSUME Basics, Placed, Safe, Reporting, Control, ~Resetting, ~Resetting', SameReadings,
           UNCHANGED <<made, begun>>, Gathered', Bracketing'
    PROVE  Reporting'
<1>1. UNCHANGED op
  BY ControlUntouched DEF Untouched
<1>2. Fresh' /\ Totals'
  BY <1>1, FreshControl, TotalsKept DEF Reporting
<1>3. QED
  BY <1>2 DEF Reporting, Emptying

LEMMA ResetStep ==
    ASSUME Basics, Placed, Safe, Reporting, Control, ctl'.kind = "reset",
           \A t \in Threads \ Range(ctl'.todo) : Entries(table'[t]) = {}
    PROVE  Reporting'
<1>1. Resetting'
  BY DEF Resetting
<1>2. Fresh'
  BY FreshControl DEF Reporting
<1>3. QED
  BY <1>1, <1>2 DEF Reporting, Totals, Emptying, Gathered, Bracketing

LEMMA ReportingStartReset ==
    ASSUME Basics, Placed, Safe, Reporting, StartReset
    PROVE  Reporting'
<1>1. ctl'.kind = "reset" /\ ctl'.todo = Listed
  BY StartMoves
<1>2. Threads \ Range(ctl'.todo) = {}
  BY <1>1, ListedFacts
<1>3. QED
  BY <1>1, <1>2, ResetStep DEF Control

LEMMA ReportingReset ==
    ASSUME Basics, Placed, Safe, Listing, Reporting, Control, Resetting,
           ctl.pc \notin {"idle", "end"}
    PROVE  Reporting'
<1>1. /\ ctl \in Controls /\ table \in [Tables -> HashTables] /\ ctl.kind = "reset"
      /\ Current \in Threads /\ Current \in Range(ctl.todo) /\ ctl.todo # <<>>
      /\ ctl.todo \in Seq(Threads)
      /\ \A t \in Threads : t \in Tables /\ t # Rank
      /\ \A t \in Threads \ Range(ctl.todo) : Entries(table[t]) = {}
  <2>1. ctl \in Controls /\ table \in [Tables -> HashTables] /\ ctl.kind = "reset"
    BY DEF Basics, Types, Resetting
  <2>2. Current \in Threads /\ ctl.todo # <<>> /\ ctl.todo \in Seq(Threads)
    BY CurrentThread, ListedThreads DEF Basics
  <2>3. Current \in Range(ctl.todo)
    BY <2>2, DistinctTail DEF Listing, Current
  <2>4. \A t \in Threads : t \in Tables /\ t # Rank
    BY TablesAssumption DEF Tables
  <2>5. \A t \in Threads \ Range(ctl.todo) : Entries(table[t]) = {}
    BY DEF Reporting, Emptying
  <2>6. QED
    BY <2>1, <2>2, <2>3, <2>4, <2>5
<1>2. ctl.pc \notin Merging
  BY <1>1 DEF Basics, Stands
<1>3. ASSUME SameTask,
             \A t \in Threads \ {Current} : table'[t] = table[t]
      PROVE  Reporting'
  BY <1>1, <1>3, ResetStep DEF SameTask
<1>4. CASE DrainRank
  <2>1. SameTask /\ \A t \in Threads : table'[t] = table[t]
    BY <1>1, <1>4, RankMoves, RankEffect DEF Basics
  <2>2. QED
    BY <1>3, <2>1
<1>5. CASE GatherAlloc
  <2>1. table[Current].count \in Nat
    BY <1>1 DEF HashTables
  <2>2. SameTask /\ UNCHANGED table
    BY <1>1, <1>5, <2>1, AllocMoves DEF GatherAlloc
  <2>3. QED
    BY <1>3, <2>2
<1>6. CASE GatherChain
  <2>1. table[Current].chain[ctl.i] \in Seq(Nat)
    BY <1>1, ControlFields, EntriesFacts
  <2>2. SameTask /\ UNCHANGED table
    BY <1>1, <1>6, <2>1, GatherMoves DEF GatherChain
  <2>3. QED
    BY <1>3, <2>2
<1>7. CASE FreeChain
  <2>1. SameTask /\ \A t \in Threads \ {Current} : table'[t] = table[t]
    BY <1>1, <1>7, FreeMoves, FreeEffect DEF Basics
  <2>2. QED
    BY <1>3, <2>1
<1>8. CASE ZeroCount
  <2>1. SameTask /\ \A t \in Threads \ {Current} : table'[t] = table[t]
    BY <1>1, <1>8, ZeroMoves, ZeroEffect DEF Basics
  <2>2. QED
    BY <1>3, <2>1
<1>9. CASE ReleaseRecords
  <2>1. ctl' = NextTable(ctl) /\ UNCHANGED table /\ ctl.pc = "release"
    BY <1>9 DEF ReleaseRecords
  <2>2. ctl'.kind = "reset" /\ ctl'.todo = Tail(ctl.todo)
    BY <1>1, <2>1, TableMoves
  <2>3. Range(ctl'.todo) = Range(ctl.todo) \ {Current}
    BY <1>1, <2>1, ListingNext
  <2>4. Entries(table[Current]) = {}
    <3>1. \A i \in Buckets : table[Current].chain[i] = <<>>
      BY <2>1 DEF Safe, Collected
    <3>2. table[Current] \in HashTables
      BY <1>1
    <3>3. QED
      BY <3>1, <3>2, EmptyFacts
  <2>5. \A t \in Threads \ Range(ctl'.todo) : Entries(table'[t]) = {}
    BY <1>1, <2>1, <2>3, <2>4
  <2>6. QED
    BY <2>2, <2>5, ResetStep
<1>10. QED
  BY <1>1, <1>2, <1>4, <1>5, <1>6, <1>7, <1>8, <1>9
     DEF Control, StartReport, StartReset, FindInRank, InsertInRank, MergeCount, MergeTime,
         MergeHist, EndControl, Merging

LEMMA ReportingEnd ==
    ASSUME Basics, Placed, Safe, Listing, Reporting, EndControl
    PROVE  Reporting'
<1>1. /\ ctl'.kind = "none" /\ ctl.pc = "end" /\ UNCHANGED <<table, rec, op>>
      /\ ~Resetting' /\ ctl.todo = <<>>
  BY EndMoves DEF EndControl, Resetting, memory, opVars, Listing
<1>2. Gathered' /\ Bracketing'
  BY <1>1 DEF Gathered, Bracketing
<1>3. SameReadings
  BY <1>1, PlainReadings
<1>4. CASE ~Resetting
  <2>1. UNCHANGED <<made, begun>>
    BY <1>4 DEF EndControl
  <2>2. QED
    BY <1>1, <1>2, <1>3, <1>4, <2>1, ReportStep DEF Control
<1>5. CASE Resetting
  <2>1. made' = Zero /\ begun' = Zero
    BY <1>5 DEF EndControl
  <2>2. \A t \in Threads : Entries(table[t]) = {} /\ t \in Tables /\ op[t].pc = "idle"
    BY <1>1, <1>5 DEF Reporting, Emptying, Range, Tables, Safe, Collected, Quiet
  <2>3. ASSUME NEW k \in Keys
        PROVE  NewTotals(k)
    <3>1. \A t \in Threads : /\ NewCounts(k)[t] = 0 /\ NewTimes(k)[t] = 0
                             /\ NewFlights(k)[t] = 0 /\ ~NewTiming(k, t)
      <4>1. \A t \in Threads : Counts(k)[t] = 0 /\ Times(k)[t] = 0
        BY <2>2, Reading
      <4>2. \A t \in Threads : NewFlights(k)[t] = 0 /\ ~NewTiming(k, t)
        BY <1>1, <2>2, FlightsFacts DEF NewTiming, Before
      <4>3. QED
        BY <1>3, <4>1, <4>2 DEF SameReadings
    <3>2. /\ SumFunctionOnSet(NewCounts(k), Threads) = 0
          /\ SumFunctionOnSet(NewTimes(k), Threads) = 0
          /\ SumFunctionOnSet(NewFlights(k), Threads) = 0
      BY <3>1, TablesAssumption, SumZero
    <3>3. made'[k] = 0 /\ begun'[k] = 0
      BY <2>1 DEF Zero
    <3>4. \A t \in Threads : NewCounts(k)[t] = NewTimes(k)[t] + IF NewTiming(k, t) THEN 1 ELSE 0
      BY <3>1
    <3>5. QED
      BY <3>2, <3>3, <3>4 DEF NewTotals
  <2>4. Totals' /\ Fresh'
    BY <2>3, TotalsFrom, FreshControl DEF Control, Reporting
  <2>5. QED
    BY <1>1, <1>2, <2>4 DEF Reporting, Emptying
<1>6. QED
  BY <1>4, <1>5

LEMMA TimesBelow ==
    ASSUME Basics, Placed, Totals, ~Resetting, NEW k \in Keys
    PROVE  /\ SumFunctionOnSet(Times(k), Threads) <= SumFunctionOnSet(Counts(k), Threads)
           /\ SumFunctionOnSet(Counts(k), Threads) <= begun[k]
           /\ SumFunctionOnSet(Times(k), Threads) \in Nat
           /\ SumFunctionOnSet(Counts(k), Threads) \in Nat
           /\ made[k] = SumFunctionOnSet(Times(k), Threads)
<1>1. /\ \A t \in Threads :
           Counts(k)[t] = Times(k)[t] + IF Timing(k, t) THEN 1 ELSE 0
      /\ made[k] = SumFunctionOnSet(Times(k), Threads)
      /\ begun[k] = SumFunctionOnSet(Counts(k), Threads) + SumFunctionOnSet(Flights(k), Threads)
  BY TotalsOf
<1>2. Counters(Counts(k)) /\ Counters(Times(k)) /\ Counters(Flights(k))
  BY CountersOf
<1>3. /\ IsFiniteSet(Threads) /\ SumFunctionOnSet(Counts(k), Threads) \in Nat
      /\ SumFunctionOnSet(Times(k), Threads) \in Nat
      /\ SumFunctionOnSet(Flights(k), Threads) \in Nat
  BY <1>2, CountersSum, TablesAssumption
<1>4. \A t \in Threads : /\ Times(k)[t] \in Nat /\ Counts(k)[t] \in Nat
                         /\ Times(k)[t] <= Counts(k)[t]
  BY <1>1, <1>2 DEF Counters
<1>5. SumFunctionOnSet(Times(k), Threads) <= SumFunctionOnSet(Counts(k), Threads)
  BY <1>3, <1>4, SumMonotone
<1>6. QED
  BY <1>1, <1>3, <1>5

LEMMA ReportingStart ==
    ASSUME Basics, Placed, Safe, Reporting, StartReport
    PROVE  Reporting'
<1>1. /\ ctl'.pc = "rank" /\ ctl'.kind = "report" /\ ctl'.todo = Listed /\ ctl'.av = <<>>
      /\ ~Resetting' /\ ~Resetting
  BY StartMoves DEF Resetting, StartReport, Basics, Stands
<1>2. UNCHANGED <<table, rec, made, begun>> /\ since'.made = made
  BY DEF StartReport, memory
<1>3. SameReadings
  BY <1>2, PlainReadings
<1>4. Gathered'
  BY <1>1 DEF Gathered, Distinct
<1>5. Bracketing'
  <2>1. SUFFICES ASSUME NEW k \in Keys
                 PROVE  NewBracketing(k)
    BY BracketingFrom
  <2>2. /\ NewMerged(NewCounts(k)) = 0 /\ NewMerged(NewTimes(k)) = 0
    BY <1>1 DEF NewMerged
  <2>3. \A S : NewAwaited(k, S) = Threads
    <3>1. Range(Tail(Listed)) \cup {Head(Listed)} = Threads
      BY ListedFacts, DistinctTail DEF Distinct
    <3>2. QED
      BY <1>1, <3>1, ListedFacts DEF NewAwaited, NewUnread
  <2>4. /\ SumFunctionOnSet(NewCounts(k), Threads) = SumFunctionOnSet(Counts(k), Threads)
        /\ SumFunctionOnSet(NewTimes(k), Threads) = SumFunctionOnSet(Times(k), Threads)
    BY <1>3, TablesAssumption, SumEqual DEF SameReadings
  <2>5. /\ SumFunctionOnSet(Times(k), Threads) <= SumFunctionOnSet(Counts(k), Threads)
        /\ SumFunctionOnSet(Times(k), Threads) \in Nat
        /\ SumFunctionOnSet(Counts(k), Threads) \in Nat
        /\ made[k] = SumFunctionOnSet(Times(k), Threads)
    BY <1>1, TimesBelow DEF Reporting
  <2>6. /\ Bracketed(NewCounts(k), 0, Threads, made[k])
        /\ Bracketed(NewTimes(k), 0, Threads, made[k])
    BY <2>4, <2>5 DEF Bracketed
  <2>7. QED
    BY <1>2, <2>2, <2>3, <2>6 DEF NewBracketing
<1>6. QED
  BY <1>1, <1>2, <1>3, <1>4, <1>5, ReportStep DEF Control

(* Where a report stands while it works. *)
LEMMA AtWork ==
    ASSUME Basics, ctl.kind = "report", ctl.pc # "end"
    PROVE  /\ ctl \in Controls /\ ctl.todo # <<>> /\ ctl.pc # "idle" /\ ~Resetting
           /\ Current \in Threads /\ Current \in Tables /\ Rank \in Tables
           /\ table[Current] \in HashTables /\ tmpCtr \in Nat /\ Len(rec) \in Nat
           /\ ctl.av \in Seq(Nat) /\ Range(ctl.av) \subseteq Ids
           /\ ctl.i \in Buckets
<1>1. ctl.pc # "idle"
  BY DEF Basics, Stands
<1>2. QED
  BY <1>1, CurrentThread, ControlFields DEF Basics, Types, Pointers, Resetting

LEMMA ReportingDrain ==
    ASSUME Basics, Placed, Safe, Listing, Reporting, ctl.kind = "report", DrainRank
    PROVE  Reporting'
<1>1. ctl.pc = "rank" /\ UNCHANGED <<made, begun, since>>
  BY DEF DrainRank, history
<1>2. SameTask /\ ctl'.pc = "alloc" /\ ctl'.av = ctl.av /\ ctl.todo # <<>>
  BY <1>1, AtWork, RankMoves
<1>3. /\ SameReadings
      /\ \A k \in Keys : NewCounts(k)[Rank] = 0 /\ NewTimes(k)[Rank] = 0
  BY DrainReadings
<1>4. Gathered'
  BY <1>1, <1>2 DEF Reporting, Gathered, SameTask
<1>5. Bracketing'
  BY <1>1, <1>2, <1>3, BracketingSame
     DEF SameTask, NewMerged, Merged, NewUnread, Unread, Reporting
<1>6. QED
  BY <1>1, <1>2, <1>3, <1>4, <1>5, AtWork, ReportStep DEF Control, SameTask, Resetting

LEMMA ReportingAlloc ==
    ASSUME Basics, Placed, Safe, Listing, Reporting, ctl.kind = "report", GatherAlloc
    PROVE  Reporting'
<1>1. ctl.pc = "alloc" /\ UNCHANGED <<made, begun, since, table, rec>>
  BY DEF GatherAlloc, history, memory
<1>2. table[Current].count \in Nat /\ ctl \in Controls /\ ctl.todo # <<>>
  BY <1>1, AtWork DEF HashTables
<1>3. SameTask /\ ctl'.pc = "gather" /\ ctl'.i = 0 /\ ctl'.av = <<>>
  BY <1>2, AllocMoves
<1>4. SameReadings /\ RankReadings
  BY <1>1, PlainReadings
<1>5. Gathered'
  BY <1>3 DEF Gathered, Distinct, Range
<1>6. \A k \in Keys : Index(k) >= 0
  BY IndexInBuckets DEF Buckets
<1>7. Bracketing'
  BY <1>1, <1>2, <1>3, <1>4, <1>6, BracketingSame
     DEF SameTask, NewMerged, Merged, NewUnread, Unread, RankReadings, Reporting
<1>8. QED
  BY <1>1, <1>3, <1>4, <1>5, <1>7, AtWork, ReportStep DEF Control, SameTask, Resetting

LEMMA AppendDistinct ==
    ASSUME NEW s \in Seq(Nat), NEW u \in Seq(Nat), Distinct(s), Distinct(u),
           Range(s) \cap Range(u) = {}
    PROVE  Distinct(s \o u)
<1>1. /\ Len(s) \in Nat /\ Len(u) \in Nat /\ Len(s \o u) = Len(s) + Len(u)
      /\ \A i \in 1 .. Len(s) : (s \o u)[i] = s[i] /\ s[i] \in Range(s)
      /\ \A i \in 1 .. Len(u) : u[i] \in Range(u)
  BY DEF Range
<1>2. \A i \in 1 .. Len(s \o u) : i \notin 1 .. Len(s) =>
          i - Len(s) \in 1 .. Len(u) /\ (s \o u)[i] = u[i - Len(s)]
  BY <1>1
<1>3. ASSUME NEW i \in 1 .. Len(s \o u), NEW j \in 1 .. Len(s \o u), (s \o u)[i] = (s \o u)[j]
      PROVE  i = j
  <2>1. CASE i \in 1 .. Len(s) /\ j \in 1 .. Len(s)
    BY <1>1, <1>3, <2>1 DEF Distinct
  <2>2. CASE i \notin 1 .. Len(s) /\ j \notin 1 .. Len(s)
    <3>1. i - Len(s) = j - Len(s)
      BY <1>2, <1>3, <2>2 DEF Distinct
    <3>2. QED
      BY <1>1, <3>1
  <2>3. CASE i \in 1 .. Len(s) /\ j \notin 1 .. Len(s)
    BY <1>1, <1>2, <1>3, <2>3
  <2>4. CASE i \notin 1 .. Len(s) /\ j \in 1 .. Len(s)
    BY <1>1, <1>2, <1>3, <2>4
  <2>5. QED
    BY <2>1, <2>2, <2>3, <2>4
<1>4. QED
  BY <1>3 DEF Distinct

(* The bucket walked next holds the entry for a key, or there is none.     *)
LEMMA ReportingGather ==
    ASSUME Basics, Placed, Safe, Listing, Reporting, ctl.kind = "report", GatherChain
    PROVE  Reporting'
<1>1. ctl.pc = "gather" /\ UNCHANGED <<made, begun, since, table, rec>>
  BY DEF GatherChain, history, memory
<1>2. /\ ctl \in Controls /\ ctl.todo # <<>> /\ table[Current] \in HashTables /\ ctl.i \in Buckets
      /\ Current \in Tables /\ Current \in Threads /\ ctl.av \in Seq(Nat) /\ ~Resetting
  BY <1>1, AtWork
<1>3. PICK chain \in Seq(Nat), i \in Nat : chain = table[Current].chain[ctl.i] /\ i = ctl.i
  BY <1>2, EntriesFacts DEF Buckets
<1>4. SameTask /\ ctl'.av = ctl.av \o chain /\ Goes("gather", "record")
  BY <1>2, <1>3, GatherMoves
<1>5. Range(ctl'.av) = Range(ctl.av) \cup Range(chain)
  BY <1>2, <1>4, AppendedRange
<1>6. /\ \A p \in Range(chain) : Index(Key(p)) = i
      /\ \A p \in Range(ctl.av) : Index(Key(p)) < i
      /\ Distinct(ctl.av) /\ Distinct(chain)
  <2>1. /\ \A p \in Range(ctl.av) : Index(Key(p)) < i
        /\ Distinct(ctl.av)
    BY <1>1, <1>3 DEF Reporting, Gathered
  <2>2. \A p \in Range(chain) : Index(Key(p)) = i
    BY <1>2, <1>3 DEF Placed, Chained, Range
  <2>3. Distinct(chain)
    <3>1. \A j, l \in DOMAIN chain : chain[j] = chain[l] => j = l
      BY <1>2, <1>3, PlacedFacts DEF Basics
    <3>2. DOMAIN chain = 1 .. Len(chain)
      OBVIOUS
    <3>3. QED
      BY <3>1, <3>2 DEF Distinct
  <2>4. QED
    BY <2>1, <2>2, <2>3
<1>7. SameReadings /\ RankReadings
  BY <1>1, PlainReadings
<1>8. Gathered'
  <2>1. Distinct(ctl'.av)
    <3>1. Range(ctl.av) \cap Range(chain) = {}
      BY <1>3, <1>6
    <3>2. QED
      BY <1>2, <1>4, <1>6, <3>1, AppendDistinct
  <2>2. ASSUME ctl'.pc = "gather", NEW p \in Range(ctl'.av)
        PROVE  Index(Key(p)) < ctl'.i
    <3>1. ctl'.i = i + 1
      BY <1>3, <1>4, <2>2 DEF Goes
    <3>2. CASE p \in Range(ctl.av)
      <4>1. Index(Key(p)) \in Buckets
        BY AtWork, <1>1, <3>2, RecFields, IndexInBuckets DEF Basics, Types
      <4>2. Index(Key(p)) \in Nat /\ Index(Key(p)) < i
        BY <1>6, <3>2, <4>1 DEF Buckets
      <4>3. QED
        BY <3>1, <4>2
    <3>3. CASE p \in Range(chain)
      BY <1>6, <3>1, <3>3
    <3>4. QED
      BY <1>5, <2>2, <3>2, <3>3
  <2>3. ctl'.pc = "gather" => \A p \in Range(ctl'.av) : Index(rec'[p].key) < ctl'.i
    BY <1>1, <2>2 DEF Key
  <2>4. QED
    BY <2>1, <2>3 DEF Gathered, Key, Index
<1>9. ASSUME NEW k \in Keys
      PROVE  /\ NewUnread(k, Range(ctl'.av)) => Unread(k, Range(ctl.av))
             /\ Unread(k, Range(ctl.av)) /\ ~NewUnread(k, Range(ctl'.av))
                    => Counts(k)[Current] = 0 /\ Times(k)[Current] = 0
  <2>1. PICK n \in Nat : n = Index(k) /\ n \in Buckets
    BY IndexInBuckets DEF Buckets
  <2>2. NewUnread(k, Range(ctl'.av)) <=>
            n >= i + 1 \/ \E p \in Range(ctl.av) \cup Range(chain) : Key(p) = k
    <3>1. \A p : NewKey(p) = Key(p)
      BY <1>1 DEF NewKey, Key
    <3>2. CASE ctl'.pc = "gather" /\ ctl'.i = i + 1
      BY <1>5, <2>1, <3>1, <3>2 DEF NewUnread
    <3>3. CASE ctl'.pc = "record" /\ i + 1 = TableSize
      <4>1. ~(n >= i + 1)
        BY <2>1, <3>3, TablesAssumption DEF Buckets
      <4>2. QED
        BY <1>5, <2>1, <3>1, <3>3, <4>1 DEF NewUnread
    <3>4. QED
      BY <1>3, <1>4, <3>2, <3>3 DEF Goes
  <2>3. Unread(k, Range(ctl.av)) <=> n >= i \/ \E p \in Range(ctl.av) : Key(p) = k
    BY <1>1, <1>3, <2>1 DEF Unread
  <2>4. \A p \in Range(chain) : Key(p) = k => n = i
    BY <1>6, <2>1
  <2>5. NewUnread(k, Range(ctl'.av)) => Unread(k, Range(ctl.av))
    BY <2>2, <2>3, <2>4
  <2>6. ASSUME Unread(k, Range(ctl.av)), ~NewUnread(k, Range(ctl'.av))
        PROVE  Counts(k)[Current] = 0 /\ Times(k)[Current] = 0
    <3>1. n = i /\ \A p \in Range(chain) : Key(p) # k
      BY <2>2, <2>3, <2>6
    <3>2. \A p \in Entries(table[Current]) : Key(p) = k => p \in Range(chain)
      BY <1>2, <1>3, <2>1, <3>1, PlacedFacts DEF Basics
    <3>3. \A p \in Entries(table[Current]) : Key(p) # k
      BY <3>1, <3>2
    <3>4. QED
      BY <1>2, <3>3, Reading
  <2>7. QED
    BY <2>5, <2>6
<1>10. ASSUME NEW k \in Keys
       PROVE  /\ Passes(Counts(k), NewMerged(NewCounts(k)), NewAwaited(k, NewUncounted),
                        Merged(Counts(k)), AwaitedCounts(k))
              /\ Passes(Times(k), NewMerged(NewTimes(k)), NewAwaited(k, Range(ctl'.av)),
                        Merged(Times(k)), AwaitedTimes(k))
  <2>1. /\ NewUncounted = Range(ctl'.av) /\ UncountedRecords = Range(ctl.av)
        /\ NewMerged(NewCounts(k)) = Merged(Counts(k)) /\ NewMerged(NewTimes(k)) = Merged(Times(k))
    BY <1>1, <1>4, <1>7 DEF Goes, NewUncounted, UncountedRecords, NewMerged, Merged, RankReadings
  <2>2. Merged(Counts(k)) \in Nat /\ Merged(Times(k)) \in Nat
    BY BracketingOf DEF Reporting
  <2>3. PICK S, S1 : S = Awaited(k, Range(ctl.av)) /\ S1 = NewAwaited(k, Range(ctl'.av))
    OBVIOUS
  <2>4. /\ S = AwaitedCounts(k) /\ S = AwaitedTimes(k) /\ S1 = NewAwaited(k, NewUncounted)
    BY <2>1, <2>3 DEF AwaitedCounts, AwaitedTimes
  <2>5. CASE NewUnread(k, Range(ctl'.av)) <=> Unread(k, Range(ctl.av))
    <3>1. S1 = S
      BY <1>2, <1>4, <2>3, <2>5, AwaitedStep DEF SameTask
    <3>2. QED
      BY <2>1, <2>3, <2>4, <3>1 DEF Passes
  <2>6. CASE Unread(k, Range(ctl.av)) /\ ~NewUnread(k, Range(ctl'.av))
    <3>1. Current \in S /\ S1 = S \ {Current}
      BY <1>2, <1>4, <2>3, <2>6, AwaitedStep DEF SameTask
    <3>2. /\ Merged(Counts(k)) = Merged(Counts(k)) + Counts(k)[Current]
          /\ Merged(Times(k)) = Merged(Times(k)) + Times(k)[Current]
      BY <1>9, <2>2, <2>6
    <3>3. QED
      BY <2>1, <2>3, <2>4, <3>1, <3>2 DEF Passes
  <2>7. QED
    BY <1>9, <2>5, <2>6
<1>11. Bracketing'
  BY <1>1, <1>7, <1>10, BracketingPasses DEF Reporting
<1>12. QED
  BY <1>1, <1>2, <1>4, <1>7, <1>8, <1>11, ReportStep DEF Control, SameTask, Resetting

LEMMA KeysOfArray ==
    ASSUME Basics, KeysKept
    PROVE  \A p \in Range(ctl.av) : NewKey(p) = Key(p)
  BY DEF Basics, Pointers, KeysKept

(* Finding or making the record of the rank reads nothing yet. *)
LEMMA ReportingFind ==
    ASSUME Basics, Placed, Safe, Listing, Reporting, ctl.kind = "report",
           FindInRank \/ InsertInRank
    PROVE  Reporting'
<1>1. ctl.pc \in {"record", "insert"} /\ UNCHANGED <<made, begun, since>>
  BY DEF FindInRank, InsertInRank, history
<1>2. ctl \in Controls /\ ctl.todo # <<>> /\ Rank \in Tables /\ tmpCtr \in Nat /\ Len(rec) \in Nat
      /\ ~Resetting
  BY <1>1, AtWork
<1>3. SameTask /\ ctl'.av = ctl.av /\ ctl'.pc \in {"insert", "addcount"}
  <2>1. CASE FindInRank
    <3>1. Lookup(Rank, Key(Head(ctl.av))) \in Nat
      BY <1>2, <2>1, HeadRecord, LookupFinds DEF Basics, FindInRank
    <3>2. QED
      BY <1>2, <2>1, <3>1, FindMoves
  <2>2. CASE InsertInRank
    BY <1>2, <2>2, InsertMoves
  <2>3. QED
    BY <2>1, <2>2
<1>4. SameReadings /\ RankReadings
  <2>1. FindInRank => UNCHANGED <<table, rec>>
    BY DEF FindInRank, memory
  <2>2. QED
    BY <2>1, PlainReadings, InsertReadings
<1>5. Gathered'
  BY <1>3 DEF Reporting, Gathered, SameTask
<1>6. \A p \in Range(ctl.av) : NewKey(p) = Key(p)
  BY ControlKeys, KeysOfArray DEF Control
<1>7. Bracketing'
  <2>1. NewUncounted = Range(ctl.av) /\ UncountedRecords = Range(ctl.av)
    BY <1>1, <1>3 DEF NewUncounted, UncountedRecords
  <2>2. \A k \in Keys : NewUnread(k, Range(ctl.av)) <=> Unread(k, Range(ctl.av))
    BY <1>1, <1>3, <1>6 DEF NewUnread, Unread
  <2>3. \A k \in Keys : /\ NewMerged(NewCounts(k)) = Merged(Counts(k))
                        /\ NewMerged(NewTimes(k)) = Merged(Times(k))
    BY <1>1, <1>3, <1>4 DEF NewMerged, Merged, RankReadings
  <2>4. QED
    BY <1>1, <1>2, <1>3, <1>4, <2>1, <2>2, <2>3, BracketingSame DEF SameTask, Reporting
<1>8. QED
  BY <1>1, <1>2, <1>3, <1>4, <1>5, <1>7, ReportStep DEF Control, SameTask, Resetting

(* The record at the head of the array is the only one of it with its key. *)
LEMMA HeadUnique ==
    ASSUME Basics, Placed, Safe, Reporting, ctl.kind = "report", MergeCount \/ MergeTime
    PROVE  /\ Distinct(Tail(ctl.av)) /\ Range(Tail(ctl.av)) \subseteq Range(ctl.av)
           /\ Head(ctl.av) \in Range(ctl.av)
           /\ \A p \in Range(ctl.av) : Key(p) = Key(Head(ctl.av)) => p = Head(ctl.av)
           /\ Head(ctl.av) \notin Range(Tail(ctl.av))
           /\ Range(ctl.av) = Range(Tail(ctl.av)) \cup {Head(ctl.av)}
<1>1. ctl.pc \in {"addcount", "addtime"} /\ ctl.pc \in Merging
  BY DEF MergeCount, MergeTime, Merging
<1>2. ctl.av # <<>> /\ ctl.av \in Seq(Nat) /\ Distinct(ctl.av) /\ Current \in Tables
      /\ Range(ctl.av) \subseteq Entries(table[Current])
  BY <1>1, AtWork DEF Basics, Stands, Reporting, Gathered, Safe, Collected
<1>3. /\ Distinct(Tail(ctl.av)) /\ Head(ctl.av) \in Range(ctl.av)
      /\ Head(ctl.av) \notin Range(Tail(ctl.av))
      /\ Range(Tail(ctl.av)) = Range(ctl.av) \ {Head(ctl.av)}
  BY <1>2, DistinctTail
<1>4. \A p \in Range(ctl.av) : Key(p) = Key(Head(ctl.av)) => p = Head(ctl.av)
  BY <1>2, <1>3, PlacedFacts DEF Basics
<1>5. QED
  BY <1>3, <1>4

(* The count of the record at the head is added, and counted as read, *)
LEMMA ReportingMergeCount ==
    ASSUME Basics, Placed, Safe, Listing, Reporting, ctl.kind = "report", MergeCount
    PROVE  Reporting'
<1>1. ctl.pc = "addcount" /\ UNCHANGED <<made, begun, since>> /\ ~MergeTime
  BY DEF MergeCount, MergeTime, history
<1>2. ctl \in Controls /\ ctl.todo # <<>> /\ Rank \in Tables /\ ~Resetting
  BY <1>1, AtWork
<1>3. SameTask /\ ctl'.av = ctl.av /\ ctl'.pc = "addtime"
  BY <1>2, MergeCountMoves
<1>4. PICK h : h = Head(ctl.av)
  OBVIOUS
<1>5. /\ SameReadings
      /\ \A k \in Keys :
           /\ NewCounts(k)[Rank] = IF k = Key(h) THEN Counts(k)[Rank] + Counts(k)[Current]
                                   ELSE Counts(k)[Rank]
           /\ NewTimes(k)[Rank] = Times(k)[Rank]
  BY <1>1, <1>4, MergeReadings
<1>6. Gathered'
  BY <1>3 DEF Reporting, Gathered, SameTask
<1>7. /\ \A p \in Range(ctl.av) : Key(p) = Key(h) => p = h
      /\ h \notin Range(Tail(ctl.av)) /\ Range(ctl.av) = Range(Tail(ctl.av)) \cup {h}
  BY <1>4, HeadUnique
<1>8. \A p \in Range(ctl.av) : NewKey(p) = Key(p)
  BY ControlKeys, KeysOfArray DEF Control
<1>9. NewUncounted = Range(Tail(ctl.av)) /\ UncountedRecords = Range(ctl.av)
  BY <1>1, <1>3 DEF NewUncounted, UncountedRecords
<1>10. ASSUME NEW k \in Keys
       PROVE  /\ Unread(k, Range(ctl.av)) <=> \E p \in Range(ctl.av) : Key(p) = k
              /\ NewUnread(k, Range(ctl.av)) <=> \E p \in Range(ctl.av) : Key(p) = k
              /\ NewUnread(k, Range(Tail(ctl.av))) <=> \E p \in Range(Tail(ctl.av)) : Key(p) = k
  BY <1>1, <1>3, <1>7, <1>8 DEF Unread, NewUnread
<1>11. ASSUME NEW k \in Keys
       PROVE  /\ Passes(Counts(k), NewMerged(NewCounts(k)), NewAwaited(k, NewUncounted),
                        Merged(Counts(k)), AwaitedCounts(k))
              /\ Passes(Times(k), NewMerged(NewTimes(k)), NewAwaited(k, Range(ctl'.av)),
                        Merged(Times(k)), AwaitedTimes(k))
  <2>1. /\ NewMerged(NewCounts(k)) = NewCounts(k)[Rank] /\ Merged(Counts(k)) = Counts(k)[Rank]
        /\ NewMerged(NewTimes(k)) = NewTimes(k)[Rank] /\ Merged(Times(k)) = Times(k)[Rank]
    BY <1>1, <1>3 DEF NewMerged, Merged
  <2>2. Passes(Times(k), NewMerged(NewTimes(k)), NewAwaited(k, Range(ctl'.av)),
               Merged(Times(k)), AwaitedTimes(k))
    <3>1. NewAwaited(k, Range(ctl'.av)) = AwaitedTimes(k)
      BY <1>2, <1>3, <1>10, AwaitedStep DEF SameTask, AwaitedTimes
    <3>2. QED
      BY <1>5, <2>1, <3>1 DEF Passes
  <2>3. PICK S, S1 : S = Awaited(k, Range(ctl.av)) /\ S1 = NewAwaited(k, Range(Tail(ctl.av)))
    OBVIOUS
  <2>4. CASE k = Key(h)
    <3>1. Unread(k, Range(ctl.av)) /\ ~NewUnread(k, Range(Tail(ctl.av)))
      BY <1>7, <1>10, <2>4
    <3>2. Current \in S /\ S1 = S \ {Current}
      BY <1>2, <1>3, <2>3, <3>1, AwaitedStep DEF SameTask
    <3>3. QED
      BY <1>5, <1>9, <2>1, <2>2, <2>3, <2>4, <3>2 DEF Passes, AwaitedCounts
  <2>5. CASE k # Key(h)
    <3>1. NewUnread(k, Range(Tail(ctl.av))) <=> Unread(k, Range(ctl.av))
      BY <1>7, <1>10, <2>5
    <3>2. S1 = S
      BY <1>2, <1>3, <2>3, <3>1, AwaitedStep DEF SameTask
    <3>3. QED
      BY <1>5, <1>9, <2>1, <2>2, <2>3, <2>5, <3>2 DEF Passes, AwaitedCounts
  <2>6. QED
    BY <2>4, <2>5
<1>12. Bracketing'
  BY <1>1, <1>5, <1>11, BracketingPasses DEF Reporting
<1>13. QED
  BY <1>1, <1>2, <1>3, <1>5, <1>6, <1>12, ReportStep DEF Control, SameTask, Resetting

(* and then its time, and the record leaves the array. *)
LEMMA ReportingMergeTime ==
    ASSUME Basics, Placed, Safe, Listing, Reporting, ctl.kind = "report", MergeTime
    PROVE  Reporting'
<1>1. ctl.pc = "addtime" /\ UNCHANGED <<made, begun, since>> /\ ~MergeCount
  BY DEF MergeCount, MergeTime, history
<1>2. ctl \in Controls /\ ctl.todo # <<>> /\ Rank \in Tables /\ ~Resetting /\ ctl.av # <<>>
  BY <1>1, AtWork DEF Basics, Stands
<1>3. SameTask /\ ctl'.av = Tail(ctl.av) /\ ctl'.pc = "record"
  BY <1>2, MergeTimeMoves
<1>4. PICK h : h = Head(ctl.av)
  OBVIOUS
<1>5. /\ SameReadings
      /\ \A k \in Keys :
           /\ NewCounts(k)[Rank] = Counts(k)[Rank]
           /\ NewTimes(k)[Rank] = IF k = Key(h) THEN Times(k)[Rank] + Times(k)[Current]
                                  ELSE Times(k)[Rank]
  BY <1>1, <1>4, MergeReadings
<1>6. Gathered'
  BY <1>3, HeadUnique DEF Gathered
<1>7. /\ \A p \in Range(ctl.av) : Key(p) = Key(h) => p = h
      /\ h \notin Range(Tail(ctl.av)) /\ Range(ctl.av) = Range(Tail(ctl.av)) \cup {h}
  BY <1>4, HeadUnique
<1>8. \A p \in Range(ctl.av) : NewKey(p) = Key(p)
  BY ControlKeys, KeysOfArray DEF Control
<1>9. /\ NewUncounted = Range(Tail(ctl.av)) /\ UncountedRecords = Range(Tail(ctl.av))
      /\ Range(ctl'.av) = Range(Tail(ctl.av))
  BY <1>1, <1>3 DEF NewUncounted, UncountedRecords
<1>10. ASSUME NEW k \in Keys
       PROVE  /\ Unread(k, Range(ctl.av)) <=> \E p \in Range(ctl.av) : Key(p) = k
              /\ Unread(k, Range(Tail(ctl.av))) <=> \E p \in Range(Tail(ctl.av)) : Key(p) = k
              /\ NewUnread(k, Range(Tail(ctl.av))) <=> \E p \in Range(Tail(ctl.av)) : Key(p) = k
  BY <1>1, <1>3, <1>7, <1>8 DEF Unread, NewUnread
<1>11. ASSUME NEW k \in Keys
       PROVE  /\ Passes(Counts(k), NewMerged(NewCounts(k)), NewAwaited(k, NewUncounted),
                        Merged(Counts(k)), AwaitedCounts(k))
              /\ Passes(Times(k), NewMerged(NewTimes(k)), NewAwaited(k, Range(ctl'.av)),
                        Merged(Times(k)), AwaitedTimes(k))
  <2>1. /\ NewMerged(NewCounts(k)) = NewCounts(k)[Rank] /\ Merged(Counts(k)) = Counts(k)[Rank]
        /\ NewMerged(NewTimes(k)) = NewTimes(k)[Rank] /\ Merged(Times(k)) = Times(k)[Rank]
    BY <1>1, <1>3 DEF NewMerged, Merged
  <2>2. Passes(Counts(k), NewMerged(NewCounts(k)), NewAwaited(k, NewUncounted),
               Merged(Counts(k)), AwaitedCounts(k))
    <3>1. NewAwaited(k, NewUncounted) = AwaitedCounts(k)
      BY <1>2, <1>3, <1>9, <1>10, AwaitedStep DEF SameTask, AwaitedCounts
    <3>2. QED
      BY <1>5, <2>1, <3>1 DEF Passes
  <2>3. PICK S, S1 : S = Awaited(k, Range(ctl.av)) /\ S1 = NewAwaited(k, Range(Tail(ctl.av)))
    OBVIOUS
  <2>4. CASE k = Key(h)
    <3>1. Unread(k, Range(ctl.av)) /\ ~NewUnread(k, Range(Tail(ctl.av)))
      BY <1>7, <1>10, <2>4
    <3>2. Current \in S /\ S1 = S \ {Current}
      BY <1>2, <1>3, <2>3, <3>1, AwaitedStep DEF SameTask
    <3>3. QED
      BY <1>5, <1>9, <2>1, <2>2, <2>3, <2>4, <3>2 DEF Passes, AwaitedTimes
  <2>5. CASE k # Key(h)
    <3>1. NewUnread(k, Range(Tail(ctl.av))) <=> Unread(k, Range(ctl.av))
      BY <1>7, <1>10, <2>5
    <3>2. S1 = S
      BY <1>2, <1>3, <2>3, <3>1, AwaitedStep DEF SameTask
    <3>3. QED
      BY <1>5, <1>9, <2>1, <2>2, <2>3, <2>5, <3>2 DEF Passes, AwaitedTimes
  <2>6. QED
    BY <2>4, <2>5
<1>12. Bracketing'
  BY <1>1, <1>5, <1>11, BracketingPasses DEF Reporting
<1>13. QED
  BY <1>1, <1>2, <1>3, <1>5, <1>6, <1>12, ReportStep DEF Control, SameTask, Resetting

(* With its records merged, a table has been read; the next one has not. *)
LEMMA ReportingMergeHist ==
    ASSUME Basics, Placed, Safe, Listing, Reporting, ctl.kind = "report", MergeHist
    PROVE  Reporting'
<1>1. /\ ctl.pc = "record" /\ ctl.av = <<>> /\ ctl' = NextTable(ctl)
      /\ UNCHANGED <<made, begun, since, table, rec>>
  BY DEF MergeHist, history, memory
<1>2. ctl \in Controls /\ ctl.todo # <<>> /\ ~Resetting /\ ctl.todo \in Seq(Threads)
  BY <1>1, AtWork, ListedThreads
<1>3. /\ ctl'.kind = "report" /\ ctl'.todo = Tail(ctl.todo) /\ ctl'.av = <<>>
      /\ ctl'.pc = IF Tail(ctl.todo) = <<>> THEN "end" ELSE "alloc"
  BY <1>1, <1>2, TableMoves
<1>4. SameReadings /\ RankReadings
  BY <1>1, PlainReadings
<1>5. Gathered'
  BY <1>3 DEF Gathered, Distinct
<1>6. ~Resetting'
  BY <1>3 DEF Resetting
<1>7. ASSUME NEW k \in Keys
      PROVE  /\ NewAwaited(k, NewUncounted) = AwaitedCounts(k)
             /\ NewAwaited(k, Range(ctl'.av)) = AwaitedTimes(k)
  <2>1. UncountedRecords = {} /\ NewUncounted = {} /\ Range(ctl.av) = {} /\ Range(ctl'.av) = {}
    BY <1>1, <1>3 DEF UncountedRecords, NewUncounted, Range
  <2>2. Awaited(k, {}) = Range(Tail(ctl.todo))
    BY <1>1, <1>2 DEF Awaited, Unread
  <2>3. NewAwaited(k, {}) = Range(Tail(ctl.todo))
    <3>1. CASE Tail(ctl.todo) = <<>>
      BY <1>3, <3>1 DEF NewAwaited, Range
    <3>2. CASE Tail(ctl.todo) # <<>>
      <4>1. PICK s \in Seq(Threads) : s = Tail(ctl.todo)
        BY <1>2, TailFacts
      <4>2. Distinct(s)
        BY <1>2, <4>1, DistinctTail DEF Listing
      <4>3. Head(s) \in Range(s) /\ Range(Tail(s)) = Range(s) \ {Head(s)}
        BY <3>2, <4>1, <4>2, DistinctTail
      <4>4. NewAwaited(k, {}) = Range(Tail(s)) \cup {Head(s)}
        BY <1>3, <3>2, <4>1 DEF NewAwaited, NewUnread
      <4>5. QED
        BY <4>1, <4>3, <4>4
    <3>3. QED
      BY <3>1, <3>2
  <2>4. QED
    BY <2>1, <2>2, <2>3 DEF AwaitedCounts, AwaitedTimes
<1>8. ASSUME NEW k \in Keys
      PROVE  /\ NewMerged(NewCounts(k)) = Merged(Counts(k))
             /\ NewMerged(NewTimes(k)) = Merged(Times(k))
  BY <1>1, <1>3, <1>4 DEF NewMerged, Merged, RankReadings
<1>9. Bracketing'
  BY <1>1, <1>4, <1>7, <1>8, BracketingPasses DEF Reporting, Passes
<1>10. QED
  BY <1>1, <1>2, <1>4, <1>5, <1>6, <1>9, ReportStep DEF Control

LEMMA ReportingControl ==
    ASSUME Basics, Placed, Safe, Listing, Reporting, Control
    PROVE  Reporting'
<1>1. CASE StartReport
  BY <1>1, ReportingStart
<1>2. CASE StartReset
  BY <1>2, ReportingStartReset
<1>3. CASE EndControl
  BY <1>3, ReportingEnd
<1>4. CASE ~(StartReport \/ StartReset \/ EndControl)
  <2>1. ctl.pc \notin {"idle", "end"}
    BY <1>4 DEF Control, DrainRank, GatherAlloc, GatherChain, FreeChain, ZeroCount,
         ReleaseRecords, FindInRank, InsertInRank, MergeCount, MergeTime, MergeHist
  <2>2. CASE Resetting
    BY <2>1, <2>2, ReportingReset
  <2>3. CASE ~Resetting
    <3>1. ctl.kind = "report"
      BY <2>1, <2>3 DEF Basics, Types, Controls, Stands, Resetting
    <3>2. ~FreeChain /\ ~ZeroCount /\ ~ReleaseRecords
      BY <2>3 DEF FreeChain, ZeroCount, ReleaseRecords, Basics, Stands, Resetting, Draining
    <3>3. QED
      BY <1>4, <3>1, <3>2, ReportingDrain, ReportingAlloc, ReportingGather, ReportingFind,
         ReportingMergeCount, ReportingMergeTime, ReportingMergeHist DEF Control
  <2>4. QED
    BY <2>2, <2>3
<1>5. QED
  BY <1>1, <1>2, <1>3, <1>4

LEMMA ReportingUnchanged ==
    ASSUME Basics, Placed, Reporting, UNCHANGED vars
    PROVE  Reporting'
<1>1. /\ UNCHANGED <<table, rec, op, ctl, begun, made, since>>
  BY DEF vars, memory, opVars, history
<1>2. SameReadings /\ RankReadings
  BY <1>1, PlainReadings
<1>3. Totals'
  <2>1. CASE Resetting
    BY <1>1, <2>1 DEF Totals, Resetting
  <2>2. CASE ~Resetting
    BY <1>1, <1>2, <2>2, TotalsKept DEF Reporting
  <2>3. QED
    BY <2>1, <2>2
<1>4. Bracketing'
  <2>1. \A k \in Keys : /\ NewAwaited(k, NewUncounted) = AwaitedCounts(k)
                        /\ NewAwaited(k, Range(ctl'.av)) = AwaitedTimes(k)
    BY <1>1 DEF NewAwaited, NewUncounted, NewUnread, NewKey, AwaitedCounts, AwaitedTimes,
       Awaited, UncountedRecords, Unread, Key, Current
  <2>2. \A k \in Keys : /\ NewMerged(NewCounts(k)) = Merged(Counts(k))
                        /\ NewMerged(NewTimes(k)) = Merged(Times(k))
    BY <1>1, <1>2 DEF NewMerged, Merged, RankReadings
  <2>3. CASE ctl.kind = "report"
    BY <1>1, <1>2, <2>1, <2>2, <2>3, BracketingPasses DEF Reporting, Passes
  <2>4. CASE ctl.kind # "report"
    BY <1>1, <2>4 DEF Bracketing
  <2>5. QED
    BY <2>3, <2>4
<1>5. Fresh' /\ Emptying' /\ Gathered'
  BY <1>1 DEF Reporting, Fresh, Emptying, Gathered, Loose, Resetting, Key
<1>6. QED
  BY <1>3, <1>4, <1>5 DEF Reporting

LEMMA ReportingInit == Init => Reporting
<1>1. SUFFICES ASSUME Init
               PROVE  Reporting
  OBVIOUS
<1>2. /\ \A t \in Tables : table[t] = Open(TableSize)
      /\ ctl.kind = "none" /\ begun = Zero /\ made = Zero
      /\ \A t \in Threads : op[t].pc = "idle"
  BY <1>1 DEF Init, CtlIdle, Idle
<1>3. \A t \in Tables : Entries(table[t]) = {}
  BY <1>2, OpenFacts
<1>4. ASSUME NEW k \in Keys
      PROVE  /\ \A t \in Threads :
                  Counts(k)[t] = Times(k)[t] + IF op[t].pc = "time" /\ op[t].key = k THEN 1 ELSE 0
             /\ made[k] = SumFunctionOnSet(Times(k), Threads)
             /\ begun[k] = SumFunctionOnSet(Counts(k), Threads)
                               + SumFunctionOnSet(Flights(k), Threads)
  <2>1. \A t \in Tables : With(table[t], rec, k) = {}
    BY <1>3 DEF With
  <2>2. \A t \in Threads : Counts(k)[t] = 0 /\ Times(k)[t] = 0 /\ Flights(k)[t] = 0
    BY <1>2, <2>1 DEF Counts, Times, CountAt, TimeAt, Flights, Flying, Tables
  <2>3. /\ SumFunctionOnSet(Counts(k), Threads) = 0 /\ SumFunctionOnSet(Times(k), Threads) = 0
        /\ SumFunctionOnSet(Flights(k), Threads) = 0
    BY <2>2, TablesAssumption, SumZero
  <2>4. begun[k] = 0 /\ made[k] = 0
    BY <1>2 DEF Zero
  <2>5. QED
    BY <1>2, <2>2, <2>3, <2>4
<1>5. QED
  BY <1>2, <1>4 DEF Reporting, Fresh, Totals, Emptying, Gathered, Bracketing, Loose, Linking,
                    Resetting

LEMMA ReportingInvariant == Spec => [](discipline # "free" => Reporting)
<1> DEFINE I == discipline # "free" => Reporting
           J == Basics /\ Placed /\ (discipline # "free" => Safe) /\ Listing
<1>1. Init => I
  BY ReportingInit
<1>2. J /\ I /\ [Next]_vars => I'
  <2>1. SUFFICES ASSUME J, I, [Next]_vars, discipline' # "free"
                 PROVE  Reporting'
    OBVIOUS
  <2>2. discipline # "free" /\ Safe /\ Reporting
    BY <2>1, DisciplineKept
  <2>3. CASE Next
    BY <2>1, <2>2, <2>3, ReportingUpdate, ReportingControl DEF Next
  <2>4. CASE UNCHANGED vars
    BY <2>1, <2>2, <2>4, ReportingUnchanged
  <2>5. QED
    BY <2>1, <2>3, <2>4
<1>3. Spec => []J
  BY PlacedInvariant, SafeInvariant, HistInvariant, PTL
<1>4. QED
  BY <1>1, <1>2, <1>3, PTL DEF Spec

(* What a search finds in the table of the rank is what the table shows.   *)
LEMMA ShownByRank ==
    ASSUME Basics, Placed, NEW k \in Keys
    PROVE  RankCount(k) = Counts(k)[Rank] /\ RankTime(k) = Times(k)[Rank]
<1>1. Rank \in Tables
  BY DEF Tables
<1>2. CASE Lookup(Rank, k) = 0
  BY <1>1, <1>2, LookupMisses, Reading DEF RankCount, RankTime, InRank, Basics
<1>3. CASE Lookup(Rank, k) # 0
  BY <1>1, <1>3, LookupFinds, Reading DEF RankCount, RankTime, InRank, Basics
<1>4. QED
  BY <1>2, <1>3

(* Where MPI_Pcontrol(2) is kept apart from the calls of other threads, a  *)
(* report that runs beside such calls, with no lock on any table, shows    *)
(* for each callsite at least the calls recorded when it began and at most *)
(* those begun by its end, in its count and in its time                    *)
(* (mpiPi_stats_mt_merge, mpiPi_stats_thr_cs_upd).                         *)
THEOREM ReportsBracketed == Spec => [](discipline # "free" => ReportBracketed)
<1>1. Basics /\ Placed /\ Listing /\ (discipline # "free" => Reporting)
          => (discipline # "free" => ReportBracketed)
  <2>1. SUFFICES ASSUME Basics, Placed, Listing, Reporting, ctl.pc = "end", ctl.kind = "report",
                        NEW k \in Keys
                 PROVE  /\ RankCount(k) \in since.made[k] .. begun[k]
                        /\ RankTime(k) \in since.made[k] .. begun[k]
    BY DEF ReportBracketed, ReportEnds
  <2>2. /\ AwaitedCounts(k) = {} /\ AwaitedTimes(k) = {}
        /\ Merged(Counts(k)) = Counts(k)[Rank] /\ Merged(Times(k)) = Times(k)[Rank]
    BY <2>1 DEF Listing, AwaitedCounts, AwaitedTimes, Awaited, Merged
  <2>3. PICK c, d, low : /\ c = Counts(k)[Rank] /\ d = Times(k)[Rank] /\ low = since.made[k]
    OBVIOUS
  <2>4. /\ Bracketed(Counts(k), c, {}, low) /\ Bracketed(Times(k), d, {}, low)
        /\ c \in Nat /\ d \in Nat /\ low \in Nat
    BY <2>1, <2>2, <2>3, BracketingOf DEF Reporting
  <2>5. /\ low <= c /\ c <= SumFunctionOnSet(Counts(k), Threads)
        /\ low <= d /\ d <= SumFunctionOnSet(Times(k), Threads)
    BY <2>4, SumEmpty DEF Bracketed
  <2>6. /\ SumFunctionOnSet(Times(k), Threads) <= SumFunctionOnSet(Counts(k), Threads)
        /\ SumFunctionOnSet(Counts(k), Threads) <= begun[k]
        /\ SumFunctionOnSet(Times(k), Threads) \in Nat
        /\ SumFunctionOnSet(Counts(k), Threads) \in Nat /\ begun[k] \in Nat
    BY <2>1, TimesBelow DEF Reporting, Resetting, Basics, Types
  <2>7. c <= begun[k] /\ d <= begun[k]
    BY <2>4, <2>5, <2>6
  <2>8. QED
    BY <2>1, <2>3, <2>4, <2>5, <2>6, <2>7, ShownByRank
<1>2. QED
  BY <1>1, PlacedInvariant, HistInvariant, ReportingInvariant, PTL
=============================================================================
