----------------------------- MODULE StoreText -----------------------------
(***************************************************************************)
(* What elap::storage::PersistentStore keeps of the bytes of a key and of  *)
(* a value.  put(), get(), has(), remove() and getBlob() bind C strings,   *)
(* which end at the first zero byte; putBlob() binds its key and its data  *)
(* with their sizes; get() and keys() build their results from C strings.  *)
(* Locks, failures and other processes are PersistentStore and StoreCalls. *)
(***************************************************************************)
EXTENDS Naturals, Sequences, FiniteSets

CONSTANTS
  Key,         \* the std::string keys callers use
  Text,        \* the std::string values of put()
  Blob,        \* the data of putBlob()
  LengthLimit, \* SQLite refuses a longer text or blob
  BatchSize    \* the pairs of a putAll(); a bound

VARIABLES
  rows,        \* kv_store: the stored bytes of a key -> those of its value
  written      \* history: what the caller last wrote and has not removed

vars == <<rows, written>>

NulFree(s) == \A i \in DOMAIN s : s[i] # 0

\* The bytes before the first zero: what a C string keeps of a std::string.
CString(s) ==
  SubSeq(s, 1, CHOOSE n \in 0 .. Len(s) :
                 /\ \A i \in 1 .. n : s[i] # 0
                 /\ n < Len(s) => s[n + 1] = 0)

\* SQLite's BINARY collation: memcmp(), and then the shorter first.
Before(s, t) ==
  \E n \in 0 .. Len(s) :
    /\ n < Len(t)
    /\ \A i \in 1 .. n : s[i] = t[i]
    /\ n < Len(s) => s[n + 1] < t[n + 1]

Fits(s) == Len(s) <= LengthLimit

\* f with the pairs of a sequence, of which the later replace the earlier.
Override(f, pairs) ==
  LET Of(x) == {i \in DOMAIN pairs : pairs[i][1] = x}
  IN  [x \in DOMAIN f \cup {pairs[i][1] : i \in DOMAIN pairs} |->
         IF Of(x) = {} THEN f[x]
         ELSE pairs[CHOOSE i \in Of(x) : \A j \in Of(x) : j <= i][2]]

Without(f, k) == [x \in DOMAIN f \ {k} |-> f[x]]
Empty == [k \in {} |-> <<>>]

TypeOK ==
  /\ \A k \in DOMAIN rows : k \in Key \cup {CString(x) : x \in Key}
  /\ \A k \in DOMAIN rows : rows[k] \in Blob \cup {CString(t) : t \in Text}
  /\ DOMAIN written \subseteq Key
  /\ \A k \in DOMAIN written : written[k] \in Blob \cup Text

Init == rows = Empty /\ written = Empty
-----------------------------------------------------------------------------
Put(k, v) ==
  /\ Fits(CString(k)) /\ Fits(CString(v))
  /\ rows' = Override(rows, <<<<CString(k), CString(v)>>>>)
  /\ written' = Override(written, <<<<k, v>>>>)

PutBlob(k, b) ==
  /\ Fits(k) /\ Fits(b)
  /\ rows' = Override(rows, <<<<k, b>>>>)
  /\ written' = Override(written, <<<<k, b>>>>)

\* Mutant of PutAll: a pair whose key is there already is left out.
PutAllNew(pairs) ==
  /\ \A i \in DOMAIN pairs : Fits(CString(pairs[i][1])) /\ Fits(CString(pairs[i][2]))
  /\ rows' = [x \in DOMAIN rows \cup {CString(pairs[i][1]) : i \in DOMAIN pairs} |->
                IF x \in DOMAIN rows THEN rows[x]
                ELSE CString(pairs[CHOOSE i \in DOMAIN pairs : CString(pairs[i][1]) = x][2])]
  /\ written' = Override(written, pairs)

\* putAll(), once it has committed.
PutAll(pairs) ==
  /\ \A i \in DOMAIN pairs : Fits(CString(pairs[i][1])) /\ Fits(CString(pairs[i][2]))
  /\ rows' = Override(rows, [i \in DOMAIN pairs |->
                               <<CString(pairs[i][1]), CString(pairs[i][2])>>])
  /\ written' = Override(written, pairs)

Remove(k) ==
  /\ rows' = Without(rows, CString(k))
  /\ written' = Without(written, k)

Clear == rows' = Empty /\ written' = Empty

Next ==
  \/ \E k \in Key : (\E v \in Text : Put(k, v)) \/ (\E b \in Blob : PutBlob(k, b))
  \/ \E pairs \in [1 .. BatchSize -> Key \X Text] : PutAll(pairs)
  \/ \E k \in Key : Remove(k)
  \/ Clear

Spec == Init /\ [][Next]_vars
-----------------------------------------------------------------------------
Has(k) == CString(k) \in DOMAIN rows
GetBlob(k) == rows[CString(k)]

\* sqlite3_column_text() casts the blob, and the std::string ends at a zero.
Get(k) == CString(rows[CString(k)])

Keys ==
  LET listing == CHOOSE l \in [1 .. Cardinality(DOMAIN rows) -> DOMAIN rows] :
                   \A i, j \in DOMAIN l : i < j => Before(l[i], l[j])
  IN  [i \in DOMAIN listing |-> CString(listing[i])]

\* Each key is there if and only if its caller has written it and not removed
\* it, and reads back byte for byte as a blob, up to the first zero as a text:
\* no call on one key disturbs another.
WrittenIsRead ==
  \A k \in Key :
    /\ Has(k) <=> k \in DOMAIN written
    /\ k \in DOMAIN written => GetBlob(k) = written[k] /\ Get(k) = CString(written[k])

\* keys() lists the keys that have been written, each once and in order.
KeysListed ==
  LET listing == Keys
  IN  /\ {listing[i] : i \in DOMAIN listing} = DOMAIN written
      /\ \A i, j \in DOMAIN listing : i < j => Before(listing[i], listing[j])

\* What is stored is what callers gave, in every way of reading it.
TextsKept == TypeOK /\ WrittenIsRead /\ KeysListed
=============================================================================
