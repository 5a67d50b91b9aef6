---------------------------- MODULE Configuration ----------------------------
(***************************************************************************)
(* The two implementations of elap::config::IConfiguration on one file:    *)
(* KeyValueConfiguration, which keeps what it parsed in memory, and        *)
(* DatabaseConfiguration, which puts it into its store and can change it   *)
(* there.  Both read the file line by line into a temporary collection and *)
(* give up at the first line that does not parse.  A read of the store may *)
(* fail at any time, and the getters of the second have no way to say so.  *)
(* A text is one of a few values that the conversions tell apart.          *)
(***************************************************************************)
EXTENDS Naturals, Sequences

CONSTANTS
  Key,
  File,        \* the names of the contents the file may have
  Content,     \* the Lines of each, comments and blanks around text removed
  NoFile, NoText

Reader == {"memory", "database"}
Text == {"yes", "off", "1", "0", "12x"}
Pair(k, text) == [kind |-> "pair", key |-> k, value |-> text]
OtherLine(kind) == [kind |-> kind, key |-> "", value |-> NoText]
Lines == {Pair(k, text) : k \in Key, text \in Text}
         \cup {OtherLine(kind) : kind \in {"empty", "no_separator", "empty_key"}}

VARIABLES
  onDisk,      \* what the configuration file holds
  values,      \* values_ of the one, the rows of the other
  parsed,      \* what the loadFromFile() of each has collected
  at,          \* the next line it reads; 0 outside of the call
  last,        \* what each loadFromFile() returned last
  source,      \* history: the file each key of each was last loaded from
  cut          \* history: a read of the file has failed in this load

vars == <<onDisk, values, parsed, at, last, source, cut>>

Nothing == [k \in Key |-> NoText]

TypeOK ==
  /\ onDisk \in File
  /\ values \in [Reader -> [Key -> Text \cup {"true", "false", NoText}]]
  /\ \A r \in Reader : /\ parsed[r] \in Seq(Lines)
                       /\ at[r] \in 0 .. Len(Content[onDisk]) + 1
                       /\ Len(parsed[r]) <= at[r]
  /\ last \in [Reader -> BOOLEAN]
  /\ source \in [Reader -> [Key -> File \cup {NoFile}]]
  /\ cut \in [Reader -> BOOLEAN]

Init ==
  /\ onDisk \in File
  /\ values = [r \in Reader |-> Nothing]
  /\ parsed = [r \in Reader |-> <<>>]
  /\ at = [r \in Reader |-> 0]
  /\ last = [r \in Reader |-> FALSE]
  /\ source = [r \in Reader |-> [k \in Key |-> NoFile]]
  /\ cut = [r \in Reader |-> FALSE]
-----------------------------------------------------------------------------
\* loadFromFile()

BeginLoad(r) ==
  /\ at[r] = 0
  /\ at' = [at EXCEPT ![r] = 1]
  /\ parsed' = [parsed EXCEPT ![r] = <<>>]
  /\ cut' = [cut EXCEPT ![r] = FALSE]
  /\ UNCHANGED <<onDisk, values, last, source>>

\* The file is not there, or may not be read.
CannotOpen(r) ==
  /\ at[r] = 0
  /\ last' = [last EXCEPT ![r] = FALSE]
  /\ UNCHANGED <<onDisk, values, parsed, at, source, cut>>

LoadReturns(r, ok) ==
  /\ at' = [at EXCEPT ![r] = 0]
  /\ parsed' = [parsed EXCEPT ![r] = <<>>]
  /\ last' = [last EXCEPT ![r] = ok]

NextLine(r) == Content[onDisk][at[r]]

HasLine(r) == at[r] \in 1 .. Len(Content[onDisk])

\* Mutant of ReadPair: the pair goes into values_ at once.
ReadPairInPlace(r) ==
  /\ HasLine(r)
  /\ NextLine(r).kind = "pair"
  /\ values' = [values EXCEPT ![r][NextLine(r).key] = NextLine(r).value]
  /\ parsed' = [parsed EXCEPT ![r] = Append(@, NextLine(r))]
  /\ at' = [at EXCEPT ![r] = @ + 1]
  /\ UNCHANGED <<onDisk, last, source, cut>>

ReadPair(r) ==
  /\ HasLine(r)
  /\ NextLine(r).kind = "pair"
  /\ parsed' = [parsed EXCEPT ![r] = Append(@, NextLine(r))]
  /\ at' = [at EXCEPT ![r] = @ + 1]
  /\ UNCHANGED <<onDisk, values, last, source, cut>>

SkipLine(r) ==
  /\ HasLine(r)
  /\ NextLine(r).kind = "empty"
  /\ at' = [at EXCEPT ![r] = @ + 1]
  /\ UNCHANGED <<onDisk, values, parsed, last, source, cut>>

RefuseLine(r) ==
  /\ HasLine(r)
  /\ NextLine(r).kind \in {"no_separator", "empty_key"}
  /\ LoadReturns(r, FALSE)
  /\ UNCHANGED <<onDisk, values, source, cut>>

\* getline() fails in the middle of the file (a directory opens and fails at
\* its first line): the loop ends as at the end of the file.
ReadFails(r) ==
  /\ HasLine(r)
  /\ at' = [at EXCEPT ![r] = Len(Content[onDisk]) + 1]
  /\ cut' = [cut EXCEPT ![r] = TRUE]
  /\ UNCHANGED <<onDisk, values, parsed, last, source>>

AtEnd(r) == at[r] = Len(Content[onDisk]) + 1

\* The last of several lines for one key counts.
LastText(pairs, k, otherwise) ==
  LET mine == {i \in 1 .. Len(pairs) : pairs[i].key = k} IN
  IF mine = {} THEN otherwise
  ELSE pairs[CHOOSE i \in mine : \A j \in mine : j <= i].value

\* The keys of a load that succeeds come from that file; those of memory that
\* the file does not name are gone, those of the database stay.
LoadSucceeds(r, old) ==
  /\ AtEnd(r)
  /\ values' = [values EXCEPT ![r] = [k \in Key |-> LastText(parsed[r], k, old[k])]]
  /\ source' = [source EXCEPT ![r] =
       [k \in Key |-> IF \E i \in 1 .. Len(parsed[r]) : parsed[r][i].key = k
                      THEN IF cut[r] THEN NoFile ELSE onDisk
                      ELSE IF old[k] = NoText THEN NoFile ELSE @[k]]]
  /\ LoadReturns(r, TRUE)
  /\ UNCHANGED <<onDisk, cut>>

\* values_ = std::move(parsedValues)
Replace == LoadSucceeds("memory", Nothing)

\* Mutant of Merge: INSERT OR IGNORE.
MergeIgnoring ==
  /\ AtEnd("database")
  /\ values' = [values EXCEPT !["database"] =
       [k \in Key |-> IF @[k] # NoText THEN @[k] ELSE LastText(parsed["database"], k, NoText)]]
  /\ source' = [source EXCEPT !["database"] =
       [k \in Key |-> IF \E i \in 1 .. Len(parsed["database"]) : parsed["database"][i].key = k
                      THEN onDisk ELSE @[k]]]
  /\ LoadReturns("database", TRUE)
  /\ UNCHANGED <<onDisk, cut>>

\* store_.putAll(): all pairs, in the order of the file, or none.
Merge == LoadSucceeds("database", values["database"])

MergeFails ==
  /\ AtEnd("database")
  /\ LoadReturns("database", FALSE)
  /\ UNCHANGED <<onDisk, values, source, cut>>
-----------------------------------------------------------------------------
\* setString(), setInt(), setBool() and remove() of DatabaseConfiguration.

Store(k, text) ==
  /\ at["database"] = 0
  /\ values' = [values EXCEPT !["database"][k] = text]
  /\ source' = [source EXCEPT !["database"][k] = NoFile]
  /\ UNCHANGED <<onDisk, parsed, at, last, cut>>

SetString(k, text) == Store(k, text)
SetInt(k, n) == Store(k, IF n = 0 THEN "0" ELSE "1")
SetBool(k, b) == Store(k, IF b THEN "true" ELSE "false")
RemoveKey(k) == Store(k, NoText)

\* Somebody writes the file, at a time when nobody reads it.
Edit(f) ==
  /\ \A r \in Reader : at[r] = 0
  /\ onDisk' = f
  /\ UNCHANGED <<values, parsed, at, last, source, cut>>

Next ==
  \/ \E r \in Reader : \/ CannotOpen(r) \/ BeginLoad(r) \/ ReadPair(r) \/ SkipLine(r)
                       \/ RefuseLine(r) \/ ReadFails(r)
  \/ Replace \/ Merge \/ MergeFails
  \/ \E k \in Key : \/ \E text \in Text : SetString(k, text)
                    \/ \E n \in 0 .. 1 : SetInt(k, n)
                    \/ \E b \in BOOLEAN : SetBool(k, b)
                    \/ RemoveKey(k)
  \/ \E f \in File : Edit(f)

Spec == Init /\ [][Next]_vars
-----------------------------------------------------------------------------
\* The getters of both classes.  The whole text must be a number, and a truth
\* value one of eight words, or the caller's default is returned.  read is
\* whether the store answers this call: it may be busy, closed or broken, which
\* to the getters is the same as a key that it does not have.
Found(r, k, read) == IF r = "database" /\ ~read THEN NoText ELSE values[r][k]
Has(r, k, read) == Found(r, k, read) # NoText
GetString(r, k, otherwise, read) ==
  IF Has(r, k, read) THEN Found(r, k, read) ELSE otherwise
GetInt(r, k, otherwise, read) ==
  CASE Found(r, k, read) = "0" -> 0
    [] Found(r, k, read) = "1" -> 1
    [] OTHER -> otherwise
GetBool(r, k, otherwise, read) ==
  CASE Found(r, k, read) \in {"true", "1", "yes"} -> TRUE
    [] Found(r, k, read) \in {"false", "0", "off"} -> FALSE
    [] OTHER -> otherwise

\* Every getter gives the same answer, whether or not the caller has a default.
AnswersAlike(k) ==
  /\ Has("memory", k, TRUE) = Has("database", k, TRUE)
  /\ \A d \in Text : GetString("memory", k, d, TRUE) = GetString("database", k, d, TRUE)
  /\ \A d \in {0, 7} : GetInt("memory", k, d, TRUE) = GetInt("database", k, d, TRUE)
  /\ \A d \in BOOLEAN : GetBool("memory", k, d, TRUE) = GetBool("database", k, d, TRUE)

\* A failing read is answered by the default, as if the key were in no file.
FailsToDefault(k) ==
  /\ ~Has("database", k, FALSE)
  /\ \A d \in Text : GetString("database", k, d, FALSE) = d
  /\ \A d \in {0, 7} : GetInt("database", k, d, FALSE) = d
  /\ \A d \in BOOLEAN : GetBool("database", k, d, FALSE) = d

\* Two services configured by the same file behave alike, whichever
\* implementation they read it through: a key that both have from a file they
\* read to its end answers alike in every type, lines that repeat a key
\* included.  The one exception is a read of the store that fails: the caller
\* then gets its default, and cannot tell it from an answer.
SameAnswers ==
  \A k \in Key :
    /\ FailsToDefault(k)
    /\ source["memory"][k] = source["database"][k] /\ source["memory"][k] # NoFile
         => AnswersAlike(k)

WellFormed(f) ==
  \A i \in 1 .. Len(Content[f]) : Content[f][i].kind \in {"pair", "empty"}

\* A load that was not cut short changes the values at its very end, and only
\* for a file whose every line parses: a reload with a broken file leaves a
\* running service with the configuration it had.
WholeFilesOnly ==
  [][\A r \in Reader :
       at[r] # 0 /\ values'[r] # values[r] => at'[r] = 0 /\ (WellFormed(onDisk) \/ cut[r])]_vars

\* What memory holds is one file's and nothing older: no key of an earlier
\* file survives a reload.
MemoryFromOneFile ==
  \E f \in File \cup {NoFile} : \A k \in Key : source["memory"][k] \in {f, NoFile}

\* What the two of them hold is right in type, in meaning and in origin.
ConfiguredAlike == TypeOK /\ SameAnswers /\ MemoryFromOneFile
=============================================================================
