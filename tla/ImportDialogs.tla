--------------------------- MODULE ImportDialogs ---------------------------
(***************************************************************************)
(* The two YNAB import dialogs and the reading of the exported files: a    *)
(* line of characters into fields, the fields into rows, the rows into a   *)
(* preview and, for transactions, onto accounts and categories.            *)
(***************************************************************************)
EXTENDS Naturals, Sequences, SequencesExt

CONSTANTS
    Kinds,          \* "transactions", "categories"
    Files,          \* [lines, rows]: the lines without the heading, the fields behind each
    Chars, Quote, Comma, Space,
    Width,          \* the columns that are read
    Layout,         \* kind |-> the columns of group and category, those a row must have
    AccountScopes,  \* account |-> its scope
    NamedGroups,    \* group name |-> [scope, categories]
    AccountOf,      \* account name |-> the account that has it
    NoAccount, Skip, NoFile, NoCategory,
    MaxReads        \* bound on the files chosen

VARIABLES
    kind,           \* which dialog is open
    listsHere,      \* the accounts and groups have been fetched
    reading,        \* the readers at work: [file, knew], the lists as its closure has them
    source,         \* the file behind the preview
    parsed,         \* its rows, each the fields of a line
    knewLists,      \* the lists had been fetched when the file of the rows was chosen
    mapping,        \* account name |-> account, Skip, or NoAccount
    step,
    importCall,     \* the import in flight: what it sends
    reads

importVars == <<kind, listsHere, reading, source, parsed, knewLists, mapping, step, importCall, reads>>

-----------------------------------------------------------------------------
Is(line, i, char) == i \in DOMAIN line /\ line[i] = char

\* A field as an exporting program writes it from place i up to place j: bare, or
\* in quotes with every quote in it doubled, the k-th character at place[k].
WrittenBare(line, i, j, field) ==
    /\ j = i + Len(field)
    /\ \A k \in DOMAIN field : line[i + k - 1] = field[k] /\ field[k] # Comma
    /\ field # <<>> => field[1] # Quote
WrittenQuoted(line, i, j, field) ==
    /\ i < j /\ line[i] = Quote /\ line[j - 1] = Quote
    /\ \E place \in [1 .. Len(field) + 1 -> i + 1 .. j - 1] :
        /\ place[1] = i + 1 /\ place[Len(field) + 1] = j - 1
        /\ \A k \in DOMAIN field :
            /\ line[place[k]] = field[k]
            /\ IF field[k] = Quote
               THEN place[k + 1] = place[k] + 2 /\ line[place[k] + 1] = Quote
               ELSE place[k + 1] = place[k] + 1

\* A line has the fields of a row, a comma after each but the last.
WrittenRow(line, row) ==
    \E start \in [1 .. Len(row) + 1 -> 1 .. Len(line) + 2] :
        /\ start[1] = 1 /\ start[Len(row) + 1] = Len(line) + 2
        /\ \A k \in DOMAIN row :
            /\ start[k] < start[k + 1]
            /\ k < Len(row) => Is(line, start[k + 1] - 1, Comma)
            /\ \/ WrittenBare(line, start[k], start[k + 1] - 1, row[k])
               \/ WrittenQuoted(line, start[k], start[k + 1] - 1, row[k])

\* The files are those of an exporting program. A row is a line.
ASSUME ImportAssumption ==
    /\ Quote # Comma /\ NoFile \notin Files /\ MaxReads \in Nat
    /\ \A f \in Files :
        /\ f.lines \in Seq(Seq(Chars)) /\ f.rows \in Seq(Seq(Seq(Chars)))
        /\ Len(f.rows) = Len(f.lines)
        /\ \A n \in 1 .. Len(f.lines) : f.rows[n] # <<>> /\ WrittenRow(f.lines[n], f.rows[n])

-----------------------------------------------------------------------------
\* MUTANT of Quoted: the first quote ends the field, also a doubled one.
QuotedToTheFirst(line) ==
    [i \in 1 .. Len(line) + 1 |->
        LET ends == {k \in i .. Len(line) : line[k] = Quote} \cup {Len(line) + 1}
            end == CHOOSE k \in ends : \A j \in ends : k <= j IN
        [field |-> SubSeq(line, i, end - 1), next |-> end + 1]]

Longer(char, f) == [field |-> <<char>> \o f.field, next |-> f.next]

\* What is left of a quoted field from each place on, and where the field ends.
Quoted(line) ==
    LET rest[i \in 1 .. Len(line) + 1] ==
            IF i > Len(line) THEN [field |-> <<>>, next |-> i]
            ELSE IF line[i] # Quote THEN Longer(line[i], rest[i + 1])
            ELSE IF Is(line, i + 1, Quote) THEN Longer(Quote, rest[i + 2])
            ELSE [field |-> <<>>, next |-> i + 1]
    IN rest

Trim(s) ==
    LET black == {k \in DOMAIN s : s[k] # Space} IN
    IF black = {} THEN <<>>
    ELSE SubSeq(s, CHOOSE k \in black : \A j \in black : k <= j,
                   CHOOSE k \in black : \A j \in black : j <= k)

\* A bare field up to the next comma.
Bare(line, i) ==
    LET ends == {k \in i .. Len(line) : line[k] = Comma} \cup {Len(line) + 1}
        end == CHOOSE k \in ends : \A j \in ends : k <= j IN
    [field |-> Trim(SubSeq(line, i, end - 1)), next |-> end]

FieldAt(line, i) ==
    IF Is(line, i, Quote) THEN Quoted(line)[i + 1] ELSE Bare(line, i)

\* The fields from each place on; one is the last when no comma follows it.
Fields(line) ==
    LET from[i \in 1 .. Len(line) + 1] ==
            LET f == FieldAt(line, i) IN
            IF Is(line, f.next, Comma) THEN <<f.field>> \o from[f.next + 1] ELSE <<f.field>>
    IN from

parseCsvLine(line) == Fields(line)[1]

Columns(fields) == [k \in 1 .. Width |-> IF k \in DOMAIN fields THEN Trim(fields[k]) ELSE <<>>]

\* Rows without an account and a date, or a group and a category, are left out,
\* and with them the blank lines.
KeptRows(k, rows) == SelectSeq(rows, LAMBDA row : \A c \in Layout[k].needed : row[c] # <<>>)

CsvRows(k, lines) == KeptRows(k, [n \in DOMAIN lines |-> Columns(parseCsvLine(lines[n]))])

-----------------------------------------------------------------------------
Closed == "none"

ImportInit ==
    /\ kind = Closed /\ listsHere = FALSE
    /\ reading = {} /\ source = NoFile /\ parsed = <<>> /\ knewLists = FALSE
    /\ mapping = [n \in {} |-> NoAccount]
    /\ step = 1 /\ importCall = NoFile /\ reads = 0

ListsArrive ==
    /\ ~listsHere /\ listsHere' = TRUE
    /\ UNCHANGED <<kind, reading, source, parsed, knewLists, mapping, step, importCall, reads>>

OpenImport(k) ==
    /\ kind = Closed /\ kind' = k
    /\ reading' = {} /\ source' = NoFile /\ parsed' = <<>> /\ knewLists' = FALSE
    /\ mapping' = [n \in {} |-> NoAccount] /\ step' = 1
    /\ UNCHANGED <<listsHere, importCall, reads>>

CloseImport ==
    /\ kind # Closed /\ kind' = Closed
    /\ UNCHANGED <<listsHere, reading, source, parsed, knewLists, mapping, step, importCall, reads>>

\* handleFile: the last file's rows go, its reader goes on.
ChooseFile(f) ==
    /\ kind # Closed /\ step = 1 /\ reads < MaxReads /\ reads' = reads + 1
    /\ reading' = reading \cup {[file |-> f, knew |-> listsHere]}
    /\ source' = NoFile /\ parsed' = <<>> /\ knewLists' = FALSE
    /\ mapping' = [n \in {} |-> NoAccount]
    /\ UNCHANGED <<kind, listsHere, step, importCall>>

Names(rows) == {rows[k][1] : k \in DOMAIN rows}

\* A reader is done, in whatever step the dialog is by then. Account names that
\* an account has, of those listed when the file was chosen, are mapped to it.
FileRead(r) ==
    /\ kind # Closed /\ r \in reading /\ reading' = reading \ {r}
    /\ LET rows == CsvRows(kind, r.file.lines) IN
        IF rows = <<>> THEN UNCHANGED <<source, parsed, knewLists, mapping>>
        ELSE /\ source' = r.file /\ parsed' = rows /\ knewLists' = r.knew
             /\ mapping' = [n \in Names(rows) |-> IF r.knew /\ n \in DOMAIN AccountOf THEN AccountOf[n]
                                           ELSE NoAccount]
    /\ UNCHANGED <<kind, listsHere, step, importCall, reads>>

MapAccount(n, a) ==
    /\ kind = "transactions" /\ step = 1 /\ n \in DOMAIN mapping /\ mapping[n] # a
    /\ a \in DOMAIN AccountScopes => listsHere
    /\ mapping' = [mapping EXCEPT ![n] = a]
    /\ UNCHANGED <<kind, listsHere, reading, source, parsed, knewLists, step, importCall, reads>>

Continue ==
    /\ kind = "transactions" /\ step = 1 /\ parsed # <<>>
    /\ \E n \in DOMAIN mapping : mapping[n] \notin {NoAccount, Skip}
    /\ step' = 2
    /\ UNCHANGED <<kind, listsHere, reading, source, parsed, knewLists, mapping, importCall, reads>>

Back ==
    /\ step = 2 /\ importCall = NoFile /\ step' = 1
    /\ UNCHANGED <<kind, listsHere, reading, source, parsed, knewLists, mapping, importCall, reads>>

GroupIn(row) == row[Layout[kind].group]
CategoryIn(row) == row[Layout[kind].category]
IsCategory(group, name) == group \in DOMAIN NamedGroups /\ name \in NamedGroups[group].categories

\* resolveCategoryId: the category of that name, when the group's scope is the account's.
Resolved(group, name, account) ==
    IF group # <<>> /\ name # <<>> /\ IsCategory(group, name) /\ NamedGroups[group].scope = AccountScopes[account]
    THEN name ELSE NoCategory

\* buildImportRows, in the order of the file.
ImportRows ==
    LET taken == SelectSeq(parsed, LAMBDA row : mapping[row[1]] \in DOMAIN AccountScopes) IN
    [k \in DOMAIN taken |->
        LET account == mapping[taken[k][1]] IN
        [account |-> account, category |-> Resolved(GroupIn(taken[k]), CategoryIn(taken[k]), account)]]

\* buildPreview: the categories that are new by the lists the reader knew, each once.
NewCategories ==
    LET new == SelectSeq(parsed, LAMBDA row : ~(knewLists /\ IsCategory(GroupIn(row), CategoryIn(row))))
        named == [k \in DOMAIN new |-> [group |-> GroupIn(new[k]), category |-> CategoryIn(new[k])]] IN
    SetToSeq(Range(named))

Preview == IF kind = "transactions" THEN ImportRows ELSE NewCategories

SendImport ==
    /\ kind = "transactions" => step = 2
    /\ kind # Closed /\ importCall = NoFile /\ Preview # <<>>
    /\ importCall' = Preview
    /\ UNCHANGED <<kind, listsHere, reading, source, parsed, knewLists, mapping, step, reads>>

\* A success closes the dialog, a failure leaves it.
ImportAnswered(accepted) ==
    /\ importCall # NoFile /\ importCall' = NoFile
    /\ kind' = IF accepted THEN Closed ELSE kind
    /\ UNCHANGED <<listsHere, reading, source, parsed, knewLists, mapping, step, reads>>

ImportNext ==
    \/ ListsArrive \/ CloseImport \/ Continue \/ Back \/ SendImport
    \/ \E k \in Kinds : OpenImport(k)
    \/ \E f \in Files : ChooseFile(f)
    \/ \E r \in reading : FileRead(r)
    \/ \E n \in DOMAIN mapping, a \in DOMAIN AccountScopes \cup {Skip, NoAccount} : MapAccount(n, a)
    \/ \E accepted \in BOOLEAN : ImportAnswered(accepted)

ImportSpec == ImportInit /\ [][ImportNext]_importVars

-----------------------------------------------------------------------------
ImportTypeOK ==
    /\ kind \in Kinds \cup {Closed} /\ listsHere \in BOOLEAN /\ step \in {1, 2}
    /\ reading \subseteq [file : Files, knew : BOOLEAN] /\ source \in Files \cup {NoFile}
    /\ DOMAIN mapping = Names(parsed)
    /\ knewLists \in BOOLEAN /\ (source = NoFile) = (parsed = <<>>)
    /\ reads \in 0 .. MaxReads

\* The rows on the page are the fields the exporting program wrote, without the
\* blanks around them, quoted where it had to, whatever commas, quotes and blanks
\* they have, and belong to one file also when two readers end out of order.
RowsAsWritten ==
    source # NoFile /\ kind # Closed =>
        parsed = KeptRows(kind, [n \in DOMAIN source.rows |-> Columns(source.rows[n])])
=============================================================================
