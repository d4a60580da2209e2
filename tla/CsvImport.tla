------------------------------- MODULE CsvImport -------------------------------
(***************************************************************************)
(* What an uploaded CSV file makes of the leads table: the keys that its   *)
(* rows get, the address that survives, and the rows that are upserted.    *)
(***************************************************************************)
EXTENDS Naturals, Sequences, Functions

CONSTANTS
  Files,         \* the files an operator may upload
  Joined(_, _),  \* the key of a website and an address, f"{w}_{e}"
  Indexed(_),    \* the key of a row number, f"idx_{i}"
  NULL

(* The columns of which the key is made, under headers that csv_helper     *)
(* recognises, and a second address, under a header that only the AI       *)
(* mapper does.  mailFirst: the second address stands left of the first.   *)
Columns == {"key", "site", "name", "email", "mail"}

ASSUME FilesAssumption ==
  \A file \in Files :
    file.mailFirst \in BOOLEAN /\ \A i \in DOMAIN file.rows : DOMAIN file.rows[i] = Columns
-----------------------------------------------------------------------------
(* generate_row_key, for the row at an index.  All keys are strings of one *)
(* column: a website, a name, and what is made of others.                  *)
RowKey(row, i) ==
  IF row.site # NULL /\ row.email # NULL THEN Joined(row.site, row.email)
  ELSE IF row.site # NULL THEN row.site
  ELSE IF row.name # NULL THEN row.name
  ELSE Indexed(i)

(* load_csv_with_unique_key runs before the mapper.  It generates keys     *)
(* only for a file that has none.                                          *)
KeysOf(file) ==
  LET given == {i \in DOMAIN file.rows : file.rows[i].key # NULL}
  IN  [i \in DOMAIN file.rows |->
        IF given = {} THEN RowKey(file.rows[i], i) ELSE file.rows[i].key]

(* A row without a key fails the statement, and with it the upload. *)
Accepted(file) == NULL \notin Range(KeysOf(file))

(* _coalesce_duplicate_columns, if the mapper answers: of the columns that *)
(* are now called email, the first that has a value in this row.           *)
Address(file, row, mapped) ==
  LET first == IF file.mailFirst THEN row.mail ELSE row.email
      second == IF file.mailFirst THEN row.email ELSE row.mail
  IN  IF ~mapped THEN row.email ELSE IF first # NULL THEN first ELSE second

(* Of the rows with one key, the last. *)
Lasts(file) ==
  LET keys == KeysOf(file)
  IN  {i \in DOMAIN keys : \A j \in DOMAIN keys : j > i => keys[j] # keys[i]}

LastRow(file, key) == file.rows[CHOOSE i \in Lasts(file) : KeysOf(file)[i] = key]

(* The rows upserted. *)
Imported(file, mapped) ==
  [k \in {KeysOf(file)[i] : i \in Lasts(file)} |->
    [email |-> Address(file, LastRow(file, k), mapped)]]

(* The keys that are not made of the website and the stored address. *)
Misnamed(file, mapped) ==
  LET rows == Imported(file, mapped)
  IN  {k \in DOMAIN rows :
         ~(rows[k].email # NULL /\ k = Joined(LastRow(file, k).site, rows[k].email))}
=============================================================================
