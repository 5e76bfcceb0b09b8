----------------------------- MODULE Migration -----------------------------
(***************************************************************************)
(* The import of the legacy site (migration/): the export is transformed,  *)
(* loaded in one transaction of upserts beside the running application,    *)
(* checked, and reported on; runs may be repeated.                         *)
(*                                                                         *)
(* A source row has its kind, its id, the values of its unique columns     *)
(* (phone, username, email, slug, fullPath), the ids its foreign keys name *)
(* (0 for null) and a text for all the rest.  Kinds that are transformed   *)
(* and never loaded (revision, postmedia, reaction, menu, menuitem) are    *)
(* left out, and so is a row's createdAt.                                  *)
(***************************************************************************)
EXTENDS Integers

CONSTANTS
    Exports,        \* exports: the rows of the files, numbered as they come
    NoPhone,        \* what a missing phone becomes
    Others,         \* unique values, by kind, that the application may give
    MaxRuns         \* bound: runs of the tool

\* The tables in the order of loading.
Order == [user |-> 1, authorprofile |-> 2, media |-> 3, category |-> 4, tag |-> 5, series |-> 6,
          post |-> 7, page |-> 8, posttag |-> 9, comment |-> 10]

\* What the foreign keys of each kind refer to.
Target ==
    [user |-> <<>>, tag |-> <<>>, series |-> <<>>, page |-> <<>>,
     authorprofile |-> [user_id |-> "user", avatar_id |-> "media"],
     media    |-> [uploaded_by_id |-> "user"],
     category |-> [parent_id |-> "category"],
     post     |-> [author_id |-> "authorprofile", category_id |-> "category",
                   series_id |-> "series", cover_media_id |-> "media", og_image_id |-> "media"],
     posttag  |-> [post_id |-> "post", tag_id |-> "tag"],
     comment  |-> [post_id |-> "post", user_id |-> "user", parent_id |-> "comment"]]

ASSUME MigrationConstants ==
    /\ \A e \in Exports : DOMAIN e \subseteq Nat /\ \A n \in DOMAIN e :
        /\ e[n].kind \in DOMAIN Target /\ DOMAIN e[n].links = DOMAIN Target[e[n].kind]
        /\ e[n].kind = "post" => e[n].keys # {}
        /\ e[n].text # "absent"
    /\ MaxRuns \in Nat

----------------------------------------------------------------------------
(* The transformers: deterministic ids, and the rows that are loaded.      *)

\* IdMapper: the kind and the old id; an author profile and a post's tag are
\* known by what they refer to.
NewId(s) ==
    CASE s.kind = "authorprofile" -> <<s.kind, s.links.user_id>>
      [] s.kind = "posttag" -> <<s.kind, s.links.post_id, s.links.tag_id>>
      [] OTHER -> <<s.kind, s.id>>

\* The links that are asked whether they are null; the others are mapped as they
\* are, and a null among them becomes the id of no row.
Nullable == {"avatar_id", "uploaded_by_id", "parent_id", "category_id", "series_id", "cover_media_id", "og_image_id"}

Given(s) == {f \in DOMAIN s.links : s.links[f] # 0 \/ f \notin Nullable}

Ref(s, f) == <<Target[s.kind][f], s.links[f]>>

Refs(s) == {Ref(s, f) : f \in Given(s)}

HasPhone(s) == \E k \in s.keys : k[1] = "phone"

\* Deviation: each run makes up a phone.
KeysAnew(s, run) ==
    IF s.kind = "user" /\ ~HasPhone(s) THEN s.keys \cup {<<"phone", NoPhone, run>>} ELSE s.keys

\* The unique values, column by column: the missing phones are all made the same.
Keys(s, run) ==
    IF s.kind = "user" /\ ~HasPhone(s) THEN s.keys \cup {<<"phone", NoPhone>>} ELSE s.keys

\* The kinds whose updatedAt is not the export's: users get the time of the run,
\* and the database client stamps a post's tag whenever it is written.
Stamped == {"user", "posttag"}

Transformed(s, run) ==
    [keys |-> Keys(s, run), text |-> s.text, updatedAt |-> IF s.kind \in Stamped THEN run ELSE 0]

\* loadData upserts row m of the export before row n: its table comes before that
\* of n, or it comes before n in the same file.
Earlier(e, m, n) ==
    \/ Order[e[m].kind] < Order[e[n].kind]
    \/ e[m].kind = e[n].kind /\ m < n

Ids(e) == {NewId(e[n]) : n \in DOMAIN e}

----------------------------------------------------------------------------

VARIABLES
    export,     \* the files of data-temp
    db,         \* db[i]: the row with id i, or Absent
    taken,      \* unique values of rows that are the application's own
    at,         \* where the tool stands
    loaded,     \* the rows of the export that the transaction has upserted
    tx,         \* the rows it has written and not committed
    runs,       \* runs begun
    report,     \* what the run has reported
    simulated,  \* the run found the database out of reach
    refused,    \* history: a statement of the run was refused
    edited      \* history: rows the application has changed, or removed, since they were loaded

importVars == <<export, db, taken, at, loaded, tx, runs, report, simulated, refused, edited>>

Absent == [keys |-> {}, text |-> "absent", updatedAt |-> 0]

AllIds == UNION {Ids(e) : e \in Exports}

NoRows == [i \in {} |-> Absent]

ImportInit ==
    /\ export \in Exports
    /\ db = [i \in AllIds |-> Absent]
    /\ taken = {}
    /\ at = "idle" /\ loaded = {} /\ tx = NoRows /\ runs = 0
    /\ report = "none" /\ simulated = FALSE /\ refused = FALSE
    /\ edited = {}

World == <<export, db, taken, edited>>

----------------------------------------------------------------------------
(* MigrationManager *)

\* run: prepareData, which only reads, and may throw; a dry run ends with its report.
BeginRun ==
    /\ at \in {"idle", "done"} /\ runs < MaxRuns
    /\ runs' = runs + 1
    /\ \/ at' = "connect" /\ report' = "none"
       \/ at' = "done" /\ report' \in {"none", "DRY_RUN"}
    /\ loaded' = {} /\ tx' = NoRows
    /\ simulated' = FALSE /\ refused' = FALSE
    /\ UNCHANGED World

Connect ==
    /\ at = "connect"
    /\ at' = "load"
    /\ UNCHANGED <<World, loaded, tx, runs, report, simulated, refused>>

\* loadData returns as if it had loaded.
NotReachable ==
    /\ at = "connect"
    /\ at' = "report" /\ simulated' = TRUE
    /\ UNCHANGED <<World, loaded, tx, runs, report, refused>>

\* The row with id i as the transaction sees it.
Seen(i) == IF i \in DOMAIN tx THEN tx[i] ELSE db[i]

\* Foreign keys and unique values, checked statement by statement.
Accepts(s) ==
    /\ \A i \in Refs(s) \ {NewId(s)} : i \in AllIds /\ Seen(i) # Absent
    /\ \A k \in Keys(s, runs) :
        /\ <<s.kind, k>> \notin taken
        /\ \A i \in AllIds \ {NewId(s)} : i[1] = s.kind => k \notin Seen(i).keys

\* Row n is the next to be upserted.
IsNext(n) == at = "load" /\ n \notin loaded /\ \A m \in DOMAIN export : Earlier(export, m, n) => m \in loaded

\* upsert: the row becomes what was transformed, whatever it was.
UpsertRow(n) ==
    /\ IsNext(n)
    /\ LET s == export[n]
       IN /\ Accepts(s)
          /\ tx' = [i \in DOMAIN tx \cup {NewId(s)} |->
                       IF i = NewId(s) THEN Transformed(s, runs) ELSE tx[i]]
    /\ loaded' = loaded \cup {n}
    /\ UNCHANGED <<World, at, runs, report, simulated, refused>>

\* Deviation: what was written before the refusal stays.
RefuseKeepingRows(n) ==
    /\ IsNext(n)
    /\ ~Accepts(export[n])
    /\ db' = [i \in AllIds |-> Seen(i)]
    /\ at' = "done" /\ refused' = TRUE
    /\ tx' = NoRows
    /\ UNCHANGED <<export, taken, edited, loaded, runs, report, simulated>>

\* The statement throws: the transaction is rolled back and nothing reported.
Refuse(n) ==
    /\ IsNext(n)
    /\ ~Accepts(export[n])
    /\ at' = "done" /\ refused' = TRUE
    /\ tx' = NoRows
    /\ UNCHANGED <<World, loaded, runs, report, simulated>>

CommitLoad ==
    /\ at = "load" /\ loaded = DOMAIN export
    /\ db' = [i \in AllIds |-> Seen(i)]
    /\ edited' = edited \ DOMAIN tx
    /\ tx' = NoRows
    /\ at' = "report"
    /\ UNCHANGED <<export, taken, loaded, runs, report, simulated, refused>>

\* The transaction takes more than its 60 seconds, or the tool dies.
Abort ==
    /\ at \in {"connect", "load", "report"}
    /\ at' = "done"
    /\ tx' = NoRows
    /\ UNCHANGED <<World, loaded, runs, report, simulated, refused>>

\* generateMarkdownReports.
Report ==
    /\ at = "report"
    /\ report' = "SUCCESS"
    /\ at' = "done"
    /\ UNCHANGED <<World, loaded, tx, runs, simulated, refused>>

----------------------------------------------------------------------------
(* The application, meanwhile: it waits for rows the transaction has written. *)

\* No row holds unique value k of a kind, committed or not.
IsFree(kind, k) ==
    /\ <<kind, k>> \notin taken
    /\ \A i \in AllIds : i[1] = kind => k \notin db[i].keys /\ k \notin Seen(i).keys

\* Slugs and paths may be changed; phones, usernames and emails may not.
Renamed == {"category", "tag", "post", "page"}

\* What the unique values of row i may become.
Renamings(i) ==
    LET all == IF i[1] \in Renamed THEN db[i].keys \cup {o[2] : o \in {o \in Others : o[1] = i[1]}} ELSE db[i].keys
    IN {K \in SUBSET all :
           /\ {k[1] : k \in K} = {k[1] : k \in db[i].keys}
           /\ \A j, k \in K : j[1] = k[1] => j = k
           /\ \A k \in K \ db[i].keys : IsFree(i[1], k)}

Edit(i) ==
    /\ db[i] # Absent /\ i \notin DOMAIN tx
    /\ \E K \in Renamings(i) : db' = [db EXCEPT ![i] = [keys |-> K, text |-> "edited", updatedAt |-> 0]]
    /\ edited' = edited \cup {i}
    /\ UNCHANGED <<export, taken, at, loaded, tx, runs, report, simulated, refused>>

\* updatePost deletes the tags of the post and creates those it is given.
Retag(i) ==
    /\ i[1] = "posttag" /\ i \notin DOMAIN tx /\ <<"post", i[2]>> \notin DOMAIN tx
    /\ \/ db[i] # Absent /\ db' = [db EXCEPT ![i] = Absent]
       \/ db[i] = Absent /\ i \in edited /\ db' = [db EXCEPT ![i] = [Absent EXCEPT !.text = "edited"]]
    /\ edited' = edited \cup {i}
    /\ UNCHANGED <<export, taken, at, loaded, tx, runs, report, simulated, refused>>

\* A row of the application's own takes a unique value, for good.
Occupy(o) ==
    /\ IsFree(o[1], o[2])
    /\ taken' = taken \cup {o}
    /\ UNCHANGED <<export, db, edited, at, loaded, tx, runs, report, simulated, refused>>

Load ==
    \/ BeginRun \/ Connect \/ NotReachable \/ CommitLoad \/ Abort \/ Report
    \/ \E n \in DOMAIN export : UpsertRow(n) \/ Refuse(n)

ImportNext ==
    \/ Load
    \/ \E i \in AllIds : Edit(i) \/ Retag(i)
    \/ \E o \in Others : Occupy(o)

ImportSpec == ImportInit /\ [][ImportNext]_importVars

----------------------------------------------------------------------------
(* validateIntegrity, on which the report's verdict rests. *)

RowsOf(k) == {n \in DOMAIN export : export[n].kind = k}

Missing(k, f) == \E n \in RowsOf(k) : f \in Given(export[n]) /\ Ref(export[n], f) \notin Ids(export)

\* Missing authors and categories of posts, missing parents of comments, and
\* slugs of posts that come twice.
IsValid ==
    /\ ~Missing("post", "author_id") /\ ~Missing("post", "category_id") /\ ~Missing("comment", "parent_id")
    /\ \A m, n \in RowsOf("post") : m # n => export[m].keys # export[n].keys

----------------------------------------------------------------------------

\* A post that comes twice: the extractor pages through rows without an order.
Doubled == \E m, n \in RowsOf("post") : m # n /\ NewId(export[m]) = NewId(export[n])

\* What no run can load: a row that refers to one which is not before it, or a
\* unique value that comes twice or is the application's.
Unloadable ==
    \E n \in DOMAIN export :
        LET before == {m \in DOMAIN export : Earlier(export, m, n)}
        IN \/ \E i \in Refs(export[n]) \ {NewId(export[n])} : \A m \in before : NewId(export[m]) # i
           \/ \E k \in Keys(export[n], runs) : <<export[n].kind, k>> \in taken
           \/ \E m \in before :
                /\ export[m].kind = export[n].kind /\ NewId(export[m]) # NewId(export[n])
                /\ Keys(export[m], runs) \cap Keys(export[n], runs) # {}

\* An imported row was renamed to what the export calls another.
Displaced ==
    \E i \in edited, n \in DOMAIN export :
        i[1] = export[n].kind /\ i # NewId(export[n]) /\ db[i].keys \cap Keys(export[n], runs) # {}

\* Rows are loaded all or none, but for tags that the application took off a post
\* since; and a run that reports success, having reached the database, has loaded
\* rows that pass the report's own checks, unless a post came twice, with every
\* row as exported or as the application changed it since.
SuccessMeant ==
    /\ {i \in AllIds : db[i] # Absent \/ i \in edited} \in {{}, Ids(export)}
    /\ \A i \in edited : db[i] = Absent => i[1] = "posttag"
    /\ report = "SUCCESS" /\ ~simulated =>
        /\ IsValid \/ Doubled
        /\ \A i \in Ids(export) :
            i \in edited \/ \E n \in DOMAIN export : NewId(export[n]) = i /\ db[i].text = export[n].text

\* The outcome of a run means what it says: a success what SuccessMeant says, and
\* a refusal that the export cannot be loaded, or that the application has given
\* one row of an earlier run the slug or path that the export gives another.
OutcomeMeant ==
    [][SuccessMeant' /\ (refused' /\ ~refused => Unloadable \/ Displaced)]_importVars

\* Running the tool again changes no row but those that the application had
\* changed, and of users and posts' tags nothing but updatedAt, which it sets anew.
RerunsAgree ==
    [][\A i \in AllIds : db[i] # Absent /\ i \notin edited =>
          \/ db'[i] = db[i] \/ i \in edited'
          \/ i[1] \in Stamped /\ db'[i] = [db[i] EXCEPT !.updatedAt = runs]]_db
=============================================================================
