----------------------------- MODULE Migrations -----------------------------
(***************************************************************************)
(* init_db of backend/core/db.py, which main.py awaits before it serves:   *)
(* three scripts, each followed by the PRAGMA that records it.  SQLite     *)
(* commits every statement of a script by itself, so the process may die   *)
(* between any two of them, and begins again from what is on disk.         *)
(*                                                                         *)
(* What the database holds beside its schema is the business of the module *)
(* that instantiates this one: it stamps the datasets when Stamp says so.  *)
(***************************************************************************)
EXTENDS Naturals

VARIABLES
    version,    \* PRAGMA user_version
    has,        \* what the scripts have added: tables, reason, stamp column
    boot,       \* where init_db is: see Places
    cut         \* history: the versions whose migration a crash has cut

vars == <<version, has, boot, cut>>

Latest == 3
Places == {"read", "script", "stamp", "pragma", "up", "failed"}
Adds == <<"tables", "reason", "auto_graded_at">>

TypeOK ==
    /\ version \in 0 .. Latest /\ has \subseteq {Adds[n] : n \in 1 .. Latest}
    /\ boot \in Places /\ cut \subseteq 1 .. Latest

(* A database that this code, or the code of an earlier version, has left.  *)
Init ==
    /\ version \in 0 .. Latest
    /\ has = {Adds[n] : n \in 1 .. version}
    /\ boot = "read" /\ cut = {}

Read ==
    /\ boot = "read"
    /\ boot' = IF version = Latest THEN "up" ELSE "script"
    /\ UNCHANGED <<version, has, cut>>

(* Mutant: the tables are created without IF NOT EXISTS.                    *)
ScriptOnce ==
    LET n == version + 1 IN
    /\ boot = "script"
    /\ \/ /\ Adds[n] \notin has
          /\ has' = has \cup {Adds[n]}
          /\ boot' = IF n = 3 THEN "stamp" ELSE "pragma"
       \/ /\ Adds[n] \in has
          /\ boot' = "failed"
          /\ UNCHANGED has
    /\ UNCHANGED <<version, cut>>

(* Mutant: a column that is there already is taken for a migration done.    *)
ScriptTolerant ==
    /\ boot = "script"
    /\ has' = has \cup {Adds[version + 1]}
    /\ boot' = IF version + 1 = 3 /\ Adds[3] \notin has THEN "stamp" ELSE "pragma"
    /\ UNCHANGED <<version, cut>>

(* The tables are created IF NOT EXISTS; a column that is there already     *)
(* fails the start of the server.  The third script goes on to UPDATE.      *)
Script ==
    LET n == version + 1 IN
    /\ boot = "script"
    /\ \/ /\ n = 1 \/ Adds[n] \notin has
          /\ has' = has \cup {Adds[n]}
          /\ boot' = IF n = 3 THEN "stamp" ELSE "pragma"
       \/ /\ n > 1 /\ Adds[n] \in has
          /\ boot' = "failed"
          /\ UNCHANGED has
    /\ UNCHANGED <<version, cut>>

(* UPDATE datasets SET auto_graded_at.                                      *)
Stamp == boot = "stamp" /\ boot' = "pragma" /\ UNCHANGED <<version, has, cut>>

(* Mutant: the first PRAGMA names the latest version.                       *)
PragmaLatest ==
    /\ boot = "pragma"
    /\ version' = Latest
    /\ boot' = "up"
    /\ UNCHANGED <<has, cut>>

Pragma ==
    /\ boot = "pragma"
    /\ version' = version + 1
    /\ boot' = IF version' = Latest THEN "up" ELSE "script"
    /\ UNCHANGED <<has, cut>>

(* The process dies, or a start that failed is tried again.                 *)
Crash ==
    /\ boot' = "read"
    /\ cut' = IF boot \in {"stamp", "pragma"} THEN cut \cup {version + 1} ELSE cut
    /\ UNCHANGED <<version, has>>

Boot == Read \/ Script \/ Stamp \/ Pragma

Spec == Init /\ [][Boot \/ Crash]_vars

----------------------------------------------------------------------------
(* Properties *)

(* The version on disk promises no more than there is, and a server that    *)
(* serves has everything.                                                   *)
VersionIsHonest ==
    /\ {Adds[n] : n \in 1 .. version} \subseteq has
    /\ boot = "up" => version = Latest

(* The server fails to start only on a database whose second or third       *)
(* migration a crash has cut before its PRAGMA; the first can be cut, and   *)
(* is run again.                                                            *)
OnlyCutMigrationsFail == boot = "failed" => version + 1 \in cut \ {1}
=============================================================================
