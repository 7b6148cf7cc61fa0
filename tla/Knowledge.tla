------------------------------ MODULE Knowledge ------------------------------
(***************************************************************************)
(* Knowledge bases (knowledge/manager.go, knowledge/store, repo/knowledge, *)
(* api/knowledge.go): a document is cut into chunks, a row of the vector   *)
(* store for each, and the row of the knowledge base keeps how many        *)
(* documents and chunks it has.  Requests on one base interleave.          *)
(*                                                                         *)
(* A text is the sequence of the lengths of its lines; its runes are pairs *)
(* of a line and a place, NL standing for a line feed, the only white      *)
(* space there is.  The vectors, and what a search makes of them, are left *)
(* out.  The store is SQLite's or pgvector's: they hold the same rows, and *)
(* differ in how a row is put in.                                          *)
(***************************************************************************)
EXTENDS Naturals, Sequences, FiniteSets, SequencesExt

CONSTANTS
  KBs, Docs, Requests,
  Texts,                      \* the texts there are to index
  ChunkTarget, ChunkOverlap,  \* lengths, in runes
  NoKB,
  MaxFaults, MaxCrashes

-----------------------------------------------------------------------------
(* Cutting a text *)

NL == <<0, 0>>
Line(text, i) == [p \in 1 .. text[i] |-> <<i, p>>]

Trimmed(s) ==
  LET inked == {i \in DOMAIN s : s[i] # NL}
  IN  IF inked = {} THEN <<>> ELSE SubSeq(s, Min(inked), Max(inked))

Suffix(s, n) == IF Len(s) > n THEN SubSeq(s, Len(s) - n + 1, Len(s)) ELSE s

(* Pieces of full length, and a last one of what is left.                 *)
HardSplit(s) ==
  LET Piece(i) == SubSeq(s, (i - 1) * ChunkTarget + 1, Min({i * ChunkTarget, Len(s)}))
  IN  [i \in 1 .. (Len(s) + ChunkTarget - 1) \div ChunkTarget |-> Piece(i)]

(* What is being put together becomes a chunk, unless it is blank.         *)
Flushed(c) == IF Trimmed(c.cur) = <<>> THEN c.chunks ELSE Append(c.chunks, Trimmed(c.cur))

(* One line more.  A line that is too long is cut up; one that does not    *)
(* fit in begins the next chunk, of which only the end is kept when the    *)
(* line is longer than the overlap; any other is written after what is     *)
(* being put together, together with all of that once more.                *)
Cut(c, line) ==
  LET proposed == (IF c.cur = <<>> THEN <<>> ELSE Append(c.cur, NL)) \o line
  IN  CASE Len(line) > ChunkTarget     -> [chunks |-> Flushed(c) \o HardSplit(line), cur |-> <<>>]
        [] /\ Len(line) <= ChunkTarget
           /\ Len(proposed) > ChunkTarget ->
             [chunks |-> Flushed(c), cur |-> IF ChunkOverlap > 0 THEN Suffix(line, ChunkOverlap) ELSE line]
        [] OTHER                       -> [chunks |-> c.chunks, cur |-> c.cur \o proposed]

(* The text is trimmed first: the blank lines at its end are not there (at *)
(* its beginning they would do nothing).                                   *)
ChunkText(text) ==
  LET last == CHOOSE n \in 0 .. Len(text) : /\ n = 0 \/ text[n] > 0
                                            /\ \A i \in n + 1 .. Len(text) : text[i] = 0
      After[n \in 0 .. Len(text)] ==
        IF n = 0 THEN [chunks |-> <<>>, cur |-> <<>>] ELSE Cut(After[n - 1], Line(text, n))
  IN  Flushed(After[last])

ChunksOf == [text \in Texts |-> ChunkText(text)]

(* A row's id is made from all of this: the same chunk has the same row.   *)
RowsOf(k, d, text) ==
  LET chunks == ChunksOf[text]
  IN  {[kb |-> k, doc |-> d, index |-> i, content |-> chunks[i]] : i \in DOMAIN chunks}

-----------------------------------------------------------------------------
VARIABLES
  backend, \* the store that is configured
  base,    \* the row of each knowledge base
  store,   \* the rows of the vector store
  req,     \* what each request is doing
  alone,   \* the requests under way that have had their base for themselves
  exact,   \* bases whose last change had the base for itself and did not fail
  faults, crashes

vars == <<backend, base, store, req, alone, exact, faults, crashes>>

Idle == [at |-> "idle", kb |-> NoKB, todo |-> {}, docs |-> 0, chunks |-> 0]
Backends == {"sqlite", "pgvector"}
Steps == {"idle", "adding", "inserting", "removing", "counting", "summing", "counted", "dropping", "dropped", "editing"}

TypeOK ==
  /\ backend \in Backends
  /\ \A k \in KBs : base[k].row \in {"none", "there", "gone"}
  /\ \A s \in store : s.kb \in KBs /\ s.doc \in Docs /\ Len(s.content) < 2 * ChunkTarget
  /\ \A r \in Requests : req[r].at \in Steps /\ (req[r].at # "idle" => req[r].kb \in KBs)
  /\ alone \subseteq Requests /\ exact \subseteq KBs

Init ==
  /\ backend \in Backends
  /\ base = [k \in KBs |-> [row |-> "none", docs |-> 0, chunks |-> 0]]
  /\ store = {} /\ req = [r \in Requests |-> Idle]
  /\ alone = {} /\ exact = KBs
  /\ faults = 0 /\ crashes = 0

ChunksIn(k) == {s \in store : s.kb = k}
DocsIn(k) == {s.doc : s \in ChunksIn(k)}
On(k) == {r \in Requests : req[r].kb = k}

(* Every request looks first whether the base is there, and is its user's. *)
Begin(r, k, doing) ==
  /\ req[r] = Idle /\ base[k].row = "there"
  /\ req' = [req EXCEPT ![r] = doing]
  /\ alone' = IF On(k) = {} THEN alone \cup {r} ELSE alone \ On(k)
  /\ exact' = IF On(k) = {} THEN exact ELSE exact \ {k}

End(r, ok) ==
  /\ req' = [req EXCEPT ![r] = Idle]
  /\ alone' = alone \ {r}
  /\ exact' = IF ok /\ r \in alone THEN exact \cup {req[r].kb} ELSE exact \ {req[r].kb}

(* A database that fails ends a request where it is.                       *)
Fails(r) ==
  /\ req[r].at \notin {"idle", "editing"} /\ faults < MaxFaults
  /\ faults' = faults + 1
  /\ End(r, FALSE)
  /\ UNCHANGED <<backend, base, store, crashes>>

CreateKnowledgeBase(k) ==
  /\ base[k].row = "none"
  /\ base' = [base EXCEPT ![k].row = "there"]
  /\ UNCHANGED <<backend, store, req, alone, exact, faults, crashes>>

(* Read whole and saved whole, with the counts as they were; a base that   *)
(* was deleted meanwhile is inserted again.                                *)
OpenForEdit(r, k) ==
  /\ Begin(r, k, [Idle EXCEPT !.at = "editing", !.kb = k, !.docs = base[k].docs, !.chunks = base[k].chunks])
  /\ UNCHANGED <<backend, base, store, faults, crashes>>

UpdateKnowledgeBase(r) ==
  /\ req[r].at = "editing"
  /\ base' = [base EXCEPT ![req[r].kb] = [row |-> "there", docs |-> req[r].docs, chunks |-> req[r].chunks]]
  /\ End(r, req[r].kb \in exact)
  /\ UNCHANGED <<backend, store, faults, crashes>>

(* Chunks of an earlier text of the document stay as they are.             *)
IndexDocument(r, k, d, text) ==
  /\ ChunksOf[text] # <<>>
  /\ Begin(r, k, [Idle EXCEPT !.at = "adding", !.kb = k, !.todo = RowsOf(k, d, text)])
  /\ UNCHANGED <<backend, base, store, faults, crashes>>

(* In the order of the chunks.                                             *)
First(todo) == {s \in todo : \A t \in todo : s.index <= t.index}

Added(r, s) ==
  /\ store' = store \cup {s}
  /\ req' = [req EXCEPT ![r].todo = @ \ {s}, ![r].at = IF req[r].todo = {s} THEN "counting" ELSE "adding"]
  /\ UNCHANGED <<alone, exact>>

UpsertRow(r) ==
  /\ backend = "pgvector" /\ req[r].at = "adding"
  /\ \E s \in First(req[r].todo) : Added(r, s)
  /\ UNCHANGED <<backend, base, faults, crashes>>

(* SQLite has the old row deleted and then the new one inserted.           *)
DeleteOldRow(r) ==
  /\ backend = "sqlite" /\ req[r].at = "adding"
  /\ store' = store \ First(req[r].todo)
  /\ req' = [req EXCEPT ![r].at = "inserting"]
  /\ UNCHANGED <<backend, base, alone, exact, faults, crashes>>

(* A row that another request has inserted meanwhile refuses this one.     *)
InsertRow(r) ==
  /\ req[r].at = "inserting"
  /\ \E s \in First(req[r].todo) :
       IF s \in store THEN End(r, FALSE) /\ UNCHANGED store ELSE Added(r, s)
  /\ UNCHANGED <<backend, base, faults, crashes>>

OpenForDelete(r, k, to) ==
  /\ Begin(r, k, [Idle EXCEPT !.at = to, !.kb = k])
  /\ UNCHANGED <<backend, base, store, faults, crashes>>

(* Fault variant: the counts are not taken again.                          *)
DeleteDocumentQuietly(r, d) ==
  /\ req[r].at = "removing"
  /\ store' = {s \in store : ~(s.kb = req[r].kb /\ s.doc = d)}
  /\ End(r, TRUE)
  /\ UNCHANGED <<backend, base, faults, crashes>>

DeleteDocument(r, d) ==
  /\ req[r].at = "removing"
  /\ store' = {s \in store : ~(s.kb = req[r].kb /\ s.doc = d)}
  /\ req' = [req EXCEPT ![r].at = "counting"]
  /\ UNCHANGED <<backend, base, alone, exact, faults, crashes>>

(* refreshCounts: counts what is there, the documents and then the chunks, *)
(* and then writes the counts to the row.                                  *)
CountDocuments(r) ==
  /\ req[r].at = "counting"
  /\ req' = [req EXCEPT ![r].at = "summing", ![r].docs = Cardinality(DocsIn(req[r].kb))]
  /\ UNCHANGED <<backend, base, store, alone, exact, faults, crashes>>

CountChunks(r) ==
  /\ req[r].at = "summing"
  /\ req' = [req EXCEPT ![r].at = "counted", ![r].chunks = Cardinality(ChunksIn(req[r].kb))]
  /\ UNCHANGED <<backend, base, store, alone, exact, faults, crashes>>

WriteCounts(r) ==
  LET k == req[r].kb
  IN  /\ req[r].at = "counted"
      /\ base' = IF base[k].row = "there"
                 THEN [base EXCEPT ![k].docs = req[r].docs, ![k].chunks = req[r].chunks] ELSE base
      /\ End(r, TRUE)
      /\ UNCHANGED <<backend, store, faults, crashes>>

(* First every row of the store, then the base.                            *)
DeleteVectors(r) ==
  /\ req[r].at = "dropping"
  /\ store' = store \ ChunksIn(req[r].kb)
  /\ req' = [req EXCEPT ![r].at = "dropped"]
  /\ UNCHANGED <<backend, base, alone, exact, faults, crashes>>

DeleteKnowledgeBase(r) ==
  /\ req[r].at = "dropped"
  /\ base' = [base EXCEPT ![req[r].kb].row = "gone"]
  /\ End(r, FALSE)
  /\ UNCHANGED <<backend, store, faults, crashes>>

Crash ==
  /\ crashes < MaxCrashes /\ crashes' = crashes + 1
  /\ exact' = exact \ {req[r].kb : r \in Requests}
  /\ req' = [r \in Requests |-> Idle] /\ alone' = {}
  /\ UNCHANGED <<backend, base, store, faults>>

Quiet == (\A r \in Requests : req[r] = Idle) /\ UNCHANGED vars

Next ==
  \/ \E k \in KBs : CreateKnowledgeBase(k)
  \/ \E r \in Requests :
       \/ \E k \in KBs : OpenForEdit(r, k)
       \/ \E k \in KBs, to \in {"removing", "dropping"} : OpenForDelete(r, k, to)
       \/ \E k \in KBs, d \in Docs, text \in Texts : IndexDocument(r, k, d, text)
       \/ \E d \in Docs : DeleteDocument(r, d)
       \/ UpdateKnowledgeBase(r) \/ UpsertRow(r) \/ DeleteOldRow(r) \/ InsertRow(r) \/ CountDocuments(r)
       \/ CountChunks(r) \/ WriteCounts(r) \/ DeleteVectors(r) \/ DeleteKnowledgeBase(r) \/ Fails(r)
  \/ Crash \/ Quiet

Spec == Init /\ [][Next]_vars

-----------------------------------------------------------------------------
(* knowledge/manager.go, refreshCounts: "writes the counts back from what   *)
(* is really in the vector store".  When the last change of a base had it   *)
(* for itself and did not fail, and whatever overlapping, failed and lost   *)
(* requests came before, its row counts the documents and chunks that the   *)
(* store has.                                                               *)
CountsRight ==
  \A k \in exact :
    base[k].row = "there" /\ On(k) = {} =>
      base[k].docs = Cardinality(DocsIn(k)) /\ base[k].chunks = Cardinality(ChunksIn(k))
=============================================================================
