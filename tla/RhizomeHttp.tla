---------------------------- MODULE RhizomeHttp ----------------------------
(***************************************************************************)
(* Rhizome's HTTP server (rhizome_http.c, rhizome_direct_http.c).  A       *)
(* connection is read until the header of its request is complete; a form  *)
(* that is posted is taken apart line by line as it arrives, its fields    *)
(* going to temporary files that are named after the descriptor; and the   *)
(* reply is sent from a buffer that is filled again from a blob of the     *)
(* database.  All connections are served by the one thread of the daemon,  *)
(* which stays with a connection while it can write to it.                 *)
(*                                                                         *)
(* Bytes are what the parser tells apart: CR, LF, the string that bounds   *)
(* the parts of a form (a byte that is in no field), a header that names a *)
(* field or another one, and other bytes.                                  *)
(***************************************************************************)
EXTENDS Integers, Sequences, SequencesExt, FiniteSetsExt

CONSTANTS
    Fd,          \* descriptors
    Request,     \* what clients ask for
    Reads,       \* how many bytes arrive at once, at most
    MaxLine,     \* bytes kept of a line, 1020
    Slack,       \* by how much Content-Length is more than the length
    BlobSize,    \* of a payload
    BlockSize,   \* read of a blob at once, 65536
    FaviconSize,
    Rows,        \* in the list of payloads
    RowsFit,     \* that the buffer has room for
    Disk,        \* whether temporary files can be written
    MinEnquiry,  \* length of the range that an enquiry begins with, 10
    Missing

Field == {"manifest", "data"}

ASSUME HttpAssumption ==
    /\ {MaxLine, Slack, BlobSize, FaviconSize, Rows, RowsFit} \subseteq Nat
    /\ {BlockSize, MinEnquiry} \subseteq Nat \ {0} /\ Reads \subseteq Nat \ {0}
    /\ Disk \subseteq BOOLEAN

VARIABLES
    conn,       \* rhizome_http_request of each descriptor
    temporary,  \* temporary files of each descriptor
    bundles,    \* what has been imported
    busy        \* the descriptor that bytes are being sent to

httpVars == <<conn, temporary, bundles, busy>>

-----------------------------------------------------------------------------
(* Requests                                                                 *)

Line(b) == <<b, "CR", "LF">>

\* One part of a form: its headers, an empty line and the field.
Part(p) ==
    Line("B") \o Line(p.name) \o Line("other header") \o <<"CR", "LF">>
    \o p.bytes \o <<"CR", "LF">>

\* The form that a client posts.
Form(parts) ==
    FlattenSeq([i \in DOMAIN parts |-> Part(parts[i])]) \o <<"B", "-", "CR", "LF">>

\* A request begins with a header, of which some comes before the end.
Sent(r) == <<"header", "end of header">> \o IF r.do = "post" THEN Form(r.parts) ELSE <<>>

-----------------------------------------------------------------------------
(* Replies                                                                  *)

Header(code, length) == [code |-> code, length |-> length]

rhizome_server_set_response(c, bytes) ==
    [c EXCEPT !.buffer = bytes, !.type = @ \cup {"buffer"}]

rhizome_server_simple_http_response(c, code) ==
    rhizome_server_set_response([c EXCEPT !.type = {}], <<Header(code, 1), "text">>)

rhizome_server_http_response_header(c, length) ==
    rhizome_server_set_response(c, <<Header(200, length)>>)

\* The list is put into the buffer, as many rows as it has room for.
rhizome_server_sql_query_http_response(c) ==
    LET h == rhizome_server_http_response_header(c, 1 + Rows)
        fit == IF Rows < RowsFit THEN Rows ELSE RowsFit
    IN  [h EXCEPT !.buffer = @ \o <<"list">> \o [i \in 1..fit |-> i]]

\* A blob is opened, to be sent after the header.
Stream(c) ==
    LET h == rhizome_server_http_response_header(c, BlobSize)
    IN  [h EXCEPT !.type = @ \cup {"blob"}, !.index = 0, !.blob = "open"]

\* A GET is answered with a list, the icon, a blob, or an error.
rhizome_server_parse_http_request(c) ==
    LET d == [c EXCEPT !.type = {}]
    IN  CASE c.asked.do = "icon"  ->
                rhizome_server_http_response_header([d EXCEPT !.type = {"icon"}], FaviconSize)
          [] c.asked.do = "list"  -> rhizome_server_sql_query_http_response(d)
          [] c.asked.do = "blob"  -> Stream(d)
          [] c.asked.do = "error" -> rhizome_server_simple_http_response(d, c.asked.code)

-----------------------------------------------------------------------------
(* Forms                                                                    *)

(* While bytes are processed, s has the connection, its files, what has     *)
(* been imported, and whether the form was refused.                         *)

Absent == [f \in Field |-> Missing]

Answer(s, code) == [s EXCEPT !.c = rhizome_server_simple_http_response(@, code)]
Refuse(s, code) == [Answer(s, code) EXCEPT !.refused = TRUE]

rhizome_direct_clear_temporary_files(s) == [s EXCEPT !.files = Absent]

\* A bundle is imported if its files are there and it is not known yet.
ImportForm(s) ==
    LET t == rhizome_direct_clear_temporary_files(s)
    IN  CASE Missing \in Range(s.files) -> Answer(t, 500)
          [] s.files \in s.bundles -> Answer(t, 200)
          [] OTHER -> Answer([t EXCEPT !.bundles = @ \cup {s.files}], 201)

\* The BARs in the file are compared with the store, and the reply is sent back.  An
\* empty file cannot be mapped, and one without a range is left where it is.
Enquire(s) ==
    LET t == rhizome_direct_clear_temporary_files(s)
        bars == s.files["data"]
        reply == <<Header(200, 1), [about |-> bars]>>
    IN  CASE bars \in {Missing, <<>>} -> Answer(t, 500)
          [] bars \notin {Missing, <<>>} /\ Len(bars) < MinEnquiry -> Answer(s, 500)
          [] OTHER -> [t EXCEPT !.c = rhizome_server_set_response([@ EXCEPT !.type = {}], reply)]

\* A file without a manifest is added, if the configuration allows it and has what it
\* takes to make a manifest (asked.code).
AddFile(s) ==
    LET t == rhizome_direct_clear_temporary_files(s)
    IN  CASE s.c.asked.code = 404 -> Answer(t, 404)
          [] s.c.asked.code # 404 /\ s.c.seen # {"data"} -> Answer(t, 400)
          [] s.c.asked.code = 500 /\ s.c.seen = {"data"} -> Answer(t, 500)
          [] OTHER ->
                Answer([t EXCEPT !.bundles = @ \cup {[Absent EXCEPT !["data"] = s.files["data"]]}], 200)

rhizome_direct_form_received(s) ==
    LET path == s.c.asked.path
        t == rhizome_direct_clear_temporary_files(s)
    IN  CASE path = "import" /\ s.c.seen = Field -> ImportForm(s)
          [] path = "enquiry" /\ s.c.seen = {"data"} -> Enquire(s)
          [] path = "enquiry" /\ s.c.seen # {"data"} -> Answer(t, 404)
          [] path = "addfile" -> AddFile(s)
          [] OTHER -> Answer(t, 500)

\* What the line does to the state of the parser.
InLine(s, line) ==
    LET boundary == line[1] = "B"
        blank == line = <<"CR", "LF">>
        named == line[1] \in Field
        opened == [s EXCEPT !.files[s.c.mime] = <<>>, !.c.field = s.c.mime, !.c.mime = "body"]
    IN  CASE s.c.mime = "initial" -> IF boundary THEN [s EXCEPT !.c.mime = "part"] ELSE s
          [] s.c.mime = "part" /\ blank -> Refuse(s, 400)
          [] s.c.mime \in Field /\ blank /\ s.c.disk -> opened
          [] s.c.mime \in Field /\ blank /\ ~s.c.disk ->
                Refuse(rhizome_direct_clear_temporary_files(s), 500)
          [] s.c.mime \in Field /\ named -> Refuse(s, 400)
          [] s.c.mime = "part" /\ named ->
                [s EXCEPT !.c.mime = line[1], !.c.seen = @ \cup {line[1]}]
          [] s.c.mime \in Field \cup {"part"} /\ ~blank /\ ~named -> s
          [] s.c.mime = "body" /\ boundary ->
                \* The CR LF that was written before the boundary is pruned off.
                [s EXCEPT !.files[s.c.field] = SubSeq(@, 1, Len(@) - 2),
                          !.c.field = Missing, !.c.mime = "part"]
          [] s.c.mime = "body" /\ ~boundary -> [s EXCEPT !.files[s.c.field] = @ \o line]

rhizome_direct_process_mime_line(s, line) ==
    LET t == InLine(s, line)
    IN  IF ~t.refused /\ line[1] = "B" /\ Len(line) > 1 /\ line[2] = "-"
        THEN rhizome_direct_form_received(t)
        ELSE t

\* Mutant: the byte at which a line is cut is lost.
ByteLost(s, b) ==
    LET newline == b = "LF" /\ s.c.line # <<>> /\ Last(s.c.line) = "CR"
        kept == IF newline THEN Front(s.c.line) ELSE s.c.line
        forced == Len(kept) > MaxLine
        Processed(line, rest) ==
            [rhizome_direct_process_mime_line(s, line) EXCEPT !.c.line = rest]
    IN  CASE s.refused -> s
          [] ~s.refused /\ forced -> Processed(kept, <<>>)
          [] ~s.refused /\ newline /\ ~forced -> Processed(kept \o <<"CR", "LF">>, <<>>)
          [] OTHER -> [s EXCEPT !.c.line = Append(@, b)]

\* A line ends with CR LF, or when there is no more room for it, and then the byte
\* is the first of the next one.
Byte(s, b) ==
    LET newline == b = "LF" /\ s.c.line # <<>> /\ Last(s.c.line) = "CR"
        kept == IF newline THEN Front(s.c.line) ELSE s.c.line
        forced == Len(kept) > MaxLine
        Processed(line, rest) ==
            [rhizome_direct_process_mime_line(s, line) EXCEPT !.c.line = rest]
    IN  CASE s.refused -> s
          [] ~s.refused /\ forced -> Processed(kept, <<b>>)
          [] ~s.refused /\ newline /\ ~forced -> Processed(kept \o <<"CR", "LF">>, <<>>)
          [] OTHER -> [s EXCEPT !.c.line = Append(@, b)]

\* At the end of the form what is left is flushed through, unless it has been processed.
Flush(s) ==
    LET t == IF s.c.line = <<>> THEN s ELSE rhizome_direct_process_mime_line(s, s.c.line)
    IN  IF s.c.count > 0 \/ "multipart" \notin s.c.type THEN s
        ELSE rhizome_direct_form_received(t)

rhizome_direct_process_post_multipart_bytes(s, bytes) ==
    LET after[k \in 0..Len(bytes)] == IF k = 0 THEN s ELSE Byte(after[k - 1], bytes[k])
        t == after[Len(bytes)]
    IN  IF t.refused THEN t ELSE Flush([t EXCEPT !.c.count = @ - Len(bytes)])

-----------------------------------------------------------------------------
(* Connections                                                              *)

Closed == [open |-> FALSE]

Opened(r, ok) ==
    [open |-> TRUE, asked |-> r, unread |-> Sent(r), got |-> <<>>, disk |-> ok,
     type |-> {"receiving"}, line |-> <<>>, mime |-> "initial", seen |-> {},
     field |-> Missing, count |-> 0, buffer |-> <<>>, blob |-> Missing, index |-> 0]

HttpInit ==
    /\ conn = [fd \in Fd |-> Closed]
    /\ temporary = [fd \in Fd |-> Absent]
    /\ bundles = {} /\ busy = Missing

\* The descriptor is the lowest that is free.
rhizome_server_poll(fd, r, ok) ==
    /\ busy = Missing
    /\ ~conn[fd].open /\ \A other \in Fd : ~conn[other].open => fd <= other
    /\ conn' = [conn EXCEPT ![fd] = Opened(r, ok)]
    /\ UNCHANGED <<temporary, bundles, busy>>

rhizome_server_free_http_request(fd) == conn' = [conn EXCEPT ![fd] = Closed]

\* The bytes of a form that have been read are processed, and the rest is unread.
ProcessForm(fd, c, bytes) ==
    LET s == rhizome_direct_process_post_multipart_bytes(
                 [c |-> c, files |-> temporary[fd], bundles |-> bundles, refused |-> FALSE], bytes)
    IN  /\ conn' = [conn EXCEPT ![fd] = s.c]
        /\ temporary' = [temporary EXCEPT ![fd] = s.files]
        /\ bundles' = s.bundles

\* The form is going to be parsed.
rhizome_direct_parse_http_request(c) ==
    [c EXCEPT !.type = {"multipart"}, !.line = <<>>, !.count = Len(Form(c.asked.parts)) + Slack]

\* Some bytes arrive.  When the header is complete a GET is answered at once, and of
\* a form what came with the header is processed.
Receive(fd, most) ==
    LET n == Min({most, Len(conn[fd].unread)})
        c == [conn[fd] EXCEPT !.unread = SubSeq(@, n + 1, Len(@))]
        bytes == SubSeq(conn[fd].unread, 1, n)
        end == {k \in DOMAIN bytes : bytes[k] = "end of header"}
        content == IF end = {} THEN <<>>
                   ELSE SubSeq(bytes, (CHOOSE k \in end : TRUE) + 1, n)
    IN  /\ busy = Missing /\ conn[fd].open /\ "receiving" \in conn[fd].type
        /\ n > 0
        /\ \/ /\ end = {}
              /\ conn' = [conn EXCEPT ![fd] = c]
              /\ UNCHANGED <<temporary, bundles, busy>>
           \/ /\ end # {} /\ c.asked.do # "post"
              /\ conn' = [conn EXCEPT ![fd] = rhizome_server_parse_http_request(c)]
              /\ busy' = fd
              /\ UNCHANGED <<temporary, bundles>>
           \/ /\ end # {} /\ c.asked.do = "post"
              /\ ProcessForm(fd, rhizome_direct_parse_http_request(c), content)
              /\ UNCHANGED busy

ReceiveForm(fd, most) ==
    /\ busy = Missing /\ conn[fd].open /\ "multipart" \in conn[fd].type
    /\ conn[fd].unread # <<>>
    /\ LET n == Min({most, Len(conn[fd].unread)})
       IN  ProcessForm(fd, [conn[fd] EXCEPT !.unread = SubSeq(@, n + 1, Len(@))],
                   SubSeq(conn[fd].unread, 1, n))
    /\ UNCHANGED busy

\* The client has gone before its request was complete, or nothing has happened for
\* too long.  Temporary files are left.
rhizome_client_poll_timeout(fd) ==
    /\ busy = Missing /\ conn[fd].open
    /\ rhizome_server_free_http_request(fd)
    /\ UNCHANGED <<temporary, bundles, busy>>

-----------------------------------------------------------------------------
(* Sending                                                                  *)

\* rhizome_server_http_send_bytes() is called when the request has been parsed, and
\* whenever the connection can be written to.
StartSending(fd) ==
    /\ busy = Missing /\ conn[fd].open
    /\ conn[fd].type \cap {"receiving", "multipart"} = {}
    /\ busy' = fd
    /\ UNCHANGED <<conn, temporary, bundles>>

\* Its loop: what is in the buffer is written, as far as it goes.
WriteBuffer(n) ==
    /\ busy # Missing /\ "buffer" \in conn[busy].type
    /\ n \in 1..Len(conn[busy].buffer)
    /\ LET c == conn[busy]
           rest == SubSeq(c.buffer, n + 1, Len(c.buffer))
       IN  conn' = [conn EXCEPT ![busy] =
                       [c EXCEPT !.got = @ \o SubSeq(c.buffer, 1, n), !.buffer = rest,
                                 !.type = IF rest = <<>> THEN @ \ {"buffer"} ELSE @]]
    /\ UNCHANGED <<temporary, bundles, busy>>

\* No more can be written for now.
WouldBlock ==
    /\ busy # Missing /\ "buffer" \in conn[busy].type
    /\ busy' = Missing
    /\ UNCHANGED <<conn, temporary, bundles>>

FillFromIcon ==
    /\ busy # Missing /\ conn[busy].type = {"icon"}
    /\ conn' = [conn EXCEPT ![busy].buffer = [i \in 1..FaviconSize |-> i],
                            ![busy].type = {"buffer"}]
    /\ UNCHANGED <<temporary, bundles, busy>>

\* The next block of the blob.  When it cannot be read the blob remains to be sent.
Filled(c) ==
    LET left == BlobSize - c.index
        size == IF left < BlockSize THEN left ELSE BlockSize
        read == size > 0 /\ c.blob = "open"
        index == IF read THEN c.index + size ELSE c.index
    IN  [c EXCEPT !.buffer = IF read THEN [i \in 1..size |-> c.index + i] ELSE @,
                  !.index = index,
                  !.blob = IF index >= BlobSize THEN Missing ELSE @,
                  !.type = (IF read THEN {"buffer"} ELSE {})
                           \cup (IF index >= BlobSize THEN {} ELSE {"blob"})]

FillFromBlob ==
    /\ busy # Missing /\ conn[busy].type = {"blob"}
    /\ conn' = [conn EXCEPT ![busy] = Filled(@)]
    /\ UNCHANGED <<temporary, bundles, busy>>

\* There is no more to send.
FinishSending ==
    /\ busy # Missing /\ conn[busy].type = {}
    /\ rhizome_server_free_http_request(busy)
    /\ busy' = Missing
    /\ UNCHANGED <<temporary, bundles>>

\* A row is changed of which a blob is open: SQLite does not read from that any more.
RowChanges ==
    /\ busy = Missing
    /\ \E fd \in Fd : conn[fd].open /\ conn[fd].blob = "open"
    /\ conn' = [fd \in DOMAIN conn |->
                  IF conn[fd].open /\ conn[fd].blob = "open"
                  THEN [conn[fd] EXCEPT !.blob = "expired"] ELSE conn[fd]]
    /\ UNCHANGED <<temporary, bundles, busy>>

HttpNext ==
    \/ \E fd \in Fd :
          \/ \E r \in Request, ok \in Disk : rhizome_server_poll(fd, r, ok)
          \/ \E n \in Reads : Receive(fd, n) \/ ReceiveForm(fd, n)
          \/ rhizome_client_poll_timeout(fd)
          \/ StartSending(fd)
    \/ \E n \in 1..(BlockSize + RowsFit + FaviconSize + 2) : WriteBuffer(n)
    \/ WouldBlock \/ FillFromIcon \/ FillFromBlob \/ FinishSending
    \/ RowChanges

HttpSpec == HttpInit /\ [][HttpNext]_httpVars

-----------------------------------------------------------------------------
(* Properties                                                               *)

HttpTypeOK ==
    /\ temporary \in [Fd -> [Field -> Seq(STRING) \cup {Missing}]]
    /\ busy \in Fd \cup {Missing}
    /\ busy # Missing => conn[busy].open
    /\ \A fd \in Fd : conn[fd].open => Len(conn[fd].line) <= MaxLine + 1

\* The bundle that a form has, as its client posted it.
Posted(r) ==
    [f \in Field |-> IF \E p \in Range(r.parts) : p.name = f
                     THEN (CHOOSE p \in Range(r.parts) : p.name = f).bytes ELSE Missing]

\* The replies that a request may get.
Replies(r, ok) ==
    LET Counted(n) == <<Header(200, n)>> \o [i \in 1..n |-> i]
        Text(codes) == {<<Header(k, 1), "text">> : k \in codes}
        given == {f \in Field : Posted(r)[f] # Missing}
    IN  CASE r.do = "icon"  -> {Counted(FaviconSize)}
          [] r.do = "blob"  -> {Counted(BlobSize)}
          [] r.do = "list"  -> {<<Header(200, Rows + 1), "list">> \o [i \in 1..Rows |-> i]}
          [] r.do = "error" -> Text({r.code})
          [] r.do = "post" /\ \E p \in Range(r.parts) : p.name \notin Field -> Text({400})
          [] r.do = "post" /\ ~ok /\ given # {} -> Text({500})
          [] r.do = "post" /\ r.path = "import" ->
                Text(IF given = Field THEN {200, 201} ELSE {500})
          [] r.do = "post" /\ r.path = "enquiry" ->
                CASE given # {"data"} -> Text({404})
                  [] given = {"data"} /\ Len(Posted(r)["data"]) < MinEnquiry -> Text({500})
                  [] OTHER -> {<<Header(200, 1), [about |-> Posted(r)["data"]]>>}
          [] r.do = "post" /\ r.path = "addfile" ->
                Text(IF r.code = 404 \/ given = {"data"} THEN {r.code} ELSE {400})

\* However the bytes of requests and replies are cut up by the network, whatever
\* bytes fields have, and whatever other connections, before on the same descriptor or
\* at the same time on others, were given up half-way: a client whose connection the
\* server ends as done has had one whole reply, as long as its header says, to what it
\* asked for; and bundles have the fields that one client posted together
\* (rhizome_direct_process_mime_line(): "preventing collisions -- provided that we
\* don't close the file descriptor until we have completed processing the request").
ServedAsAsked ==
    /\ busy # Missing /\ conn[busy].type = {} =>
         LET c == conn[busy]
         IN  /\ c.got \in Replies(c.asked, c.disk)
             /\ Head(c.got).code = 201 => Posted(c.asked) \in bundles
    /\ \A b \in bundles : \E r \in Request : r.do = "post" /\ b = Posted(r)
=============================================================================
