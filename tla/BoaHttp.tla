------------------------------- MODULE BoaHttp --------------------------------
(***************************************************************************)
(* The request handlers of the Boa web server (read.c, get.c, cgi.c,       *)
(* cgi_header.c, pipe.c, buffer.c, response.c, alias.c, mmap_cache.c and   *)
(* the parsing in request.c), as operators.                                *)
(*                                                                         *)
(* A handler works on one request and on what it can reach; that is a      *)
(* record w:                                                               *)
(*   r          the request structure                                      *)
(*   n          its socket as the kernel has it                            *)
(*   open, src  the descriptors, and what can be read from pipes and files *)
(*   mm, used   mmap_list and mmap_list_entries_used                       *)
(*   ret        the handler's return value                                 *)
(*                                                                         *)
(* A token stands for a line, a CR, a LF or a piece of a body, and counts  *)
(* 1 towards the sizes.  Tokens are records [n, t].                        *)
(***************************************************************************)
EXTENDS Integers, Sequences, FiniteSets, SequencesExt

CONSTANTS
    server_s,            \* the listening socket's number
    Fds,                 \* the numbers of the other descriptors
    Site,                \* what lies behind each uri, see translate_uri
    ka_max,
    single_post_limit,
    BUFFER_SIZE,
    CLIENT_STREAM_SIZE,
    SOCKETBUF_SIZE,
    MAX_FILE_MMAP,
    MMAP_LIST_SIZE,
    MMAP_LIST_USE_MAX,
    CGI_ENV_MAX,
    SndBuf               \* what the kernel takes for a peer that does not read

AllFds == Fds \cup {server_s}

ASSUME BoaAssumption ==
    /\ Fds \subseteq Nat /\ server_s \in Nat \ Fds /\ IsFiniteSet(Fds)
    /\ ka_max \in Nat /\ single_post_limit \in Nat
    /\ BUFFER_SIZE \in Nat \ {0, 1} /\ CLIENT_STREAM_SIZE \in Nat \ {0}
    /\ SOCKETBUF_SIZE \in Nat \ {0} /\ SndBuf \in Nat \ {0}
    /\ MMAP_LIST_SIZE \in Nat \ {0} /\ MMAP_LIST_USE_MAX \in Nat
    /\ CGI_ENV_MAX \in Nat /\ MAX_FILE_MMAP \in Nat
    /\ DOMAIN Site \subseteq Nat /\ \A u \in DOMAIN Site : Site[u].size \in Nat

Tok(t, n) == [n |-> n, t |-> t]
Data(from, to) == [k \in 1..(to - from + 1) |-> Tok("data", from + k - 1)]
Least(a, b) == IF a < b THEN a ELSE b
Drop(s, n) == SubSeq(s, n + 1, Len(s))
Take(s, n) == SubSeq(s, 1, n)

NoLine == Tok("none", 0)
Headers == {"READ_HEADER", "ONE_CR", "ONE_LF", "TWO_CR"}

\* new_request and what get_request and free_request put into it.  got is
\* history: what has been written to the socket for this request.
NewRequest(kacount, stream) ==
    [age |-> 0, buf |-> <<>>, cgi_status |-> "none", clen |-> -1, data |-> <<>>,
     data_fd |-> -1, envs |-> 0, filepos |-> 0, filesize |-> 0, got |-> <<>>,
     is_cgi |-> "no", kacount |-> kacount, keepalive |-> "inactive", line |-> NoLine,
     logline |-> "no", method |-> "GET", mmap |-> -1, off |-> 0, parse_pos |-> 0,
     post_data_fd |-> -1, response_status |-> 0, simple |-> "no", start |-> 0,
     status |-> "READ_HEADER", stream |-> stream, temp |-> <<>>, uri |-> 0]

-----------------------------------------------------------------------------
(* buffer.c *)

SQUASH_KA(r) == [r EXCEPT !.keepalive = "stopped"]

req_write(r, toks) ==
    IF toks = <<>> \/ r.status = "DEAD" THEN r
    ELSE IF Len(r.buf) + Len(toks) > BUFFER_SIZE THEN [r EXCEPT !.status = "DEAD"]
    ELSE [r EXCEPT !.buf = @ \o toks]

reset_output_buffer(r) == [r EXCEPT !.buf = <<>>]

\* Mutant: what a partial write has taken is written again.
req_flush_Again(w) ==
    LET r == w.r
        left == Len(r.buf) - r.start
        k == Least(left, w.n.room)
        r1 == IF r.start + k = Len(r.buf)
              THEN [r EXCEPT !.buf = <<>>, !.start = 0, !.got = @ \o Take(Drop(r.buf, r.start), k)]
              ELSE [r EXCEPT !.got = @ \o Take(Drop(r.buf, r.start), k)] IN
    IF r.status = "DEAD" THEN [w EXCEPT !.ret = -2]
    ELSE IF left > 0 /\ w.n.peer = "reset"
    THEN [w EXCEPT !.r = [r EXCEPT !.buf = <<>>, !.start = 0, !.status = "DEAD"], !.ret = -2]
    ELSE IF left > 0 /\ w.n.room = 0 THEN [w EXCEPT !.ret = -1]
    ELSE [w EXCEPT !.r = r1, !.n.room = @ - k, !.ret = Len(r1.buf)]

\* -2 for an error, -1 when the socket takes nothing, else what is buffered.
req_flush(w) ==
    LET r == w.r
        left == Len(r.buf) - r.start
        k == Least(left, w.n.room)
        r1 == IF r.start + k = Len(r.buf)
              THEN [r EXCEPT !.buf = <<>>, !.start = 0, !.got = @ \o Take(Drop(r.buf, r.start), k)]
              ELSE [r EXCEPT !.start = @ + k, !.got = @ \o Take(Drop(r.buf, r.start), k)] IN
    IF r.status = "DEAD" THEN [w EXCEPT !.ret = -2]
    ELSE IF left > 0 /\ w.n.peer = "reset"
    THEN [w EXCEPT !.r = [r EXCEPT !.buf = <<>>, !.start = 0, !.status = "DEAD"], !.ret = -2]
    ELSE IF left > 0 /\ w.n.room = 0 THEN [w EXCEPT !.ret = -1]
    ELSE [w EXCEPT !.r = r1, !.n.room = @ - k, !.ret = Len(r1.buf)]

-----------------------------------------------------------------------------
(* response.c *)

\* print_ka_phrase: what the header says of the connection.
KaPhrase(r) ==
    IF r.kacount > 0 /\ r.keepalive = "active" /\ r.response_status < 500
    THEN "keep" ELSE "close"

\* The status line and the headers; an HTTP/0.9 request gets none.
print_http_headers(r) ==
    IF r.simple = "yes" THEN r ELSE req_write(r, <<Tok(KaPhrase(r), r.response_status)>>)

\* Not flushed: the document, or what the CGI says, is to follow.
send_r_request_ok(r) == print_http_headers([r EXCEPT !.response_status = 200])

\* 301, 302, 400, 403, 404, 500, 501, 502, 503: the connection is to be closed.
WithPage(r) ==
    IF r.method = "HEAD" THEN r ELSE req_write(r, <<Tok("page", r.response_status)>>)

send_r(w, code) ==
    req_flush([w EXCEPT !.r = WithPage(print_http_headers(
                                [SQUASH_KA(@) EXCEPT !.response_status = code]))])

\* 304 has no body, and a header also for a simple request.
send_r_not_modified(w) ==
    LET r == [SQUASH_KA(w.r) EXCEPT !.response_status = 304] IN
    req_flush([w EXCEPT !.r = req_write(r, <<Tok(KaPhrase(r), 304)>>)])

\* A handler that answers with an error, or gives up, returns 0.
Refuse(w, code) == [send_r(w, code) EXCEPT !.ret = 0]
GiveUp(w) == [w EXCEPT !.ret = 0]

-----------------------------------------------------------------------------
(* Descriptors *)

\* open, accept and mkstemp take the lowest free descriptor and fail (EMFILE) if there
\* is none; pipe takes two.
Free(open) == {f \in AllFds : open[f] = "free"}
LowestFree(open) == CHOOSE f \in Free(open) : \A g \in Free(open) : f <= g

NoSrc == [alive |-> "no", clen |-> 0, left |-> <<>>, pipe |-> <<>>, stdin |-> <<>>]

\* mmap_cache.c.  Where find_mmap stops: at the first unused entry, or at the
\* file's own.
Probes(mm, file) ==
    {i \in 0..(MMAP_LIST_SIZE - 1) :
        LET e == mm[(file + i) % MMAP_LIST_SIZE] IN e.count = 0 \/ e.file = file}

find_mmap(w, file, fault) ==
    LET first == CHOOSE i \in Probes(w.mm, file) : \A j \in Probes(w.mm, file) : i <= j
        i == (file + first) % MMAP_LIST_SIZE IN
    IF Probes(w.mm, file) = {} THEN w
    ELSE IF w.mm[i].count > 0 THEN [w EXCEPT !.mm[i].count = @ + 1, !.r.mmap = i]
    ELSE IF w.used > MMAP_LIST_USE_MAX \/ fault = "mmap" THEN w
    ELSE [w EXCEPT !.mm[i] = [count |-> 1, file |-> file], !.used = @ + 1, !.r.mmap = i]

release_mmap(w) ==
    LET i == w.r.mmap IN
    IF i = -1 \/ w.mm[i].count = 0 THEN w
    ELSE [w EXCEPT !.mm[i].count = @ - 1,
                   !.used = IF w.mm[i].count = 1 THEN @ - 1 ELSE @]

-----------------------------------------------------------------------------
(* cgi.c *)

\* The variables complete_env adds for a request (REQUEST_METHOD and the
\* others count as one, the two of a POST as another).
EnvNeed(r) == IF r.method = "POST" THEN 2 ELSE 1

add_cgi_env(r) == [r EXCEPT !.envs = @ + 1]

\* The child: its standard input is the temporary file of a POST; what it
\* writes comes out of the pipe.
Child(r) ==
    [alive |-> "yes", clen |-> IF r.method = "POST" THEN r.filesize ELSE 0,
     left |-> Site[r.uri].out, pipe |-> <<>>, stdin |-> r.temp]

\* 0 also without an answer: when the environment is full, or there is no pipe.
\* A CGI gets the second half of the buffer until its header is parsed.
init_cgi(w, fault) ==
    LET r == SQUASH_KA(w.r) IN
    IF r.is_cgi # "no" /\ r.envs + EnvNeed(r) > CGI_ENV_MAX
    THEN GiveUp([w EXCEPT !.r = r])
    ELSE IF fault = "pipe" \/ Cardinality(Free(w.open)) < 2 THEN GiveUp([w EXCEPT !.r = r])
    ELSE IF fault = "fork" THEN Refuse([w EXCEPT !.r = r], 500)
    ELSE LET fd == LowestFree(w.open) IN
         [w EXCEPT
            !.open = [f \in AllFds |-> IF f = fd THEN "pipe"
                                       ELSE IF f = r.post_data_fd THEN "free" ELSE @[f]],
            !.src[fd] = Child(r),
            !.r = [r EXCEPT !.post_data_fd = -1, !.data_fd = fd, !.status = "PIPE_READ",
                            !.cgi_status = IF r.is_cgi = "CGI" THEN "PARSE" ELSE "BUFFER",
                            !.off = IF r.is_cgi = "CGI" THEN BUFFER_SIZE \div 2 ELSE 0,
                            !.data = <<>>, !.filepos = 0],
            !.ret = 1]

-----------------------------------------------------------------------------
(* get.c *)

\* A document that is mapped: as much of it as fits follows the header.
GetMapped(m, fault) ==
    LET r == send_r_request_ok(m.r)
        k == Least(BUFFER_SIZE - Len(r.buf), r.filesize)
        full == [r EXCEPT !.buf = @ \o Data(1, k), !.filepos = k] IN
    IF m.r.mmap = -1 THEN Refuse([m EXCEPT !.r = reset_output_buffer(@)], 400)
    ELSE IF k <= 0 THEN [m EXCEPT !.r = r, !.ret = 1]
    ELSE IF fault = "bus" THEN Refuse([m EXCEPT !.r = reset_output_buffer(r)], 500)
    ELSE IF k < r.filesize THEN [m EXCEPT !.r = full, !.ret = 1]
    ELSE LET f == req_flush([m EXCEPT !.r = full]) IN [f EXCEPT !.r.status = "DONE", !.ret = 1]

\* A document above MAX_FILE_MMAP is read like the output of a CGI.
GetPiped(w) ==
    LET fd == LowestFree(w.open) IN
    [req_flush([w EXCEPT
        !.open[fd] = "file",
        !.src[fd] = [NoSrc EXCEPT !.pipe = Data(1, w.r.filesize)],
        !.r = [send_r_request_ok(@) EXCEPT !.status = "PIPE_READ", !.cgi_status = "BUFFER",
                                           !.data_fd = fd, !.off = 0, !.data = <<>>]])
     EXCEPT !.ret = 1]

\* The output of gunzip or of the directory maker, after a header of Boa's own.
GetFiltered(w, fault) ==
    LET f == req_flush([w EXCEPT !.r = send_r_request_ok(@)]) IN
    IF w.r.method = "HEAD" THEN GiveUp(f) ELSE init_cgi(f, fault)

\* init_get and get_dir, by what the path turns out to be.
init_get(w, fault) ==
    LET s == Site[w.r.uri]
        sized == [w EXCEPT !.r.filesize = s.size] IN
    IF Free(w.open) = {} THEN Refuse(w, 400) ELSE
    CASE s.kind = "missing"       -> Refuse(w, 404)
      [] s.kind = "forbidden"     -> Refuse(w, 403)
      [] s.kind = "noslash"       -> Refuse(w, 301)
      [] s.kind = "not_modified"  -> [send_r_not_modified(w) EXCEPT !.ret = 0]
      [] s.kind = "gz"            -> GetFiltered(w, fault)
      [] s.kind = "dir"           -> GetFiltered([w EXCEPT !.r = SQUASH_KA(@)], fault)
      [] OTHER ->
           IF w.r.method = "HEAD" \/ s.size = 0
           THEN GiveUp([sized EXCEPT !.r = send_r_request_ok(@)])
           ELSE IF s.size > MAX_FILE_MMAP THEN GetPiped(sized)
           ELSE GetMapped(find_mmap(sized, w.r.uri, fault), fault)

process_get(w, fault) ==
    LET r == w.r
        k == Least(Least(r.filesize - r.filepos, SOCKETBUF_SIZE), w.n.room) IN
    IF fault = "bus" \/ w.n.peer = "reset" THEN GiveUp([w EXCEPT !.r.status = "DEAD"])
    ELSE IF k = 0 /\ r.filepos < r.filesize THEN [w EXCEPT !.ret = -1]
    ELSE [w EXCEPT !.r.filepos = @ + k,
                   !.r.got = @ \o Data(r.filepos + 1, r.filepos + k),
                   !.n.room = @ - k,
                   !.ret = IF r.filepos + k = r.filesize THEN 0 ELSE 1]

-----------------------------------------------------------------------------
(* pipe.c and cgi_header.c *)

\* The first thing a CGI writes is its header: "type" (any that is neither of
\* the others), "status", "url" or "path" (a Location of either sort), up to and
\* with its empty line.  With anything else there is no empty line.
process_cgi_header(w0) ==
    LET w == [w0 EXCEPT !.r.cgi_status = IF @ = "DONE" THEN @ ELSE "BUFFER"]
        r == w.r
        h == IF r.data = <<>> THEN "none" ELSE Head(r.data).t
        ok == send_r_request_ok(r)
        merged == IF r.method = "HEAD" THEN <<Head(r.data)>> ELSE r.data
        done == IF r.method = "HEAD" THEN "DONE" ELSE r.cgi_status IN
    IF h \notin {"type", "status", "url", "path"} THEN Refuse(w, 502)
    ELSE IF r.simple = "yes"
    THEN [w EXCEPT !.r.data = Tail(@), !.r.off = @ + 1, !.ret = 1]
    ELSE IF h = "status" THEN [w EXCEPT !.ret = 1]
    ELSE IF h \in {"url", "path"}
    THEN LET f == send_r(w, IF h = "path" THEN 400 ELSE 302) IN
         [f EXCEPT !.r.status = "DONE", !.ret = 1]
    ELSE IF Len(ok.buf) + Len(merged) > BUFFER_SIZE
    THEN Refuse([w EXCEPT !.r = [ok EXCEPT !.buf = <<>>, !.start = 0,
                                           !.cgi_status = done]], 500)
    ELSE LET f == req_flush([w EXCEPT !.r = [ok EXCEPT !.buf = @ \o merged,
                                                       !.off = Len(ok.buf \o merged),
                                                       !.data = <<>>,
                                                       !.cgi_status = done]]) IN
         [f EXCEPT !.ret = IF r.method = "HEAD" THEN 0 ELSE 1]

\* Mutant: at the end of the output what is still in the buffer is dropped.
read_from_pipe_Eof(w) ==
    LET r == w.r
        s == w.src[r.data_fd]
        room == BUFFER_SIZE - (r.off + Len(r.data))
        k == Least(room, Len(s.pipe)) IN
    IF room = 0
    THEN IF r.cgi_status = "PARSE" THEN process_cgi_header([w EXCEPT !.r.cgi_status = "BUFFER"])
         ELSE [w EXCEPT !.r.status = "PIPE_WRITE", !.ret = 1]
    ELSE IF k > 0
    THEN [w EXCEPT !.r.data = @ \o Take(s.pipe, k), !.src[r.data_fd].pipe = Drop(@, k), !.ret = 1]
    ELSE IF s.alive = "yes" THEN [w EXCEPT !.ret = -1]
    ELSE GiveUp(w)

read_from_pipe(w) ==
    LET r == w.r
        s == w.src[r.data_fd]
        room == BUFFER_SIZE - (r.off + Len(r.data))
        k == Least(room, Len(s.pipe))
        last == [w EXCEPT !.r.status = "PIPE_WRITE", !.r.cgi_status = "DONE"] IN
    IF room = 0
    THEN IF r.cgi_status = "PARSE" THEN process_cgi_header([w EXCEPT !.r.cgi_status = "BUFFER"])
         ELSE [w EXCEPT !.r.status = "PIPE_WRITE", !.ret = 1]
    ELSE IF k > 0
    THEN [w EXCEPT !.r.data = @ \o Take(s.pipe, k), !.src[r.data_fd].pipe = Drop(@, k), !.ret = 1]
    ELSE IF s.alive = "yes" THEN [w EXCEPT !.ret = -1]
    ELSE IF r.cgi_status = "PARSE" THEN process_cgi_header(last)
    ELSE [last EXCEPT !.ret = 1]

write_from_pipe(w) ==
    LET r == w.r
        k == Least(Len(r.data), w.n.room) IN
    IF r.data = <<>>
    THEN IF r.cgi_status = "DONE" THEN GiveUp(w)
         ELSE [w EXCEPT !.r.status = "PIPE_READ", !.r.off = 0, !.ret = 1]
    ELSE IF w.n.peer = "reset" THEN Refuse([w EXCEPT !.r.status = "DEAD"], 500)
    ELSE IF k = 0 THEN [w EXCEPT !.ret = -1]
    ELSE [w EXCEPT !.r.data = Drop(@, k), !.r.off = @ + k, !.r.filepos = @ + k,
                   !.r.got = @ \o Take(r.data, k), !.n.room = @ - k, !.ret = 1]

-----------------------------------------------------------------------------
(* alias.c *)

\* A script's path is walked up to the first regular file: it is "missing", or a
\* directory or not executable ("forbidden").  An nph- name, or HTTP/0.9, speaks for
\* itself; the header of any other script is parsed.
init_script_alias(w) ==
    LET s == Site[w.r.uri] IN
    CASE s.kind = "missing"   -> Refuse(w, 404)
      [] s.kind = "forbidden" -> Refuse(w, 403)
      [] OTHER -> [w EXCEPT !.r.is_cgi = IF w.r.simple = "yes" THEN "NPH" ELSE "CGI",
                            !.ret = 1]

\* What Site says of the uri: a script, a redirection, an alias of a document, or a
\* path below the document root.  A POST is refused for what is not a script, but
\* not for an alias.
translate_uri(w) ==
    LET s == Site[w.r.uri] IN
    CASE s.via = "script"   -> init_script_alias(w)
      [] s.via = "redirect" -> Refuse(w, IF w.r.method = "POST" THEN 400 ELSE 302)
      [] s.via = "alias"    -> [w EXCEPT !.ret = 1]
      [] OTHER              -> IF w.r.method = "POST" THEN Refuse(w, 400)
                               ELSE [w EXCEPT !.ret = 1]

-----------------------------------------------------------------------------
(* request.c *)

\* The request line: the method, the version and the uri.
process_logline(w, line) ==
    LET r == [w.r EXCEPT !.logline = "yes"]
        method == CASE line.t \in {"GET", "GET09"}   -> "GET"
                    [] line.t \in {"POST", "POST09"} -> "POST"
                    [] line.t = "HEAD"               -> "HEAD"
                    [] OTHER                         -> "none"
        r1 == [r EXCEPT !.method = method, !.uri = line.n,
                        !.simple = IF line.t \in {"GET09", "POST09"} THEN "yes" ELSE "no"] IN
    IF method = "none" THEN Refuse([w EXCEPT !.r = r], 501) ELSE [w EXCEPT !.r = r1]

\* A line without a colon; a request line is one, too (a uri with a colon is left out).
NoColon == {"NOCOLON", "GET", "GET09", "POST", "POST09", "HEAD", "PUT"}

\* A header line.  One without a colon, or one too many for the environment,
\* returns 0 without an answer.
process_option_line(w, line) ==
    LET r == w.r IN
    CASE line.t \in {"KEEP", "CLOSE"} ->
           IF ka_max > 0 /\ r.keepalive # "stopped"
           THEN [w EXCEPT !.r.keepalive = IF line.t = "KEEP" THEN "active" ELSE "stopped"]
           ELSE IF r.envs < CGI_ENV_MAX THEN [w EXCEPT !.r = add_cgi_env(r)] ELSE GiveUp(w)
      [] line.t = "LENGTH" /\ r.clen = -1 -> [w EXCEPT !.r.clen = line.n]
      [] line.t \in NoColon -> GiveUp(w)
      [] OTHER -> IF r.envs < CGI_ENV_MAX THEN [w EXCEPT !.r = add_cgi_env(r)] ELSE GiveUp(w)

\* A POST gets a temporary file.  What post_data_fd held before, the file that an
\* HTTP/0.9 POST was given after its first line, is open without an owner: "lost".
StartPost(t, fault) ==
    LET lost == [f \in AllFds |-> IF f = t.r.post_data_fd THEN "lost" ELSE t.open[f]]
        none == [t EXCEPT !.open = lost, !.r.post_data_fd = -1] IN
    IF fault = "temp" \/ Free(lost) = {} THEN GiveUp(none)
    ELSE LET fd == LowestFree(lost) IN
         [none EXCEPT !.open[fd] = "temp", !.r.post_data_fd = fd, !.r.temp = <<>>]

\* Everything else starts.
Start(t, fault) ==
    CASE t.ret = 0 -> [t EXCEPT !.r = SQUASH_KA(@)]
      [] t.ret # 0 /\ t.r.method = "POST" -> StartPost(t, fault)
      [] t.ret # 0 /\ t.r.method # "POST" /\ t.r.is_cgi # "no" -> init_cgi(t, fault)
      [] OTHER -> init_get([t EXCEPT !.r.status = "WRITE"], fault)

\* The end of the headers.
process_header_end(w, fault) ==
    IF w.r.logline = "no" THEN Refuse(w, 500)
    ELSE IF w.r.uri \notin DOMAIN Site THEN Refuse(w, 400)
    ELSE Start(translate_uri(w), fault)

-----------------------------------------------------------------------------
(* read.c *)

Go == 2

\* read_header's machine: the status after one more token.
HeaderStatus(status, t) ==
    CASE status = "READ_HEADER" -> (CASE t = "CR" -> "ONE_CR" [] t = "LF" -> "ONE_LF"
                                      [] OTHER -> "READ_HEADER")
      [] status = "ONE_CR" -> (CASE t = "LF" -> "ONE_LF" [] t = "CR" -> "ONE_CR"
                                 [] OTHER -> "READ_HEADER")
      [] status = "ONE_LF" -> (CASE t = "CR" -> "TWO_CR" [] t = "LF" -> "BODY_READ"
                                 [] OTHER -> "READ_HEADER")
      [] status = "TWO_CR" -> (CASE t = "LF" -> "BODY_READ" [] t = "CR" -> "TWO_CR"
                                 [] OTHER -> "READ_HEADER")
      [] OTHER -> status

\* A POST whose headers are complete: the length it announces, and what of the
\* body has come with the headers.
PostBegin(w) ==
    LET r == [w.r EXCEPT !.status = "BODY_WRITE"]
        come == Drop(r.stream, r.parse_pos) IN
    IF r.clen <= 0 \/ (single_post_limit > 0 /\ r.clen > single_post_limit)
    THEN Refuse([w EXCEPT !.r = [r EXCEPT !.data = come]], 400)
    ELSE [w EXCEPT !.r = [r EXCEPT !.filesize = r.clen, !.filepos = 0,
                                   !.data = Take(come, Least(Len(come), r.clen))],
                   !.ret = 1]

\* After the headers, and after the request line: a simple request ends with it.
\* If it is a POST it goes on as if its headers were still coming; header_line stays,
\* and the first header is taken for the request line again.
AfterEnd(w) == IF w.ret # 0 /\ w.r.method = "POST" THEN PostBegin(w) ELSE w
AfterFirst(w, line, fault) ==
    LET same == [w EXCEPT !.r.line = line] IN
    IF w.ret # Go \/ w.r.simple = "no" THEN w
    ELSE process_header_end([same EXCEPT !.ret = 1], fault)

\* What one token of the stream does.
Scan(w, tok, fault) ==
    LET s == HeaderStatus(w.r.status, tok.t)
        p == [w EXCEPT !.r.status = s, !.r.parse_pos = @ + 1,
                       !.r.line = IF tok.t \in {"CR", "LF"} \/ @ # NoLine THEN @ ELSE tok]
        fresh == [p EXCEPT !.r.line = NoLine] IN
    CASE w.ret # Go -> w
      [] w.ret = Go /\ s = "ONE_LF" /\ w.r.logline = "yes" -> process_option_line(fresh, p.r.line)
      [] w.ret = Go /\ s = "ONE_LF" /\ w.r.logline = "no" ->
           AfterFirst(process_logline(fresh, p.r.line), p.r.line, fault)
      [] w.ret = Go /\ s = "BODY_READ" -> AfterEnd(process_header_end([p EXCEPT !.ret = 1], fault))
      [] OTHER -> p

\* All that is there is parsed: read, if there is room.
ReadMore(w) ==
    LET r == w.r
        k == Least(CLIENT_STREAM_SIZE - Len(r.stream), Len(w.n.inq)) IN
    IF Len(r.stream) >= CLIENT_STREAM_SIZE THEN GiveUp([w EXCEPT !.r.status = "DEAD"])
    ELSE IF k > 0
    THEN [w EXCEPT !.r.stream = @ \o Take(w.n.inq, k), !.n.inq = Drop(@, k), !.ret = 1]
    ELSE IF w.n.peer = "open" THEN [w EXCEPT !.ret = -1]
    ELSE GiveUp(w)

AfterScan(w) == IF w.ret = Go THEN ReadMore(w) ELSE w

\* What a sequence of them does, one after the other.
Scanned(w, toks, fault) ==
    LET at[k \in 0..Len(toks)] == IF k = 0 THEN w ELSE Scan(at[k - 1], toks[k], fault)
    IN at[Len(toks)]

read_header(w, fault) ==
    AfterScan(Scanned([w EXCEPT !.ret = Go], Drop(w.r.stream, w.r.parse_pos), fault))

read_body(w) ==
    LET r == w.r
        k == Least(Least(r.filesize - r.filepos, BUFFER_SIZE - Len(r.data)), Len(w.n.inq)) IN
    IF r.filesize = r.filepos \/ Len(r.data) = BUFFER_SIZE
    THEN [w EXCEPT !.r.status = "BODY_WRITE", !.ret = 1]
    ELSE IF k > 0
    THEN [w EXCEPT !.r.status = "BODY_WRITE", !.r.data = @ \o Take(w.n.inq, k),
                   !.n.inq = Drop(@, k), !.ret = 1]
    ELSE CASE w.n.peer = "open"  -> [w EXCEPT !.ret = -1]
           [] w.n.peer = "fin"   -> Refuse(w, 400)
           [] OTHER              -> Refuse(w, 500)

\* Mutant: the CGI is started with what has come so far.
write_body_Early(w, fault) ==
    LET r == w.r
        k == Least(Len(r.data), r.filesize - r.filepos) IN
    IF k = 0 THEN init_cgi([w EXCEPT !.r.data = <<>>], fault)
    ELSE [w EXCEPT !.r.filepos = @ + k, !.r.data = Drop(@, k),
                   !.r.temp = @ \o Take(r.data, k), !.ret = 1]

\* A full disk ends the request.
write_body(w, fault) ==
    LET r == w.r
        k == Least(Len(r.data), r.filesize - r.filepos)
        empty == [w EXCEPT !.r.data = <<>>] IN
    IF k = 0
    THEN IF r.filepos >= r.filesize THEN init_cgi(empty, fault)
         ELSE [empty EXCEPT !.r.status = "BODY_READ", !.ret = 1]
    ELSE IF fault = "disk" THEN Refuse(w, 500)
    ELSE [w EXCEPT !.r.filepos = @ + k, !.r.data = Drop(@, k),
                   !.r.temp = @ \o Take(r.data, k), !.ret = 1]
=============================================================================
