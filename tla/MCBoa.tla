------------------------------- MODULE MCBoa ----------------------------------
EXTENDS Boa

T(t) == Tok(t, 0)
Doc(kind, size) == [kind |-> kind, out |-> <<>>, size |-> size, via |-> "root"]
Script(out) == [kind |-> "file", out |-> out, size |-> 1, via |-> "script"]

\* 1 a CGI program, 2 a document larger than the buffer, 3 one that is read
\* through a pipe, 4 one that is not there, 5 a program that redirects, 6 one that
\* writes no header, 7 a directory, 8 a compressed document, 9 an alias, 10 a
\* small document.
MCSite ==
    << Script(<<T("type")>> \o Data(1, 2)), Doc("file", 4), Doc("file", 6), Doc("missing", 0),
       Script(<<T("url")>>), Script(Data(1, 1)),
       [Doc("dir", 0) EXCEPT !.out = Data(1, 3)], [Doc("gz", 0) EXCEPT !.out = Data(1, 1)],
       [Doc("file", 1) EXCEPT !.via = "alias"], Doc("file", 1) >>

CR == T("CR")
LF == T("LF")
Ask(t, uri) == <<Tok(t, uri), LF, LF>>
Get(uri) == Ask("GET", uri)
Keep(t, uri) == <<Tok(t, uri), LF, T("KEEP"), LF, LF>>
GetKeep(uri) == Keep("GET", uri)
Body(i, j) == [k \in 1..(j - i + 1) |-> Tok("body", i + k - 1)]
Post09 == <<Tok("POST09", 1), LF, LF>> \o Body(1, 1)
Post(n) == <<Tok("POST", 1), LF, Tok("LENGTH", n), LF, LF>>
PostKeep == <<Tok("POST", 1), LF, T("KEEP"), LF, Tok("LENGTH", 1), LF, LF>> \o Body(1, 1)

\* What one client sends alone: the forms of a request, cut in pieces.
Alone ==
    { <<Get(1)>>, <<Get(3)>>, <<Get(5)>>, <<Get(6)>>, <<Get(7)>>, <<Get(8)>>, <<Get(77)>>,
      <<Ask("HEAD", 1)>>, <<Keep("HEAD", 2), Get(10)>>, <<Ask("PUT", 2)>>,
      << <<Tok("GET09", 2), LF>> >>, << <<Tok("GET09", 1), LF>> >>,
      << <<Tok("GET", 10), CR>>, <<LF, CR, LF>> >>,   \* cut between CR and LF
      << <<LF, LF>> >>, << <<Tok("GET", 2)>> >>,
      <<Post(3) \o Body(1, 1), Body(2, 3)>>,          \* a body that comes later
      <<PostKeep, Get(10)>>,
      <<Post(1) \o Body(1, 2)>>, <<Post(6)>>, <<Ask("POST", 1)>>,
      << <<Tok("POST", 9), LF, Tok("LENGTH", 1), LF, LF>> \o Body(1, 1) >>,
      <<Post09>>,                                     \* its first file is lost
      << <<Tok("POST09", 1), LF, Tok("LENGTH", 1), LF, LF>> \o Body(1, 1)>>,
      <<GetKeep(2) \o Get(4)>>,                       \* a second request sent ahead
      <<GetKeep(2), Get(3)>>,                         \* a second request sent later
      << <<Tok("GET", 2), LF, T("KEEP"), LF, T("NOCOLON"), LF, LF>> >>,
      << <<Tok("GET", 2), LF, T("x"), LF, T("x"), LF, T("x"), LF, T("x"), LF, LF>> >> }

\* And some at the same time.
MCScenarios ==
    {<<s>> : s \in Alone} \cup
    { << <<GetKeep(2) \o Get(4)>>, <<Get(2)>> >>, << <<Get(1)>>, <<Get(10)>> >>,
      << <<Post09>>, <<Get(10)>>, <<>> >> }
=============================================================================
