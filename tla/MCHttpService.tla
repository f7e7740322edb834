---------------------------- MODULE MCHttpService ----------------------------
(***************************************************************************)
(* HttpService with two concurrent requests, one of them a batch  *)
(* that holds one message of every kind the dispatch tells apart.          *)
(***************************************************************************)
EXTENDS HttpService

Message(id, method, calls) ==
    [object |-> TRUE, id |-> id, form |-> "call", method |-> method,
     shape |-> TRUE, ok |-> TRUE, calls |-> calls]

Call(id) == Message(id, "tools/call", 1)
LogsSinceStart(id) == Message(id, "tools/call", 2)
Ping(id) == Message(id, "ping", 0)
BadId == Call(Bad)
NotAnObject == [Ping(None) EXCEPT !.object = FALSE]
Garbage(id) == [Ping(id) EXCEPT !.form = "garbage"]
Response(id) == [Ping(id) EXCEPT !.form = "response"]
BadShape(id) == [Call(id) EXCEPT !.shape = FALSE]
Blank(id) == Message(id, "", 0)
Refused(id) == [Message(id, "initialize", 0) EXCEPT !.ok = FALSE]
UnknownMethod(id) == [Message(id, "unknown", 0) EXCEPT !.ok = FALSE]

Post(token, body) == [route |-> "mcp", token |-> token, body |-> body]
NotJson == [json |-> FALSE, items |-> << >>]
Batch(items) == [json |-> TRUE, items |-> items]
Single(m) == Batch(<< m >>)
Get(route, token) == [route |-> route, token |-> token, body |-> NotJson]

MCIncoming ==
    { Post("right", Batch(<< Call("i1"), Blank(None), Call(None), BadId,
                             LogsSinceStart("i2"), Garbage("i3") >>)),
      Post("right", Batch(<< BadShape("i1"), Refused("i2"), NotAnObject,
                             UnknownMethod("i3"), Response("i4"), Blank("i5"),
                             BadShape(None) >>)),
      Post("right", Single(Call(None))),
      Post("right", Batch(<< >>)),
      Post("right", NotJson),
      Post("wrong", Single(Call("i1"))),
      Get("status", "right"), Get("status", "missing"),
      Get("public", "missing"), Get("nowhere", "missing") }

=============================================================================
