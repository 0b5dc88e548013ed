--------------------------- MODULE MCMediaControl ---------------------------
(* Three calls on three ports, with good, refused and damaged datagrams. *)
EXTENDS MediaControl

MCEndpoints == {<<1, 5000>>, <<2, 5000>>}

Audio(host) == Sdp(<<Line("v", 0), Line("c", host), Line("m", 5000)>>)
Held(host) == Sdp(<<Line("v", 0), Line("c", 0), Line("m", 5000), Line("c", host)>>)
TwoStreams == Sdp(<<Line("v", 0), Line("c", 1), Line("m", 5000), Line("m", 5002)>>)

Cmd(op, c, t, sdp) ==
    <<Entry("command", Text(op)), Entry("call-id", Text(c)), Entry("from-tag", Text(t)),
      Entry("sdp", sdp), Entry("to-tag", Text("b"))>>
Datagram(source, payload) == [source |-> source, cookie |-> 5, payload |-> payload]
Proxy(entries) == Datagram("proxy", _bencode(Dict(entries)))

Good == Cmd("offer", "c1", "a", Audio(1))
Encoded == _bencode(Dict(Good))

Commands ==
    {Proxy(Good), Proxy(Cmd("offer", "c2", "b", Audio(1))),
     Proxy(Cmd("offer", "c3", "b", Held(1))),
     Proxy(Cmd("offer", "c1", "a", TwoStreams)), Proxy(Cmd("offer", "c2", "b", Text("x"))),
     Proxy(Cmd("answer", "c1", "a", Audio(2))), Proxy(Cmd("answer", "c2", "b", Audio(2))),
     Proxy(Cmd("answer", "c2", "a", Audio(2))),
     Proxy(Cmd("answer", "c1", "a", TwoStreams)),
     Proxy(Cmd("delete", "c1", "a", Audio(1))), Proxy(Cmd("ping", "c1", "a", Audio(1)))}

Damaged ==
    {Datagram("proxy", SubSeq(Encoded, 1, Len(Encoded) - 1)),
     Datagram("proxy", Encoded \o <<Number(1)>>),
     Datagram("proxy", <<Mark("d"), Text("command"), Text("delete"), Text("call-id"), Text("c1"),
                         Text("call-id"), Text("c2"), Mark("e")>>),
     Proxy(<<Entry("command", Text("delete")), Entry("call-id", Number(1))>>),
     Proxy(<<Entry("command", Text("delete")), Entry("call-id", Text(""))>>),
     Proxy(<<Entry("command", List(<<List(<<List(<<Text("ping")>>)>>)>>))>>),
     Proxy(Cmd("query", "c1", "a", Audio(1)))}

Strange ==
    {Datagram("stranger", _bencode(Dict(Cmd("delete", "c1", "a", Audio(1))))),
     Datagram("stranger", Encoded)}

MCDatagrams == Commands \cup Damaged \cup Strange
=============================================================================
