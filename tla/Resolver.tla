------------------------------- MODULE Resolver -------------------------------
(***************************************************************************)
(* One query (devent_dns_write and devent_dns_read of dns.c, over c_dns.c).*)
(* The host is asked for once; a datagram may be lost on its way; the      *)
(* answer is read record by record; an address is connected to, or the     *)
(* event is told of an error.  The answer comes from a name server or is   *)
(* generated by c_dns_gen_inet_response, which also answers queries        *)
(* nobody here has packed.                                                 *)
(*                                                                         *)
(* The socket is level triggered: DnsWrite is repeated until WRITE is no   *)
(* longer armed.                                                           *)
(***************************************************************************)
EXTENDS DnsCodec

CONSTANTS Domains,      \* names to connect to
          Queries,      \* queries of others: sequences of questions
          Records,      \* what name servers answer with
          MaxRecords,   \* bound on the answers of one message
          Rcodes,       \* rcodes other than no error
          Hosts         \* the addresses our callbacks know, by name

Question == [name : HostName, type : Short, class : Short]
Record == [owner : HostName, type : NameTypes, target : HostName]
          \cup [owner : HostName, type : {QTYPE_A}, data : [1..4 -> 0..255]]
          \cup [owner : HostName, type : Short \ (NameTypes \cup {QTYPE_A}), data : Seq(0..255)]
Address == [ipv4 : [1..4 -> 0..255], ipv6 : [1..16 -> 0..255]]

\* Messages are well formed: questions and records have the fields of their
\* types.  The data of a type that this code does not know is any bytes.
ASSUME ResolverAssumption ==
  /\ Domains \subseteq HostName /\ Queries \subseteq Seq(Question)
  /\ Records \subseteq Record /\ MaxRecords \in Nat /\ Rcodes \subseteq 1..15
  /\ \A text \in DOMAIN Hosts : Hosts[text] \in Address

MAX_MESSAGE == 256    \* bound on what name servers and others write

VARIABLES domain,     \* the name packed, or << >> for a query of others
          questions,  \* history: what the query asks
          query,      \* the datagram sent
          message,    \* the datagram received
          armed,      \* the filters of dns_fd
          state,      \* where the query is
          got,        \* what c_dns_parse_a has read: questions, answers, size
          host,       \* the hostent
          written,    \* what the name server writes: the answer and its records
          gen,        \* what c_dns_gen_inet_response has read and written
          compress,   \* it uses pointers
          lost        \* history: a datagram was lost

asked == <<domain, questions, query>>
answerer == <<gen, written, compress>>
queryVars == <<asked, message, armed, state, got, host, answerer, lost>>

NoMessage == [qr |-> "none", rcode |-> 0, questions |-> 0, answers |-> 0, data |-> << >>]
NoHost == [name |-> << >>, addrs |-> << >>]
NotRead == [questions |-> 0, answers |-> 0, at |-> HEADER_LENGTH]
NotBegun == [begun |-> FALSE, read |-> 0, at |-> HEADER_LENGTH, domains |-> << >>, data |-> << >>]

\* DocketEvent_connect_hostname has armed WRITE for the new query.
QueryInit ==
  /\ compress \in BOOLEAN
  /\ \/ \E name \in Domains :
          /\ domain \in TextsOf(name)
          /\ questions = <<[name |-> name, type |-> QTYPE_A, class |-> CLASS_IN]>>
          /\ query = NoMessage /\ state = "asking"
     \/ /\ domain = << >>
        /\ questions \in Queries
        /\ query = [qr |-> "query", rcode |-> 0, questions |-> Len(questions), answers |-> 0,
                     data |-> WithQuestions(questions, compress).data]
        /\ state = "waiting"
  /\ End(WithQuestions(questions, compress)) <= MAX_MESSAGE
  /\ armed = {"WRITE"} /\ message = NoMessage /\ got = NotRead /\ host = NoHost
  /\ gen = NotBegun /\ written = Blank /\ lost = FALSE

-----------------------------------------------------------------------------
(* devent_dns_write.                                                       *)

\* Once it is sent only READ is armed (a slip: the filters are left alone).
SentKeepsWrite == {"WRITE"}
Sent == {"READ"}

\* There is a name server, and sendto takes the datagram.
DnsWrite ==
  /\ state = "asking" /\ "WRITE" \in armed
  /\ query' = Pack(domain, QTYPE_A)
  /\ armed' = Sent /\ state' = "waiting"
  /\ UNCHANGED <<domain, questions, message, got, host, answerer, lost>>

\* sendto fails, or there is no name server yet: the query is tried again.
DnsWriteFails == state = "asking" /\ "WRITE" \in armed /\ UNCHANGED queryVars

-----------------------------------------------------------------------------
(* The network, name servers and c_dns_gen_inet_response.                  *)

Lose ==
  /\ state = "waiting" /\ domain # << >> /\ ~lost
  /\ lost' = TRUE
  /\ UNCHANGED <<asked, message, armed, state, got, host, answerer>>

CanAnswer == ~gen.begun /\ state = "waiting" /\ message = NoMessage /\ domain # << >> /\ ~lost

\* A name server puts its answer together, ...
ServerWrites ==
  /\ CanAnswer
  /\ \/ written = Blank /\ written' = WithQuestions(questions, compress)
     \/ /\ written # Blank /\ Len(written.records) < MaxRecords
        /\ \E r \in Records : written' = WithRecord(written, r, compress)
        /\ End(written') <= MAX_MESSAGE
  /\ UNCHANGED <<asked, message, armed, state, got, host, gen, compress, lost>>

\* ... and sends it, or an error.
ServerAnswers ==
  /\ CanAnswer
  /\ \/ \E rcode \in Rcodes : written = Blank /\ message' = [query EXCEPT !.qr = "response", !.rcode = rcode]
     \/ /\ written # Blank
        /\ message' = [query EXCEPT !.qr = "response", !.answers = Len(written.records),
                                    !.data = written.data]
  /\ UNCHANGED <<asked, armed, state, got, host, answerer, lost>>

\* c_dns_gen_inet_response reads a question, ...
GenQuestion ==
  /\ state = "waiting" /\ message = NoMessage /\ ~lost /\ written = Blank
  /\ query.qr = "query" /\ gen.read < query.questions
  /\ LET q == QuestionAt(query, gen.at)
         size == GetName(query, gen.at).size
     IN  IF size = -1 THEN lost' = TRUE /\ UNCHANGED gen
         ELSE /\ gen' = [gen EXCEPT !.begun = TRUE, !.read = @ + 1,
                                    !.at = @ + size + QUESTION_BASE,
                                    !.domains = IF Answers(q) THEN Append(@, q) ELSE @]
              /\ UNCHANGED lost
  /\ UNCHANGED <<asked, message, armed, state, got, host, written, compress>>

\* ... answers one, or gives up when the callback does not know the name, ...
GenDone == gen.read = query.questions /\ gen.begun
GenAnswer ==
  /\ state = "waiting" /\ message = NoMessage /\ ~lost
  /\ GenDone /\ Len(gen.data) < Len(gen.domains)
  /\ LET q == gen.domains[Len(gen.data) + 1]
     IN  \/ /\ q.domain \notin DOMAIN Hosts
            /\ lost' = TRUE /\ UNCHANGED gen
         \/ /\ q.domain \in DOMAIN Hosts
            /\ gen' = [gen EXCEPT !.data = Append(@, InetAnswer(q, AddressOf(Hosts, q)))]
            /\ UNCHANGED lost
  /\ UNCHANGED <<asked, message, armed, state, got, host, written, compress>>

\* ... and returns the response: the answers follow the questions, where anything
\* else of the query is overwritten.
GenReturns ==
  /\ state = "waiting" /\ message = NoMessage /\ ~lost
  /\ GenDone /\ Len(gen.data) = Len(gen.domains)
  /\ message' = [query EXCEPT !.qr = "response", !.answers = Len(gen.domains),
                              !.data = SubSeq(@, 1, gen.at - HEADER_LENGTH) \o FlattenSeq(gen.data)]
  /\ UNCHANGED <<asked, armed, state, got, host, answerer, lost>>

GenAnswers == GenQuestion \/ GenAnswer \/ GenReturns

-----------------------------------------------------------------------------
(* devent_dns_read.                                                        *)

\* recvfrom fails: the event is told.
RecvFails ==
  /\ state = "waiting" /\ "READ" \in armed
  /\ state' = "unheard"
  /\ UNCHANGED <<asked, message, armed, got, host, answerer, lost>>

\* c_dns_parse_a: the header.
DnsRead ==
  /\ state = "waiting" /\ message # NoMessage /\ ("READ" \in armed \/ domain = << >>)
  /\ state' = IF message.qr # "response" \/ message.rcode # 0 THEN "failed" ELSE "parsing"
  /\ UNCHANGED <<asked, message, armed, got, host, answerer, lost>>

ParseQuestion ==
  /\ state = "parsing" /\ got.questions < message.questions
  /\ LET size == GetName(message, got.at).size
     IN  IF size = -1 THEN state' = "failed" /\ UNCHANGED got
         ELSE /\ got' = [got EXCEPT !.questions = @ + 1, !.at = @ + size + QUESTION_BASE]
              /\ UNCHANGED state
  /\ UNCHANGED <<asked, message, armed, host, answerer, lost>>

NoAnswer ==
  /\ state = "parsing" /\ got.questions = message.questions /\ message.answers = 0
  /\ state' = "failed"
  /\ UNCHANGED <<asked, message, armed, got, host, answerer, lost>>

\* The answer at offset o (a slip: RDATA_Header is not packed).
AnswerFrom(m, o, header_length) ==
  LET name == GetName(m, o)
      h == o + name.size
  IN  [name |-> name.text, type |-> Ntohs(m, h), class |-> Ntohs(m, h + 2),
       length |-> Ntohs(m, h + 8), rdata |-> h + header_length]
UnpackedAnswerAt(m, o) == AnswerFrom(m, o, RDATA_HEADER + 2)
AnswerAt(m, o) == AnswerFrom(m, o, RDATA_HEADER)

\* The hostent after it (a slip: the newest address comes first).  Nobody reads
\* its aliases, which are left out.
LastFirst(h, m, a) ==
  LET named == [h EXCEPT !.name = IF @ = << >> THEN a.name ELSE @]
  IN  IF a.type = QTYPE_A THEN [named EXCEPT !.addrs = <<Bytes(m, a.rdata, a.length)>> \o @]
      ELSE named
Is(a, type) == a.type = type /\ a.class = CLASS_IN
Noted(h, m, a) ==
  LET named == [h EXCEPT !.name = IF @ = << >> THEN a.name ELSE @]
  IN  IF Is(a, QTYPE_A) THEN [named EXCEPT !.addrs = Append(@, Bytes(m, a.rdata, a.length))]
      ELSE named

\* Whether get_name fails, for the owner or for an alias: the data of whatever is
\* neither address nor CNAME is taken for a name.
Failures(m, o) ==
  LET a == AnswerAt(m, o)
  IN  IF GetName(m, o).size = -1 THEN {TRUE}
      ELSE IF Is(a, QTYPE_A) \/ Is(a, QTYPE_CNAME) THEN {FALSE}
      ELSE NameFails(m, a.rdata)

ParseAnswer ==
  /\ state = "parsing" /\ got.questions = message.questions /\ got.answers < message.answers
  /\ \/ TRUE \in Failures(message, got.at) /\ state' = "failed" /\ UNCHANGED <<got, host>>
     \/ /\ FALSE \in Failures(message, got.at)
        /\ LET a == AnswerAt(message, got.at)
           IN  /\ host' = Noted(host, message, a)
               /\ got' = [got EXCEPT !.answers = @ + 1, !.at = a.rdata + a.length]
        /\ UNCHANGED state
  /\ UNCHANGED <<asked, message, armed, answerer, lost>>

\* c_dns_parse_first_ip, DocketEvent_connect, and the query is freed.
ParseFirstIp ==
  /\ state = "parsing" /\ message.answers > 0 /\ got.answers = message.answers
  /\ state' = IF host.addrs = << >> THEN "failed" ELSE "connecting"
  /\ UNCHANGED <<asked, message, armed, got, host, answerer, lost>>

Parse == ParseQuestion \/ NoAnswer \/ ParseAnswer \/ ParseFirstIp

QueryNext ==
  \/ DnsWrite \/ DnsWriteFails \/ Lose \/ ServerWrites \/ ServerAnswers \/ GenAnswers
  \/ RecvFails \/ DnsRead \/ Parse

\* The loop serves what is reported, sendto succeeds in the end, and who is asked
\* answers, unless a datagram is lost.
QuerySpec == QueryInit /\ [][QueryNext]_queryVars
        /\ WF_queryVars(DnsWrite) /\ WF_queryVars(ServerAnswers \/ GenAnswers) /\ WF_queryVars(DnsRead)
        /\ WF_queryVars(Parse)

-----------------------------------------------------------------------------
(* Properties.                                                             *)

Ended == {"connecting", "failed", "unheard"}

QueryTypeOK ==
  /\ state \in {"asking", "waiting", "parsing"} \cup Ended
  /\ {query.qr, message.qr} \subseteq {"none", "query", "response"}
  /\ armed \in {{"READ"}, {"WRITE"}}
  /\ state # "asking" => query # NoMessage
  /\ got.questions \in 0..Len(questions) /\ got.answers \in Nat /\ got.at \in Nat
  /\ \A i \in 1..Len(host.addrs) : host.addrs[i] \in Seq(0..255) /\ Len(host.addrs[i]) \in {4, 16}
  /\ lost \in BOOLEAN

\* What c_dns_pack writes asks for the name the caller gave, read as anybody
\* else reads it.
AsksForDomain ==
  domain # << >> /\ query # NoMessage => LabelsAt(query, HEADER_LENGTH) = questions[1].name

\* Every variable has its type, and reading goes from question to question and
\* from record to record: after each the cursor is where the server began the
\* next, however names are compressed, and never beyond the end.
ReadsInStep ==
  /\ QueryTypeOK
  /\ message # NoMessage => got.at <= End(message)
  /\ got.questions + got.answers < Len(written.starts) =>
       got.at = written.starts[got.questions + got.answers + 1]
  /\ state = "connecting" => got.at = End(message)

\* The hostent holds the addresses among the records read so far, in their order
\* and under the name of the first, whatever comes between them.  The event is told
\* of an error only when there is no address or reading stops at a record whose
\* data is no name (c_dns.c:290: such as an AAAA, though an address follows).
AddressesIn(records) ==
  FlattenSeq([i \in 1..Len(records) |->
                IF records[i].type = QTYPE_A THEN <<records[i].data>> ELSE << >>])
StopsAtData(records) ==
  got.answers < Len(records) /\ records[got.answers + 1].type \notin NameTypes \cup {QTYPE_A}
AddressesRight ==
  LET records == SubSeq(written.records, 1, got.answers)
  IN  written.records # << >> =>
        /\ host.addrs = AddressesIn(records)
        /\ records # << >> => host.name = TextOf(records[1].owner)
        /\ state = "failed" => AddressesIn(written.records) = << >> \/ StopsAtData(written.records)

\* What c_dns_gen_inet_response answers, c_dns_parse_a reads back (c_dns_test.c,
\* test_custom_ip): to each question of class IN for an address, in their order,
\* the address of that name.  It fails only when there is no such question.
Asked(q) == q.class = CLASS_IN /\ q.type \in {QTYPE_A, QTYPE_AAAA}
AskedIn(qs) == FlattenSeq([i \in 1..Len(qs) |-> IF Asked(qs[i]) THEN <<qs[i]>> ELSE << >>])
OwnAddress(q) ==
  IF q.type = QTYPE_A THEN Hosts[TextOf(q.name)].ipv4 ELSE Hosts[TextOf(q.name)].ipv6
GeneratedIsRead ==
  LET asks == AskedIn(questions)
  IN  gen.begun =>
        /\ state = "connecting" => host.addrs = [i \in 1..Len(asks) |-> OwnAddress(asks[i])]
        /\ state = "failed" => asks = << >>

\* The event hears of the end of its query, unless a datagram is lost: nothing
\* asks again and nothing times out.
HeardUnlessLost == <>(state \in Ended \/ lost)
=============================================================================
