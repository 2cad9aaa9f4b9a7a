------------------------------ MODULE MCDevices ------------------------------
(***************************************************************************)
(* Instances of Devices.  The keys a1 and a2 share a device ID, the clock  *)
(* of b is ahead.  Each setup lets one part of the system be busy.         *)
(***************************************************************************)
EXTENDS Devices, TLC

MCIdOf == [L |-> "L", a1 |-> "A", a2 |-> "A", b |-> "B"]
MCAhead == [L |-> 0, a1 |-> 0, a2 |-> 0, b |-> 2]

Invitation(key, ttl) == [key |-> key, ttl |-> ttl]
Full == [caps |-> {"sync", "upload", "modify", "delete"}, lan |-> FALSE]
Upload == [caps |-> {"sync", "upload"}, lan |-> TRUE]
Accepts(i, key, shares, control) ==
    [invite |-> i, confirmed |-> [key |-> key, code |-> TRUE], shares |-> shares, control |-> control]

Blank ==
    [invites |-> <<>>, accepts |-> {}, connects |-> {}, closes |-> FALSE, until |-> 0, reports |-> <<>>,
     requests |-> <<>>, revisions |-> <<>>, source |-> <<>>, existing |-> NoFile, replace |-> FALSE, contents |-> {}, sends |-> FALSE, boots |-> FALSE,
     layouts |-> {1}, first |-> NoConfig, changes |-> {}, shares |-> {}, machine |-> {}, executes |-> FALSE, desk |-> FALSE,
     stores |-> {"vault"}, credentials |-> FALSE, calls |-> {}, visits |-> TRUE,
     budget |-> [requests |-> 0, edits |-> 0, interrupts |-> 0]]

\* Two invitations of one device, one of another key with the same device ID, one of this node.
Pairing ==
    [invites |-> <<Invitation("a1", 2), Invitation("a1", 1), Invitation("a2", 2), Invitation("L", 1)>>, until |-> 1,
     connects |-> {"a1", "a2"},
     accepts |-> {Accepts(1, "a1", [s1 |-> Full, s2 |-> Upload], 0), Accepts(2, "a1", [s1 |-> Upload], 2),
                  Accepts(3, "a2", [s2 |-> Full], 0), Accepts(3, "a1", [s1 |-> Full], 0)}] @@ Blank

\* A peer whose clock is ahead, and a listener that grows old.
Skewed ==
    [invites |-> <<Invitation("b", 2)>>, until |-> 5, connects |-> {"b"}, closes |-> TRUE,
     accepts |-> {Accepts(1, "b", [s1 |-> Full], 1)}] @@ Blank

Report(key, rev, mark, protocol, ttl) == [key |-> key, rev |-> rev, mark |-> mark, protocol |-> protocol, ttl |-> ttl]

\* Reports in any order, between two pairings of their signer.
Reordered ==
    [invites |-> <<Invitation("a1", 2), Invitation("a1", 2)>>, until |-> 2,
     accepts |-> {Accepts(1, "a1", <<>>, 2), Accepts(2, "a1", <<>>, 0)},
     reports |-> <<Report("a1", 1, 1, "current", 2), Report("a1", 2, 2, "current", 1)>>] @@ Blank

\* A report under an older protocol, and one whose watermark did not move.
Repeated ==
    [invites |-> <<Invitation("a1", 2)>>, until |-> 2, accepts |-> {Accepts(1, "a1", <<>>, 2)},
     reports |-> <<Report("a1", 2, 1, "current", 2), Report("a1", 3, 1, "legacy", 2), Report("a1", 4, 2, "legacy", 2)>>]
    @@ Blank

Future ==
    [invites |-> <<Invitation("b", 2)>>, until |-> 5, accepts |-> {Accepts(1, "b", <<>>, 4)},
     reports |-> <<Report("b", 1, 1, "current", 5)>>] @@ Blank

Entry(rev, parent, type, path) == [rev |-> rev, parent |-> parent, type |-> type, path |-> path, seq |-> 1]
Change(entry, action, drift) ==
    [key |-> "a1", source |-> "A", share |-> "s1", entry |-> entry, base |-> entry.parent, action |-> action,
     remote |-> TRUE, advertised |-> <<entry>>, drift |-> drift, modes |-> <<"one_way_source", "one_way_target">>]

\* Changes of one path, a revocation and a second, narrower pairing.
Work ==
    [invites |-> <<Invitation("a1", 1), Invitation("a1", 1)>>, connects |-> {"a1"},
     accepts |-> {Accepts(1, "a1", [s1 |-> Full], 0), Accepts(2, "a1", [s1 |-> Upload], 0)},
     requests |-> <<Change(Entry("r1", "", "file", "p"), "add", "reject"),
                    Change(Entry("r2", "r1", "file", "p"), "modify", "preserve_conflict_copy"),
                    Change(Entry("r3", "r2", "deleted", "p"), "delete", "report_only")>>,
     revisions |-> [p |-> ""], budget |-> [requests |-> 2, edits |-> 1, interrupts |-> 0]] @@ Blank

\* A file of two chunks or none, edited and interrupted while it is sent.
Sending(source, existing, replace) ==
    [source |-> source, existing |-> existing, replace |-> replace, sends |-> TRUE,
     contents |-> {<<>>, <<"a", "a", "a">>, <<"b", "b", "b">>, <<"b">>},
     budget |-> [requests |-> 1, edits |-> 2, interrupts |-> 1]] @@ Blank

\* Edits that go back and forth under the sender.
Flickering ==
    [Sending(<<"a", "a", "a">>, NoFile, FALSE) EXCEPT
        !.contents = {<<"a", "a", "a">>, <<"b", "b", "b">>},
        !.budget = [requests |-> 0, edits |-> 3, interrupts |-> 0]]

Keeping == [boots |-> TRUE] @@ Blank

First(data, trees) == [NoConfig EXCEPT !.data = data, !.trees = trees, !.port = 1]

Set(field, value) == [field |-> field, value |-> value]

\* Roots, a port and a share are changed, under an old and a new program.
Settings(changes, shares, layouts) ==
    [desk |-> TRUE, first |-> First("d1", "t1"), layouts |-> layouts, changes |-> changes, shares |-> shares,
     budget |-> [requests |-> 0, edits |-> 2, interrupts |-> 0]] @@ Blank

\* Execution is enabled and disabled while the machine changes, or while the data root moves.
Executing(happens, changes, until, edits) ==
    [desk |-> TRUE, first |-> First("d1", "p"), executes |-> TRUE, until |-> until, changes |-> changes,
     machine |-> happens, budget |-> [requests |-> 0, edits |-> edits, interrupts |-> 0]] @@ Blank

Credentials(s) == [stores |-> {s}, credentials |-> TRUE, budget |-> [requests |-> 0, edits |-> 1, interrupts |-> 0]] @@ Blank

\* Requests in the server at once, and one after the other while time passes
Browsing(calls, until, restarts) ==
    [calls |-> calls, until |-> until, budget |-> [requests |-> 4, edits |-> 0, interrupts |-> restarts]] @@ Blank

\* More sessions are asked for than there may be.
Crowding == [calls |-> {"c1", "c2"}, visits |-> FALSE, budget |-> [requests |-> 6, edits |-> 0, interrupts |-> 0]] @@ Blank

MCSetups ==
    {Pairing, Skewed, Reordered, Repeated, Future,
     Work,
     Sending(<<"a", "a", "a">>, <<"o">>, TRUE), Sending(<<>>, <<"o">>, FALSE), Sending(<<"a", "a", "a">>, NoFile, FALSE),
     Flickering, Keeping,
     Settings({Set("data", "d2")}, {}, {1, 2}),
     Settings({Set("data", "d2"), Set("trees", "d2"), Set("port", 2)}, {[id |-> "s1", place |-> "d2"]}, {1}),
     Executing({"exe", "head", "edit"}, {}, 0, 2), Executing({}, {}, 1, 1), Executing({}, {Set("data", "d2")}, 0, 1),
     Credentials("vault"), Credentials("file"), Browsing({"c1", "c2"}, 1, 1), Browsing({"c1"}, 4, 0), Crowding}
=============================================================================
