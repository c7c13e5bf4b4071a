---------------------------- MODULE MCSecretCode ----------------------------
(* The device, its network and the server on small instances.              *)
EXTENDS SecretCode

CONSTANTS a1, a2

Forever == dp_set_expire(0)
After(n) == [colon |-> TRUE, num |-> n]
Default == [colon |-> FALSE, num |-> Unparsable]

Make(expire, command, data) ==
    [expire |-> expire, command |-> command, data |-> data, fits |-> TRUE,
     sig |-> << >>]

Part(command) == dp_sign(Make(Forever, command, Nil))
Install(apk) == dp_sign(Make(Forever, "install-this", apk))
Composite(expire, parts) == Make(expire, "composite", parts)

\* A composite in a composite; a part never signed; a part that expires with
\* the second 2; a command the daemon does not know; data_size left at 0; two
\* packages.
CodeFiles == {
    Composite(After(2), <<Part("adb-enable"),
        dp_sign(Composite(Forever, <<Part("adb-disable")>>))>>),
    Composite(After(1), <<Part("wifi-enable"), Make(Forever, "ok", Nil)>>),
    Composite(dp_set_expire(3), <<Part("fw-flush"),
        dp_sign(Make(dp_set_expire(2), "ok", Nil))>>),
    Make(Default, "script", Nil),
    [Make(Default, "install-this", a1) EXCEPT !.fits = FALSE],
    Composite(Default, <<Install(a1), Install(a2)>>)}

\* The payloads in the data of these, and in the data of those.
PartsOf(files) ==
    UNION {ToSet(p.data) : p \in {f \in files : f.command = "composite"}}
CodeParts == PartsOf(CodeFiles) \cup PartsOf(PartsOf(CodeFiles))

\* A part whose time counts from its use.
RelativeFiles == {Composite(After(2), <<dp_sign(Make(After(1), "ok", Nil))>>)}
RelativeParts == PartsOf(RelativeFiles)

\* Two codes with a package each.
InstallFiles == {Make(Default, "install-this", apk) : apk \in {a1, a2}}

=============================================================================
