----------------------------- MODULE MCPatchRam -----------------------------
(* Command lines, among them those of the two services.                    *)
EXTENDS PatchRam

Opt(o) == [opt |-> o, val |-> 0]
Num(o, n) == [opt |-> o, val |-> n]
Rate(r) == Num("baudrate", r)
Early == Opt("use_baudrate_for_download")

\* brcmfmac_sdio-firmware@.service
Service == <<Opt("patchram"), Rate(3000000), Early, Opt("enable_hci"),
             Opt("no2bytes"), Num("tosleep", 50000)>>
\* An older chip, with a rate that needs the 48 MHz clock.
Older == <<Opt("patchram"), Rate(4000000), Num("bd_addr", 6)>>
Whatever == <<Num("scopcm", 10), Num("i2s", 4), Opt("enable_lpm"), Rate(460800), Rate(115200)>>
Wrong == {<<Num("patchram", x)>> : x \in {3, 4, 5}}
         \cup {<<Num(o, 0)>> : o \in {"baudrate", "scopcm", "i2s", "tosleep"}}
         \cup {<<Opt("unknown"), Num("bd_addr", 3)>>}

MCArgvs == {Service, Older, Whatever} \cup Wrong
OlderOnly == {Older}

\* Whole; cut within the header of a record, within the body of the launch; and
\* one that cannot be read after its first record.
MCFiles == {Image, <<"header">>, <<"all", "body">>, <<"all", "error">>}
CutOnly   == {<<"header">>}
=============================================================================
