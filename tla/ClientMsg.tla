------------------------------ MODULE ClientMsg ------------------------------
(***************************************************************************)
(* What the control server makes of a message once its bytes are together: *)
(* the getters of client_msg, and what connection::handle_client_msg and   *)
(* get_client_info write into the client list for a HELO.  The parser that *)
(* puts the bytes together is ClientMsgParser, which goes on meanwhile.    *)
(***************************************************************************)
EXTENDS ClientMsgParser

CONSTANTS
    Helo   \* the command "HELO"

ASSUME HeloAssumption == Helo \in [1..4 -> Byte]

VARIABLES
    clients,   \* the client list: the info of each MAC address
    process    \* "running", "terminated" by the runtime's checks, "thrown" out of
               \* run() by an exception

msgVars == <<vars, clients, process>>

\* get_device_name: the names of the codes 2 to 12.
DeviceNames ==
    <<"", "Squeezebox", "Softsqueeze", "Squeezebox 2", "Transporter", "Softsqueeze 3",
      "Receiver", "Squeezeslave", "Controller", "Boom", "Softboom", "Squeezeplay">>
DeviceName(d) == IF d # <<>> /\ d[1] \in 2..12 THEN DeviceNames[d[1]] ELSE ""

\* get_firmware_revision returns a char, which is signed.
FirmwareRevision(d) == IF Len(d) > 1 THEN SignedByte(d[2]) ELSE 0

\* get_mac_address: six unsigned chars, or none.  Mutant: one byte too early.
MacAddress_Early(d) == IF Len(d) > 7 THEN SubSeq(d, 2, 7) ELSE <<>>
MacAddress(d) == IF Len(d) > 7 THEN SubSeq(d, 3, 8) ELSE <<>>

\* "%u" makes ten digits of a negative char, and revision_str holds three.
RevisionFits(r) == r >= 0

ClientInfo(d) == [name |-> DeviceName(d), revision |-> FirmwareRevision(d)]

\* handle_client_msg of a HELO with data d.  An empty MAC address is indexed
\* all the same, and sprintf_s does not return from a text that does not fit.
\* The socket, which is not modelled here, may have been closed or reset by now
\* (SlimServer's HandleHeloThrows): remote_endpoint throws.
HandleHelo(d) ==
    LET fits == MacAddress(d) # <<>> /\ RevisionFits(FirmwareRevision(d))
    IN  \/ /\ fits
           /\ clients' = [m \in DOMAIN clients \cup {MacAddress(d)} |->
                              IF m = MacAddress(d) THEN ClientInfo(d) ELSE clients[m]]
           /\ UNCHANGED process
        \/ ~fits /\ process' = "terminated" /\ UNCHANGED clients
        \/ fits /\ process' = "thrown" /\ UNCHANGED clients

\* handle_read's step, with the message it passes on, if any.
HandleClientMsg ==
    LET m == handled'[Len(handled')]
    IN  IF handled' # handled /\ m.command = Helo
        THEN HandleHelo(m.data)
        ELSE UNCHANGED <<clients, process>>

MsgInit ==
    /\ Init
    /\ clients = << >>
    /\ process = "running"

MsgNext == process = "running" /\ Next /\ HandleClientMsg

MsgSpec == MsgInit /\ [][MsgNext]_msgVars

-----------------------------------------------------------------------------

\* README.markdown:45 "a list of active clients": once all a player said has
\* been read, the list has its MAC address with the name of its device and its
\* revision, as it said last, and nothing else.
HeloListed ==
    Orderly /\ consumed = Len(stream) /\ process = "running" =>
        LET helos == {i \in 1..Len(sent) : sent[i].command = Helo}
            mac(i) == SubSeq(sent[i].data, 3, 8)
        IN  /\ DOMAIN clients = {mac(i) : i \in helos}
            /\ \A i \in helos :
                  (\A j \in helos : j > i => mac(j) # mac(i)) =>
                      /\ clients[mac(i)].revision = sent[i].data[2]
                      /\ clients[mac(i)].name # "" <=> sent[i].data[1] \in 2..12

\* "Convert firmware revision to string" (connection.cpp:486): whatever the
\* revision, the text of a complete HELO can be made.
RevisionListed ==
    process = "terminated" => Len(handled[Len(handled)].data) < 8
=============================================================================
