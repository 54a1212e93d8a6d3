\* Two applications, two pairing links, with cuts, restarts and revocation.
SPECIFICATION FairSpec
CONSTANTS
    phone = phone
    tablet = tablet
    desk_link = desk_link
    phone_link = phone_link
    Client = {phone, tablet}
    Link = {desk_link, phone_link}
    Grants <- TwoGrants
    Requests = {"revoke_device", "prompt"}
    MaxSlot = 2
    MaxInputs = 2
INVARIANT TypeOK
INVARIANT PairingSingleUse
INVARIANT PairedMeansStored
INVARIANT RevokedStaysOut
INVARIANT GrantedOnly
INVARIANT HeartbeatSpares
PROPERTY Reconnects
CHECK_DEADLOCK FALSE
