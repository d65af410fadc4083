-------------------------- MODULE MCIndependentParts --------------------------
(* The messages, inputs, hosts and descriptors of the run over the parts.    *)
EXTENDS IndependentParts

ChannelValues == INSTANCE MCMetadataChannel
SubmitValues == INSTANCE MCSubmitRequests
HostValues == INSTANCE MCTransportHosts

TheMessages == ChannelValues!MCMessages
TheForeign == ChannelValues!MCForeign
TheInputs == SubmitValues!MCInputs
TheConfigurations == HostValues!MCConfigurations
TheQuestions == HostValues!MCQuestions
TheMetrics == HostValues!MCMetrics

\* Two sides, two versions of a schema, a hash or a profile that differs, a profile
\* that is not a standard one.
Descriptor(id, version, profile, hash) ==
  [schemaId |-> id, schemaVersion |-> version, profileId |-> profile, schemaHash |-> hash]
TheDescriptors ==
  {Descriptor(1, v, p, 10) : v \in {1, 2}, p \in {1, 2}}
    \cup {Descriptor(1, 1, 1, 20), Descriptor(2, 1, 0, 10), Descriptor(2, 1, 9, 10)}
ThePayloads == [schemaId : 0..2, schemaVersion : 0..2, profileId : {0, 1, 2, 9}]
=============================================================================
