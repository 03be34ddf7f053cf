--------------------------- MODULE MCPodTemplate ---------------------------
(***************************************************************************)
(* Instances of PodTemplate for TLC: user templates that are absent,       *)
(* plain, rich, or in each other's way with what the operator computes.    *)
(***************************************************************************)
EXTENDS PodTemplate

Container(image) == [NoContainer EXCEPT !.name = "app", !.fields = [image |-> image]]

Sidecar == [NoContainer EXCEPT !.name = "sidecar",
                               !.fields = [image |-> <<"user", "sidecar">>]]

Template(container) == [NoTemplate EXCEPT !.containers = <<container>>]

Plain == Template(Container(<<"user", "1">>))
Imageless == Template([NoContainer EXCEPT !.name = "app"])

\* A probe, a variable, a mounted volume, a port, a CPU request, a sidecar,
\* labels.
Rich ==
    [NoTemplate EXCEPT
        !.containers =
            <<[Container(<<"user", "1">>) EXCEPT
                  !.fields = [image |-> <<"user", "1">>, cpu |-> "2"],
                  !.env = Entry(<<"", "MINE">>, [value |-> "x"]),
                  !.mounts = Entry("/mine", [name |-> "mine"]),
                  !.ports = Entry("9000", [name |-> "mine"]),
                  !.probe = [httpGet |-> "9000"]],
              Sidecar>>,
        !.init = [mine |-> [image |-> <<"user", "init">>]],
        !.volumes = [mine |-> [hostPath |-> "/disk"]],
        !.pullSecrets = {"mine"},
        !.labels = [component |-> "mine", team |-> "a"]]

\* A volume of its own where the operator mounts one.
Overmounted ==
    [Template([Container(<<"user", "1">>) EXCEPT
                  !.mounts = Entry("/tmp", [name |-> "mine"])
                      ++ Entry("/app/shuffle_data", [name |-> "mine"])
                      ++ Entry("/app/observatory_data", [name |-> "mine"])])
        EXCEPT !.volumes = [mine |-> [hostPath |-> "/disk"]]]

\* The operator's names with sources of another kind.
SameVolume ==
    [Plain EXCEPT !.volumes = Entry("tmp-data", [hostPath |-> "/disk"])]
SameVariable ==
    Template([Container(<<"user", "1">>) EXCEPT
                 !.env = Entry(<<"", "OTLP_ENDPOINT">>, [valueFrom |-> "mine"])])
SamePortName ==
    Template([Container(<<"user", "1">>) EXCEPT
                 !.ports = Entry("9000", [name |-> "sched"])])

\* The operator's name with its own source; and a mount of no volume.
SameSource == [Plain EXCEPT !.volumes = Entry("shuffle-data", EmptyDir)]
Dangling ==
    Template([Container(<<"user", "1">>) EXCEPT
                 !.mounts = Entry("/mine", [name |-> "mine"])])

Account(set, create, name) == [set |-> set, create |-> create, name |-> name]
License(kind) == [kind |-> kind, credentials |-> "value", claim |-> "",
                  registerNode |-> FALSE]

ComposedSpec ==
    [version |-> "0.7.1", runtime |-> TRUE, distTag |-> "",
     pythonTag |-> "3.13", imageVolume |-> FALSE, requirements |-> FALSE,
     license |-> License("onPrem"), settings |-> {}, telemetry |-> "none",
     shuffle |-> "none", checkpoint |-> "none", anonymousResults |-> "none",
     observatoryClaim |-> "", temporaryClaim |-> "", replicas |-> 1,
     pullSecrets |-> {}, schedulerTemplate |-> NoTemplate,
     workerTemplate |-> NoTemplate,
     schedulerAccount |-> Account(FALSE, FALSE, ""),
     workerAccount |-> Account(FALSE, FALSE, "")]

MCFirstSpecs ==
    {ComposedSpec,
     [ComposedSpec EXCEPT !.runtime = FALSE, !.schedulerTemplate = Plain,
                          !.workerTemplate = Plain]}

MCAccounts == {Account(FALSE, FALSE, ""), Account(TRUE, TRUE, ""),
               Account(TRUE, FALSE, "mine")}

MCFieldValues ==
    [version |-> {"0.7.0", "0.7.1", "0.8.0", "latest", "seven"},
     runtime |-> BOOLEAN, distTag |-> {"", "nightly"},
     pythonTag |-> {"3.13", "3.12"}, imageVolume |-> BOOLEAN,
     requirements |-> BOOLEAN,
     license |-> {License("onPrem"), License("onPremEnterprise"),
                  [License("onPrem") EXCEPT !.claim = "claim",
                                            !.credentials = "from"],
                  [License("cloud") EXCEPT !.registerNode = TRUE]},
     settings |-> {{}, WorkerSettings, Settings \ WorkerSettings, {"lineage"}},
     telemetry |-> {"none", "value", "from"},
     shuffle |-> {"none", "local", "localPath", "shared"},
     checkpoint |-> {"none", "s3"},
     anonymousResults |-> {"none", "gcs"},
     observatoryClaim |-> {"", "claim"}, temporaryClaim |-> {"", "10Gi"},
     replicas |-> 0..1, pullSecrets |-> {{}, {"registry"}},
     schedulerTemplate |-> {NoTemplate, Plain, Rich, Imageless,
                            Overmounted, SameVolume, SameVariable, SamePortName,
                            Dangling},
     workerTemplate |-> {NoTemplate, Plain, Rich, Imageless,
                         Overmounted, SameVolume, SameVariable, SameSource},
     schedulerAccount |-> MCAccounts, workerAccount |-> MCAccounts]

\* The templates above take none of the names the release is told by.
ASSUME ReleaseNamesAssumption == ReleaseNamesAreOurs
=============================================================================
