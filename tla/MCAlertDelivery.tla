-------------------------- MODULE MCAlertDelivery --------------------------
\* A small instance of AlertDelivery for TLC.
EXTENDS AlertDelivery

\* A forwarder with all it needs, and one for each thing it can lack.
Good == [url |-> "custom", site |-> "", keyFile |-> "key",
         brokers |-> <<"", "kafka:9092">>]
MCDeployments ==
  {<<"splunk", Good>>,
   <<"splunk", [Good EXCEPT !.url = "", !.site = "eu1"]>>,
   <<"splunk", [Good EXCEPT !.keyFile = "empty"]>>,
   <<"datadog", [Good EXCEPT !.url = "", !.site = "eu1"]>>,
   <<"datadog", [Good EXCEPT !.url = "", !.site = "unknown"]>>,
   <<"datadog", [Good EXCEPT !.brokers = <<"">>]>>}
=============================================================================
